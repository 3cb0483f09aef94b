# A verification project for NYCU-SoC-2023

TLA+ models, model checks and proofs for the hardware and firmware of the four
Caravel labs in this repository. The repository is Verilog and C: every Verilog
`always` block is a set of registers that change together at a clock edge, every
firmware function is a sequence of accesses on a Wishbone bus. The models follow
that: a variable is a register or a C variable (it keeps its name), a definition
is an `always` block, one state of it, or a function, and a step is one edge of
the system clock or one access of the program.

## 1. The system

    CPU (VexRiscv) --ibus,dbus--+                          +-- UART (lab 6) --serial-- testbench UART
      firmware: CSR accessors,  |   Wishbone bus of        |        +-- user_irq[0] --> event manager --> CPU
      timer, workloads, drivers |   the management core ---+
    debug bridge ---------------+   (arbiter, time-out)    +-- user project wrapper --+-- execution memory
                                          |                    (lab 4: latches,       +-- bridge --AXI-- FIR filter -- RAMs
                                          |                     lab 6: muxes)
                                          +-- housekeeping --serial chains-- 38 pads --check bits-- testbench

    lab 3: testbench --AXI-lite, two AXI streams-- FIR filter -- RAMs

### 1.1 Inventory

| component | code | state | operations | what makes it correct |
|---|---|---|---|---|
| UART receiver | `lab6-workload/rtl/user/uart_rx.v` | state, bit counter, bit index, shift register, `irq`, `frame_err`, `busy` | one per state: wait, start bit, data bits, stop bit, announce, wait for the read, framing error | every byte announced is kept until it is read; counters stay within a bit |
| UART transmitter | `uart_tx.v` | state, counters, edge detector, `busy`, `clear_req` | start, data, stop, clear the request | a frame carries one byte; every byte accepted leaves |
| UART controller | `uart_ctrl.v` | status, two buffers, ack, read data, `o_rx_finish`, `o_tx_start` | one `always` block each, driven by bus and both halves | agrees with the receiver on who holds the byte; loses no error |
| UART top | `uart.v` | wires | clocks the three | the above together |
| interrupt path | `mgmt_core.v` (event manager `gpioin0`) | two synchronisers, trigger, pending | set on a rising trigger, cleared by software | one interrupt per byte |
| driver | `uart.c`, `isr.c`, `counter_la_uart.c` | program counter, one local | read a byte, write it back; write strings by polling | answers each byte once, unchanged |
| testbench UART | `vip/tbuart.v`, `uart_tb.v` | two state machines on a clock of their own | send a byte, await the echo | (environment) |
| FIR filter of lab 4 | `lab4-caravel_fir/rtl/user/fir.v`, `bram.v` | four state machines, two RAMs | AXI-lite read and write, ap_ctrl, shift in a sample, form a sum | Y[n] is the sum over the taps; length, done and idle agree |
| bridge | `user_project.v` | AXI strobes, read-data registers | one per channel | an acknowledgement belongs to its access |
| filter program | `fir.c`, `fir_control.c` | program counter, counts | configure, start, poll and send, poll and read, poll idle | loses no sample and no output |
| FIR filter of lab 3 | `lab3-fir/fir.v`, `fir_tb.v` | two AXI-lite channels, shift, port of the taps, computation | write, read, take a sample, form a sum | sums are right while the status is read |
| bus | `mgmt_core.v` | grant, time-out, slave select | arbitrate, select, or the answers, time out | answers come from the slave addressed; nobody starves |
| wrappers of labs 4 and 6 | `user_project_wrapper.v` | lab 4: the latches inferred from an incomplete `always @(*)`; lab 6: none | pass or hold; mux the answers | no slave sees a request that is not there |
| execution memory | `user_proj_example.counter.v`, `exmem.v`, `bram.v` | delay counter (lab 4), ready, RAM | read, write, acknowledgement | it is a memory, and answers before the time-out |
| bus masters | `VexRiscv_MinDebugCache.v`, debug bridge in `mgmt_core.v` | half pipe, word of the line | line fetch, single access, abandoned access | (environment) |
| CSR accessors | `firmware/csr.h` (`generated/csr.h` is the same file), `hw/common.h`, `defs.h`; tables and event managers of `mgmt_core.v` | the banks' registers, pending events; a CSR in subregisters | read, write, write a field, acknowledge events; read and write as a buffer | a field is a variable of its own; an event stays until it is acknowledged; both ways to access a wide CSR agree |
| timer and counters | `simple_system_common.c` | 64-bit time, comparator and counters in halves; elapsed periods | read the time, arm, enable, handle, clear the counters | no time is torn, no interrupt early, no period counted too soon |
| exception report | `simple_system_common.c` | line and digit printed | print a title, a number | the report spells the registers |
| workloads of lab 6, software filter of lab 4 | `qsort.c`, `matmul.c`, `fir.c`, `counter_la_*.c`, `*_tb.v` | arrays, call stack, check bits; a process per workload | partition, sort, multiply, filter, show a result; wait for a value | results are right; each wait ends |
| pads and housekeeping | `caravel.h`, `counter_la_*.c`, `housekeeping.v`, `gpio_control_block.v`, `caravel.v` | back door, configurations, loader, two chains of shift registers | write a word byte by byte, load the pads | every pad takes its own mode, all at once; pins change by whole words |

Not modelled: the housekeeping SPI, the inside of the generated CPU, start-up code,
the vendors' memory and flash models, the wiring of the pads. Section 12 says why.

### 1.2 How the parts interact, and what is hard

* **Everything happens at once.** Receiver, transmitter, controller, filter, bridge,
  arbiter and memory all move at each edge. Handshakes cross modules through registers,
  so each side sees the other one cycle late. Most hazards listed in PROJECT.json are
  two such registers changing in an order no test drives.
* **Asynchrony.** The serial line changes at any cycle; the testbench's UART has a clock
  of its own whose phase is arbitrary; the CPU leaves any number of cycles between two
  accesses and takes an interrupt when it likes.
* **One value, several accesses.** The time, the comparator and the counters are two
  registers each; a field of a CSR is changed by a read and a write; a word for the pins
  is four writes inside the housekeeping; a coefficient is four byte lanes.
* **Clear on read or on write, set by hardware.** Status bits and events are set by
  hardware in the cycles in which software clears them.
* **Answers that outlive their access.** Acknowledgements are not tied to `cyc`; they
  are ored together on the bus and steered by a select that is a cycle old.
* **Waiting by value.** Testbenches know of the program only what sixteen pins show.
* **Failures.** A damaged stop bit; an access that no slave answers; a debug command
  that is dropped half-way; a restart of the processor through `ctrl_reset`.

## 2. Modules

| module | models | extends |
|---|---|---|
| `UartFrame` | clock division and frame size, shared helpers | |
| `UartReceive`, `UartTransmit`, `UartCtrl` | `uart_rx.v`, `uart_tx.v`, `uart_ctrl.v` | `UartFrame`; the controller extends both halves |
| `Uart` | `uart.v` and the Wishbone master; arbitrary line, arbitrary accesses | `UartCtrl` |
| `UartProofs` | theorems about `Uart` and its polling driver | `UartWrite`, `TLAPS` |
| `UserIrq`, `TbUart` | event manager; testbench UART | |
| `UartEcho` | loopback: UART, interrupt, service routine, peer | `Uart`, `UserIrq`, `TbUart` |
| `EchoChannel`, `UartEchoProofs` | abstract: what the loopback promises; theorems about `UartEcho` | `UartEcho`, `TLAPS` |
| `UartWrite` | polling driver on the UART | `Uart` |
| `Bram` | RAM with byte lanes | |
| `Fir`, `FirBridge` | `fir.v` of lab 4; `user_project.v` and the master's side | `Bram`; `Fir` |
| `FirHost` | `fir.c` driving the bridge | `FirBridge` |
| `FirFilter` | abstract: a filter used one sample at a time | |
| `FirOpen`, `FirProofs` | bridge and filter under any accesses; theorems about it and about the program | `FirBridge`; `FirOpen`, `FirHost`, `TLAPS` |
| `Fir3`, `Fir3Bench` | `fir.v` of lab 3; its testbench | `Bram`; `Fir3` |
| `SocBus`, `SocBusProofs` | masters, arbiter, time-out, both wrappers, execution memory; theorems | `SocBus`, `TLAPS` |
| `CsrMap` | the banks, registers and fields of `csr.h`, and the tables the core decodes | |
| `CsrFields` | abstract: every field a variable | |
| `Csr` | one bank under the accessors, with its event manager | `CsrMap` |
| `CsrBuffer` | the accessors of `hw/common.h` | |
| `CsrProofs` | theorems about both | `Csr`, `CsrBuffer`, `TLAPS` |
| `SysTimer`, `SysTimerProofs` | timer, handler, counters; theorems about it and about the report | `SysTimer`, `ExcReport`, `TLAPS` |
| `ExcReport` | the exception handler's output | |
| `QSort` | `partition`, `sort`, `swap`, with the stack of calls | |
| `Workload`, `WorkloadProofs` | five programs, the testbenches of labs 4 and 6; theorems about them and about the testbench of lab 3 | `QSort`; `Workload`, `Fir3Bench`, `TLAPS` |
| `Pads`, `PadsProofs` | what the seven main programs write to the pads' registers, and the way of it: back door, loader, chains, control blocks; theorems | `Pads`, `TLAPS` |
| `MC*` | constants for TLC, one per specification; `MCCsr`, `MCSysTimer` and `MCWorkload` also hold a second, independent specification (`CsrBuffer`, `ExcReport`, `Fir3Bench`), which runs first or instead | |

An edge is the conjunction of one definition per `always` block
(`CtrlClock == StatClock /\ TxBufferClock /\ ...`): each assigns its own registers from
the unprimed values of all others, which is what non-blocking assignment means. A state
machine is a disjunction with one definition per state (`RxGetData`, `CalcReadWait`, ...).
Combinational signals (`sm_tvalid`, `wbs_ack_o`, `shared_dat_r`) are operators over the
registers. Firmware is one action per bus access; the C statement it belongs to is named
in the module's header. Operators commented "Mutation:" are deliberately wrong variants
of the definition that follows them; no specification uses them. They document which
mistake each property is able to see.

### What is abstracted, everywhere

* **Power-on.** Only reset at power-on is modelled (and the restart by `ctrl_reset` in
  `Csr`); reset never comes again.
* **Bytes and numbers.** A UART byte is a function from bit positions to bits, a CSR word
  the set of its one-bits. The hardware filters' numbers are not added or multiplied:
  `sm_tdata` is the formal sum of the products accumulated, a sequence of pairs of words,
  so an output shows which tap met which sample. A RAM word is kept lane by lane so that a
  torn word is visible.
* **Pairs of complementary bits** in the UART's status are one Boolean each; only 10 and
  01 are ever written to them. `awvalid` and `wvalid` of lab 4's bridge, driven by the same
  conditions, are one variable.
* **Byte lanes** are not distinguished in `SocBus`; the words of an address are small
  integers and the RAM's address is taken modulo its size, as `A0[N-1:0]` does.
* **Zero-delay glitches** of combinational decoders are left out.

## 3. UART

`Uart` leaves the line free (`\E rx \in Bit` at every edge) and lets the master start any
request in `Requests` once the bus has been idle for a cycle, which is what the half pipe
of VexRiscv's data bus does. Its receive path is a handshake of three registers written
in two modules, and the properties are about that handshake:

* `AnnouncedIsLoaded`: in the cycle in which the receiver announces a byte the buffer is
  free, so the byte is loaded; no bus access at the same edge can prevent it.
* `ParkedIsReadable`: while the receiver waits for its byte to be read, the controller
  knows that there is one. Otherwise reception would stop for good.
* `OverrunUnreachable`: the code path that sets the overrun bit is dead.
* `FrameErrIsRecorded`, `SentByteIsStable`: action properties about an error that meets
  a clearing read and about a frame whose buffer is written to.

`UartEcho` composes the UART with the interrupt path, `isr()` access by access, and the
testbench's UART. `EchoesFaithfully` says that this implements `EchoChannel`: each byte
sent comes back, once, unchanged, and every byte does. `OneInterruptPerByte` and
`AccessesLand` are the reasons it does. `UartWrite` is the polling driver: `tx_full` rises
several cycles after a write is accepted, and the driver would overwrite its own byte if it
polled and wrote again at once. With `MinGap = 3` idle cycles between accesses (the loop's
instructions, fetched over the same bus, take more) `NoWriteLost` holds, and
`WrittenIsSent` says that each byte leaves. Three is exact: the proof covers every
`MinGap` of at least three, and at two TLC shows a byte overwritten.

A disagreement with the repository's description, shown by run `uart_deaf`: after a
damaged stop bit `uart_read()` skips the data register and leaves the receiver parked for
good, so that no later byte is answered. Three more follow from the same models and have
no run of their own: in that case `uart_read()` returns an uninitialised value, which is
echoed; the overrun bit that `uart_ctrl.v:36` lists is never set
(`OverrunUnreachable` is the proof); and a read of the status register lasts two cycles, so
that it can clear a framing error of its second cycle which its answer does not show.

## 4. FIR filters

**Lab 4.** `FirHost` runs `fir()` several times. The acknowledgement of an AXI-lite read is
given a cycle before the bridge latches the data, so every poll returns the status that the
poll before fetched. The program nevertheless works, and the properties say why:
`OutputFindsResult` (each read of an output finds one that has not been read),
`LengthAddsUp` (what is left of the length and the outputs formed add up, so the filter is
done after the last output and not before), `TapsAreSettled` (no coefficient is half
written when a sum is formed). `FiltersFaithfully` says that program and filter implement
`FirFilter`, the sum over the taps with the samples of the previous run in the places not
yet filled: neither `data_validNum` nor the RAM is cleared by a new start, which is at odds
with the formula in `fir.v` for all runs but the first. (The last output, the only one the
testbench compares, is a sum over its own run.)

`FirOpen` replaces the program by any sequence of accesses, answered or given up, that
does not send a sample before the last one is through. `ByteCounterIsAligned` (a
coefficient write always starts at lane 0), `AnsweredInTime`, `NoStaleAck` and
`SumIsComplete` hold there.

**Lab 3.** `Fir3` is the first version, with AXI-lite handshakes of its own; `Fir3Bench` runs
the testbench's processes against it. The testbench reads the status once while the filter
works, and the sample that follows is a few cycles late; in the model the status may be
read in any cycle and every sample may be late. `TestbenchPasses` says that it reports no
error: coefficients read back as written, outputs are the sums over the last samples, done
and idle come with the last output. What makes this delicate: the next sample is taken from
the stream at the end of a shift, without a handshake of its own, so `MaxLate = 67 =
6 * Tape_Num + 1` is exact (at 68 TLC shows a sample used twice); and a status read ends by
switching off the port the computation reads its taps from (`fir.v:304`), which is harmless
only because the computation's assignment comes later in the source. The filter relies on
its testbench elsewhere: a source that lowers `tvalid` as an output is shown makes the sum be
formed and shown again; a sink that is not ready loses an output (`fir.v:329`); `awvalid` and
`wvalid` raised together are never accepted (`fir.v:117`); a write to the control register
while `tap_EN` is left on by the computation goes into a coefficient (`fir.v:281`); and
`ap_done` is never cleared. The testbench does none of this, so none of it has a property.

## 5. Bus, wrappers and execution memory

`SocBus` has the instruction bus (lines of `LineLen` words under one `cyc`), the data bus
and the debug bridge, which may drop an access to the memory half-way because it ends its
commands after 10^6 cycles. The user project comes in two wrappers, chosen once.

* `"latches"` (lab 4): the decoder assigns its outputs in one branch only, so that each side
  keeps the last request in latches while the other is addressed: `held_c`, `held_m`. The
  execution memory answers after `DELAYS` cycles, counted by a register that keeps its value
  when an access is cut short.
* `"muxes"` (lab 6): every slave sees every request and decodes it itself; only the answers
  are selected. The memory answers without delay.

`NoGhostRequest` says that no slave is shown a request that is not on the bus,
`AnswersAreOwn` that the ored acknowledgement and the late data select belong to the slave
addressed, `ReadsSeeLastWrite` that the memory is one (against a history variable that
records writes when they end), `MemoryIsInTime` that the memory's delay always fits in
what is left of the time-out, and `EveryRequestIsAnswered` that no master starves.

The filter, the UART and the slaves of the core are abstract here: they answer late, or
never. `ReadsSeeLastWrite` needs `RamSize >= Words`, that is, a program that fits (its theorem
has this as `FitAssumption`): lab 4's RAM
takes ten bits of a *byte* address, one kilobyte, while its comment says 16 kB and the linker
script gives the region 4 MB; lab 6 takes twelve bits. With `RamSize = 1` and the other
constants as they are, TLC shows one word overwriting another.

## 6. CSR accessors

`CsrMap` holds two tables made independently: what `csr.h` says of each register and field
(address, offset, size, read-only), and what `mgmt_core.v` decodes at that address. `Csr` puts
the accessors of the one over the registers of the other. A field is written by reading the
word, replacing the field and writing the word, while events go on and, for `ctrl`, the
processor may restart.

* `FieldsAreIndependent`: this implements `CsrFields`, in which each stored field is a variable
  of its own: a write changes the fields it names, to the extent that the core has room for
  them, and nothing else; a read returns them.
* `EventsSurvive`: an event is pending from when it happens until a caller names it and writes it
  as one, also when it happens in the cycle of an acknowledgement of the last one. There is one
  way to lose it, and the property says it is the only one: the register of the UART holds
  two events, and `uart_ev_pending_tx_write(1)` (`csr.h:643-647`) reads both, replaces its own bit
  and writes back the other. A one clears its event (`mgmt_core.v:3335-3340`, `7567-7570`), so a pending
  rx event is cleared although nobody has named it; one that comes after the read is kept.
  The history variable `swept` records such events. No doc, comment or test of the repository
  claims otherwise, and no program here calls the accessor, so it is described and not listed as
  a finding. In the registers of a single event nothing but an acknowledgement takes it.
* `AccessorsAgree`: a CSR wider than a subregister reads as what was written, whether it is
  written as a number or as a buffer, for elements narrower and wider than a subregister and
  sizes that fill neither. The first subregister holds the most significant bytes; the
  comment at `hw/common.h:19` says the least significant slice has the lowest address.

`CONFIG_CSR_DATA_WIDTH` 64, for which the accessors shift a 64-bit value by 64, is left out:
the core is built with 32. `defs.h:53` names `CSR_DEBUG_*` macros that nothing defines.

## 7. Timer, counters, exception report

`SysTimer` lets time go on between any two accesses, and the handler between any two
accesses of the program.

* `ReadIsCurrent`: what `timer_read` puts together was the time at some moment of the call.
* `ComparatorIsNeverEarly`: during the three writes of `timecmp_update` the comparator is never
  below both the old and the new time. The exception, which the model keeps in `torn`, is
  real: the handler may update the comparator in the middle of the program's update, and the
  two mixed give any time. `timer_enable` disables no interrupt.
* `ElapsedIsNeverAhead`: the handler never counts more periods than have passed, provided the
  timer was disabled when it was enabled.
* `ResetCounterIsSmall`: `pcount_reset` clears low halves and high halves in an order such that
  an overflow on the way leaves nothing behind.
* `ReportIsFaithful` (`ExcReport`): the digits printed, read back, are the registers. This one is
  proved for every width and value and is not among the properties of the run, whose steps it shares.

A torn read of `time_elapsed` (64 bits, read by the program while the handler adds to it) is
not modelled; nothing in the repository reads it.

## 8. Workloads and their testbenches

`QSort` keeps the stack of calls, so that each pass of the partition loop is a step.
`SortStaysInBounds` bounds every access and the depth of the stack, `PartsStaySplit` says
that no element crosses a pivot that is in its place. `Workload` adds `matmul`, the filters, and
`main`, which shows flags and results on the check bits; each process of a testbench waits
for one value after another on the same pins, so that a result of one workload may be the
flag another process waits for, and equal successive results look like one. A wait takes no
time, hence the program is held back while one can end. `ResultsAreRight` compares with
definitions (each rank's element, matrix product, convolution), `BenchFinishes` says that all
waits end, that of lab 3 (section 4) included.

`ProcessesKeepStep` says what the waits are worth. No process is ever behind: whatever the data,
each value a process is to see has been seen by the time `main` shows the next one. None is ahead,
that is, none goes by a value shown for another workload or as another result, unless a result looks
like a flag on the pins, or `main` repeats a value. Where a result does look like a flag, a process
may pass before its workload has run, as `counter_la_integrate_tb.v:155` has nothing but the value to go by.
It still hangs nowhere, for each value comes once more in its turn; the run includes products equal
to the end flag of `matmul` and the start flag of `qsort`.

The software filter of lab 4 stops its inner loop before the newest sample
(`lab4-exmem_fir/testbench/fir.c:18`); it is right only because the first tap is zero, and `Init` says so.
Its testbench looks at no result.

## 9. Pads

`Pads` lists what each of the seven programs writes, and is the way of those words: the
back door of the housekeeping, which turns one access into four of a byte, the
`gpio_configure` registers, the loader, which shifts 13 bits for each of 19 pads into two
chains at once, one from each end, and the control blocks, whose shift registers pass
the bits on at the other edge of the serial clock. Nothing is scaled down.

* `ConfiguredTogether`: until the load strobe all pads have their defaults, from then on each
  has the mode its program asked for. (The program may still write when the loader has
  started; it never does, but waits, see below.)
* `PinsChangeAtOnce`: the pins go from one word to the next, although it arrives in bytes.
* `SetupEnds`: the program gets through, and the loader comes to rest. The request bit is
  withdrawn only by an access that writes nothing; the poll is one.
* `PollWaitsForLoad` does not hold (run `pads_poll`): the poll compares the whole word with 1,
  and bits 5 and 6 of that register show the serial data.

The first two are proved as well (section 11). The SPI is inactive and bit-banging is off, as in the
programs.

## 10. What the runs check

| run | constants | distinct states | properties | shows |
|---|---|---|---|---|
| `uart_open` | bit = 4 cycles, 2 data bits | 648,352 | `TypeOK`, `AnnouncedIsLoaded`, `ParkedIsReadable`, `OverrunUnreachable`, `FrameErrIsRecorded`, `SentByteIsStable` | the receive handshake and the transmit buffer under any line and any accesses |
| `uart_echo` | bit = 8 cycles, 8 data bits, 4 bytes | 14,592 | `AccessesLand`, `OneInterruptPerByte`, `EchoesFaithfully` | the loopback implements `EchoChannel` |
| `uart_write` | bit = 4, 2 data bits, gap 3 | 661 | `NoWriteLost`, `WrittenIsSent` | the polling driver loses nothing |
| `uart_deaf` | bit = 8, 2 data bits, one damaged stop bit | | `UndamagedByteIsAnswered` | counterexample |
| `fir_host` | 11 taps, 14 samples, 3 runs | 39,595 | `OutputFindsResult`, `LengthAddsUp`, `TapsAreSettled`, `FiltersFaithfully` | program and filter implement `FirFilter` |
| `fir_open` | 2 taps, length modulo 2 | 2,493,436 | `SumIsComplete`, `ByteCounterIsAligned`, `AnsweredInTime`, `NoStaleAck` | the filter under any accesses |
| `soc_bus` | 2 words, lines of 2, delay 1, time-out 3, both wrappers | 46,047 | `NoGhostRequest`, `AnswersAreOwn`, `ReadsSeeLastWrite`, `MemoryIsInTime`, `EveryRequestIsAnswered` | the bus and the execution memory |
| `csr` | all banks; values 0 and 2^32 - 1; CSRs up to 8 bytes | 669,482 | `EventsSurvive`, `AccessorsAgree`, `FieldsAreIndependent` | the accessors |
| `timer` | halves of one bit, time up to 8, periods 1 and 2 | 6,570,244 | `ReadIsCurrent`, `ComparatorIsNeverEarly`, `ElapsedIsNeverAhead`, `ResetCounterIsSmall` | the timer, with the report beside it |
| `workload` | the lab's data; arrays of 1 to 4; lab 3: 11 taps, 14 samples | 193,107 | `SortStaysInBounds`, `PartsStaySplit`, `ResultsAreRight`, `ProcessesKeepStep`, `TestbenchPasses`, `BenchFinishes` | workloads, lab 3's filter, testbenches |
| `pads` | 38 pads, 13 bits, 7 programs | 316,803 | `ConfiguredTogether`, `PinsChangeAtOnce`, `SetupEnds` | the pads' set-up |
| `pads_poll` | the same | | `PollWaitsForLoad` | counterexample |

Why the bounds are enough:

* `ClkDiv` 4 is the smallest bit in which the middle of the start bit, the sampling point
  and the end of a bit are different cycles; the two data bits make the index wrap and
  distinguish first and last bit. Loopback frames have the eight bits of the source, and
  eight cycles per bit let the service routine meet every part of a frame. Proofs cover
  all other values, for `Uart`, the driver and the loopback.
* `fir_host` has the eleven taps of the source; 14 samples fill and wrap the window, and
  three runs are what `fir_control.c` makes. `LengthMod` is the 10-bit register there; in
  `fir_open` it is 2 so that the length wraps, and two taps are the fewest that shift. Lab 3's
  filter has its eleven taps too, and its one run.
* `SocBus` needs two words to tell words apart, a line of two to have a word that is not
  the last, a delay of one to have a cycle without an answer, and the shortest time-out
  that `BusAssumption` allows with it: at `Timeout = DELAYS + 2` an access to the memory
  is answered with one cycle to spare.
* `Csr` has the registers of the source. A field write touches one register, and what it may
  disturb is in that register or in one other, so `MCCsr` takes every pair of a bank; all
  bits set and none show each bit that is kept, lost or moved. In `CsrBuffer` a byte has two
  values, subregisters 1, 2 or 4 bytes, elements 1, 2, 4 or 8, the CSR up to 8: fewer, more and
  not a multiple of either.
* `SysTimer` overflows a half every other tick, the most hostile case, and proofs cover the
  rest. `MaxTime = 8` wraps twice within a call. Registers of the report have digits 0, 9, a
  and f at every place.
* Arrays of up to four elements from three values have every order and every tie; the
  proofs cover every array. Matrices of 2 x 2 and filters of three taps take every sign pattern.
* `UnsentBound = 2` and `MaxWait + 1` bound history variables; the properties say that
  neither bound is reached. `Glitches = 1`: one damaged stop bit suffices.

Deadlock is checked in `uart_*`, `fir_*`, `soc_bus` and `csr`, which never stop. `timer`, `workload`,
`pads` and `pads_poll` set `CHECK_DEADLOCK FALSE`: time ends at its bound and the report halts the
simulation, and programs and testbenches come to an end.

### Fairness

The clock runs: weak fairness of the next-state relation (`WF(EchoNext)`, `WF(Next)`, of `Clock` in
`Pads`), which is what a free-running clock gives. The CPU makes progress: weak fairness of
`CpuProgress`, `WriteProgress`, `HostProgress` and of `Issue` in `Pads`, that is, it does not
spend for ever on the instructions between two accesses; they are finite in number and each
is fetched over a bus on which no request waits for ever (`EveryRequestIsAnswered`). In
`Workload` the program and the simulator go on. Nothing else is fair: slaves in `SocBus` may never
answer, the debug bridge need not abandon anything, the status of lab 3's filter need not
be read before its last output.

## 11. What is proved

Every theorem holds for every value of the constants that satisfies the named assumptions:

| assumption | says | why the code justifies it |
|---|---|---|
| `FrameAssumption` | a bit has two cycles or more, a frame a data bit | `uart_rx.v` compares with `(clk_div >> 1) - 1`, which wraps for one cycle |
| `RequestsAssumption`, `WriteAssumption` | requests are well formed (and `MaxWait >= 4`); those of the driver are among them | the bus has no others |
| `MinGap >= 3` (hypothesis of `WritesAreSent`) | cycles between two accesses of the driver | section 3 |
| `PeerAssumption`, `Testbench` (hypothesis in `UartEchoProofs`) | messages are bytes; the peer waits for its echo and its line is clean | `uart_tb.v` sends one byte and waits for `rx_finish` |
| `FirAssumption` | 2 to 15 taps | with one tap nothing is shifted; `data_n` and `data_validNum` have four bits (lab 4 `fir.v:89`, `91`); the source has 11 |
| `HostAssumption` | a run has at least as many samples as there are taps, its length fits its register; one run or more | the program sends 64 samples to 11 taps |
| `BusAssumption` | a line divides the memory; the time-out exceeds the delay by two | 8 words, 10^6 and 10 in the source |
| `FitAssumption` | the words used fit into the RAM | the RAM takes addresses modulo its size (section 5) |
| `TablesMeet` | where a field is stored, both tables of `CsrMap` mean the same bits; the same registers are pending ones in both, and a field of one that has a single event is that event | closed formula; TLC evaluates it over all banks |
| `BufferAssumption`, `WidthsAssumption` | sizes are positive; of the width of a register and that of an element one divides the other | both are powers of two: `CSR_DW_BYTES`, and `sizeof` of `uint8_t` to `uint64_t` |
| `TimerAssumption` | a half has more than one value, periods are positive | |
| `ArraysAssumption`, `FactorsAssumption`, `FiltersAssumption` | arrays of integers indexed from 0; square matrices of one size; a sample for each tap | `size_t` indices; the sources' `SIZE` and `N` |
| `RunAssumption` | 2 to 15 taps, 1 to 1023 samples, a sample at most `6 * Tape_Num + 1` cycles late | `data_n` and `data_validNum` of lab 3's filter have four bits (`fir.v:81`, `83`), its length ten; at 68 for 11 taps a sample is used twice (section 4) |
| `ExcAssumption` | registers have a digit or more and fit into their digits | 8 digits of 32 bits |

| theorem | property |
|---|---|
| `UartProofs!TypeCorrect`, `NoOverrun`, `ReceiveHandshake`, `AnnouncedLoaded`, `FrameErrRecorded`, `SentByteStable` | `TypeOK`, `OverrunUnreachable`, `ParkedIsReadable`, `AnnouncedIsLoaded`, `FrameErrIsRecorded`, `SentByteIsStable` |
| `UartProofs!DriverIsMaster`, `WritesAreSent` | the driver is one of the masters of `Uart`; `NoWriteLost` |
| `UartEchoProofs!AccessesFindHardwareReady`, `InterruptsAreSingle`, `EchoImplementsChannel` | `AccessesLand`, `OneInterruptPerByte`, the safety half of `EchoesFaithfully` |
| `FirProofs!Answered`, `ByteCounterAligned`, `AcksAreFresh`, `SumsAreComplete` | `AnsweredInTime`, `ByteCounterIsAligned`, `NoStaleAck`, `SumIsComplete` |
| `FirProofs!OutputsFindResults`, `LengthsAddUp`, `TapsSettled`, `HostImplementsFilter` | `OutputFindsResult`, `LengthAddsUp`, `TapsAreSettled`, the safety half of `FiltersFaithfully` |
| `SocBusProofs!DecoderHasNoGhosts`, `AnswersReachTheirMaster`, `MemoryAnswersInTime`, `MemoryIsMemory` | `NoGhostRequest`, `AnswersAreOwn`, `MemoryIsInTime`, `ReadsSeeLastWrite` |
| `CsrProofs!EventsAreKept`, `AccessorsImplementFields`, `AccessorsAgreed` | `EventsSurvive`, `FieldsAreIndependent`, `AccessorsAgree` |
| `SysTimerProofs!ReadsAreCurrent`, `ComparatorNeverEarly`, `ElapsedNeverAhead`, `ResetCountersSmall` | `ReadIsCurrent`, `ComparatorIsNeverEarly`, `ElapsedIsNeverAhead`, `ResetCounterIsSmall` |
| `SysTimerProofs!ReportFaithful` | no run's: `ReportIsFaithful`, the report spells the registers |
| `WorkloadProofs!SortInBounds`, `PartsSplit`, `SortSorts` | `SortStaysInBounds`, `PartsStaySplit`, and: the array is in order when `main` shows it |
| `WorkloadProofs!ResultsRight`, `BenchKeepsUp`, `Lab3Passes` | `ResultsAreRight`, `ProcessesKeepStep`, `TestbenchPasses` |
| `PadsProofs!ConfiguredAtOnce`, `PinsAtOnce` | `ConfiguredTogether`, `PinsChangeAtOnce` |

Each property follows from an inductive invariant that has a theorem of its own. It is
called `IInv` where a module needs one only; beside it there are `WriteInv` (driver), `EchoInv`
(loopback), `Flow` (filter under any accesses), `HostInv` (filter under its program), `MInv`
(memory), `FieldInv`, `EventInv` and `BufferInv` (accessors), `ResultInv` (results of the workloads), `StepInv` (processes of a testbench), `Lab3Inv`
(lab 3), `PadsInv` and `ExcInv` (report). TLC has checked each on small instances. Most
have the form of *phases*: a disjunction that says, for each stretch of the work, where
every part of the system is. The proof that a step keeps one has a lemma for each phase,
which names the phases that may follow.

* **UART.** None of the properties is inductive by itself. `Handshake` is: a received byte
  is announced (`irq`), held (`rx_full`) or released (`o_rx_finish`), exactly one of them
  while the receiver is parked, and the release that follows a framing error is over
  before the next byte. `Counters` bounds the bit counters per state, which is what the
  types need; `Transmission` says that the transmitter is busy from the second cycle of the
  start bit, which is what keeps the buffer closed.
* **Polling driver.** A write goes through eight phases (`Quiet`, `Taken`, `Requested`, `Detected`,
  `Starting`, `Sending`, `Finished`, `Cleared`), of which all but the first and `Sending` last a
  cycle. In the three between `Requested` and `Starting` the status still says free; `gap` counts
  them, and `ToldToWait` is what a status read later says. This is where `MinGap >= 3` is needed.
* **Loopback.** A byte is in one of four stages: the peer rests, sends, is served by the routine,
  gets its echo. Two receivers sample lines whose frames began at moments they do not
  know, and what they have seen is a matter of counting. `Follows(n)`: the receiver waits for bit
  `n`, and its counter and the phase of the peer's clock differ by half a bit, so the line shows bit
  `n` or, when half a bit reaches past a tick, `n + 1`. `Seen(n)`: how many bits the peer has
  sampled when the transmitter is at bit `n`, which depends on which counter is ahead, as the
  line follows the state machine by a cycle. `TxEnds` is the reason a patient peer is needed: it
  has its echo half-way through the stop bit, while the transmitter needs some cycles more to
  forget the request, and they are over before the peer's next start bit.
* **Filter of lab 4.** The answer to an access goes through a chain of registers none of which
  looks at whether the access is still there. `IInv` relates them to the age of the access:
  `Writing`, `Reading` and `Streaming` say which strobes are up at which age and what may be
  left of an access that is over. `Flow` adds what the filter does meanwhile (`NoSample`, `InShift`,
  `HasWindow`, `InSum`, `HasOutput`), with the number of products in the sum.
* **Program of the filter.** The same five phases (`Resting`, `Shifting`, `Loaded`, `Computing`,
  `Waiting`), now with the contents. `Held` is the sample in each
  place of the RAM (`Source`: the newest first, and for places not yet filled what the run before
  left there), `Moved` the same while the window is shifted byte lane by byte lane.
  `Statuses` says why polls that return the status before the last are harmless: what a poll
  returns was true at an earlier moment, and what it is asked for stays true once it is.
  `Lengths` adds up length and outputs; `Accepted` ties the sample on the stream to the count of
  samples. `HostImplementsFilter` is the refinement of `FirFilter` without its fairness.
* **Filter of lab 3.** Four blocks share the port of the taps and two the port of the samples, and at
  every edge all blocks move. `Lab3Inv` follows two things that run side by side. `Access`: the
  AXI-lite channels are in one phase of one access, and `TapsWritten`, `TapsRead` and `StatusRead`
  say what has come of that access (which lanes of a coefficient are written, what the RAM
  shows, what a status may say). `Filtering`: the run rests, starts, shifts, sums or is over, and in
  each phase every place of the RAM of samples holds the sample that is wanted, or the one before
  (`Holds`, `Held`). The two meet at the port of the taps: coefficients are written while the
  run rests, and `Summing` says that the computation has the address and the enable for as long as it
  needs them, also when a read of the status ends. `InTime` counts a late sample against the cycles of the
  shift; it is where the bound on `MaxLate` is needed. `accepted = outputs` is part of the types:
  samples are accepted and outputs shown in the same cycles.
* **Bus.** The key lemma is `SideIsKept`: a request on the bus in one cycle leaves the same
  side addressed in the next, because the grant does not move and an acknowledged master
  still shows its address for a cycle. Latches and answers, each a cycle old, are therefore
  on the right side. `MemoryIsInTime` is inductive with the ranges of the two counters. The
  proofs hold for both wrappers: with muxes nothing is held and the delay is zero.
* **Memory.** `Addressed`: the address the RAM looks at is that of the access it is to answer.
  `RamHolds`: the RAM and the history variable agree, except that the RAM may be ahead of the
  history in the one word being written, until that write has ended. `AnswerIsRead`: the data
  on its way to a master is what the word held when it was read.
* **Accessors.** `CallIsCurrent`: between the read and the write of a field the register does not
  change (a restart of the processor ends the call). `ClearIsOld`: the word on its way to a pending
  register clears nothing that has happened since it was read, other than what `swept` holds; where a
  register has one event, a call has no neighbour to sweep (`NoNeighbours`, `Alone`). With these, a step on the registers is
  a step on the fields because of `TablesMeet`: fields do not overlap, and a field with room in the
  core lies where the firmware puts it.
* **Accessors of wide CSRs.** A subregister, an element, and what an element holds after any number
  of subregisters are each a stretch of the bytes of one number (`Bits`), so that loops that cut
  and join are about stretches that meet (`BitsJoin`) or lie inside each other (`BitsInside`).
  `BufferInv` says which stretch each one is (`WordOf`, `Elem`, `SoFar`); the two layouts, slices
  of an element or several elements in a subregister, are `WholeLayout` and `PackLayout`. What is
  padded lies beyond the number and is zero (`BitsOutside`).
* **Timer.** A pair of halves is between two steps no time at all, so the invariants say, for
  each step of a call, which half is already right. `TimesRead`: there is a high half `q` for
  which the low half read was right, and finding the first high half read again means it is
  that one. `LowIsRaised`: once the low half of the comparator is all ones it is above either
  time whatever the high half. `LowIsCleared`: between the two passes of `pcount_reset` at most
  the ticks since then can have carried. `Periods` (`Enabling`, `Handling`): between handling
  and counting a period, the comparator is a period ahead of what is counted. `HandlerRuns`:
  the handler does not interrupt itself. Products of two variables are handled by three
  lemmas of arithmetic (`Halves`, `Scale`, `Later`).
* **Sorting.** `Stack` says of every frame where its part lies in the part of its caller, that
  it is split at its pivot, and that the left part is sorted once the call for the right
  part is made; `TopReturned`, that a frame about to return has its whole part in order.
  `SwapKeepsSplit` is why a swap inside a part disturbs no pivot outside it, `JoinSorted` why
  two sorted parts around a pivot are a sorted whole. The depth bound follows from parts
  that shrink.
* **Results of the workloads.** `Sorted` gives each place the value that has its rank, that is, at most
  so many elements below it (`Below`) and more than so many up to it (`UpTo`). A swap changes the
  set of places that hold a small value one to one (`SwapIsBijection`), so ranks stay what they were, and
  an array in order with the ranks of the given array is the sorted one (`SortedByRank`). For `matmul` and the
  filters, `ResultInv` says which elements are already what the definition says (`MatrixResult`,
  `FilterResult`) and where each sample is while the buffer is moved up. `Sum` is a recursive
  definition; that it adds one element more for each step is proved by induction, see below.
* **Keeping step.** A step of `main` moves `ShownTo` of one process by at most one value, and that
  value is then on the pins (`ShownIs`, `MainMoves`); `main` moves only when no process can, so a
  process that was a value behind has caught up. That none is ahead needs `Unheard`: a process
  whose workload has not begun has nothing on the pins it waits for. `StepInv` joins the two.
* **Pads.** The argument follows the modes from the program to the pads. Every program names each
  of its pads once (`IsList`), so a register that is written byte by byte ends with its mode
  (`RegisterInv`); the transfer is asked for after the last mode, so the loader fetches what is
  wanted (`Configured`). While it sends word c of each chain, a pad that the words have reached
  exchanges one word for the next, bit by bit, and gives the bits it loses to its neighbour half
  a serial clock later (`Contents`, `HeldOut`): the word of every pad is that of the pad further in,
  one word ago (`NextWord`), so that with the last word each holds its own. For the pins, `DataInv`
  says that the bytes of a word wait in `mgmt_gpio_data_buf` and go out with the last one.
* **Report.** `ExcInv`: what has been written is the beginning of one fixed sequence of items, and what
  `puthex` has left after n digits is the register without its first n digits, shifted up by n
  (`Left`). A digit shown is read back as itself, and Horner's rule puts the register together again
  (`NumberIs`). Division by a power of 16 that is not a fixed number is beyond the solver; `Division`,
  `OneQuotient` and `PlaceProduct` are all that is used of it.

The library's induction theorems take a predicate as a parameter and cannot be used. `Induction` of
`WorkloadProofs`, `SysTimerProofs` and `CsrProofs` takes a set of numbers in its place; it follows
from the well-foundedness of the order of the natural numbers (`Least`), and is how recursive
functions (`Sum`, `Place`, `Span`, the value of a sequence of digits) are reasoned about for every
size.

### What is only model-checked

* Liveness, which is out of the proof system's reach: `WrittenIsSent`, `EveryRequestIsAnswered`,
  `BenchFinishes`, `SetupEnds`, and the liveness halves of `EchoesFaithfully` and
  `FiltersFaithfully` (that an echo, or an output, does come).

Every invariant and every action property of the passing runs has a theorem.

## 12. What is not modelled, and why

* *Drift of the testbench's clock.* Its tick is 104166 ns, a bit of the UART 104150 ns (4166
  cycles of 25 ns): 160 ns over a frame, under two thousandths of a bit. All phases are
  checked, at equal rates. `tbuart` does not centre its sampling point on the start bit; that is
  modelled by the phase. A false start bit shorter than half a bit is not rejected by `uart_rx.v`
  either; it yields a byte or a framing error like any other frame of an arbitrary line.
* *Recurring reset, power pins.* They happen before the traffic that the properties are about.
  Lab 3's testbench has a loop for further runs after a reset, which it does not use.
* *Abandoned accesses to the filter.* The debug bridge may drop one half-way; a write then
  goes on in the bridge and is acknowledged later. `SocBus` lets it abandon accesses to
  the memory only, and `FirOpen` lets the bus end only what the filter never answers.
* *Addresses between the slaves.* A burst that crosses the end of 0x3800_xxxx would change side
  in the cycle after an acknowledgement. In lab 6 the memory decodes twelve bits of the address
  and the wrapper sixteen, so that 0x3801_xxxx to 0x380f_xxxx are written but never answered.
  The memory of lab 4's software filter decodes no address at all and has no neighbour.
* *The management core's own UART and SPI master*, beyond their registers in `CsrMap`: the UART's
  FIFO, which any acknowledgement of its event pops, and the shift register.
* *User interrupt 1* (a change of the logic analyzer's outputs) and the interrupt controller
  inside the CPU.
* *The values of hardware sums.* 32-bit wrap-around commutes with the order of additions, and
  which products are added is what the state machines decide.
* *Housekeeping SPI, the rest of the housekeeping, the wiring of the pads.* Third-party harness
  used unchanged, and inactive in the programs; the parts the programs use are in `Pads`.
* *The generated CPU, start-up assembly, linker scripts, vendors' models of flash and RAM.*
  They come from outside this repository or run before anything the properties are about;
  the modules meet the CPU at its bus and interrupt interfaces.

## 13. Plan

Done, in this order because it is the order of importance: UART with its handshake and
proofs; loopback and driver; filter of lab 4 with its program and under any accesses,
proofs; bus with both wrappers and memory, proofs; CSR accessors; timer, counters, report,
proofs; workloads with their testbenches, sorting proved; pads; filter of lab 3. Then the
proofs about composed systems: driver, loopback, program of the filter, memory, accessors; and
those about data: results of the workloads, report, pads, lab 3's filter under its testbench.

Next:

1. The composition of `SocBus` with `FirBridge`, with accesses to the filter that the debug bridge
   abandons.
2. Lab 3's filter against any AXI master, with the stalls of section 4 stated as properties of
   the protocol.
3. The housekeeping SPI as a state machine with its two clock edges.

-------------------------------- MODULE CsrMap ----------------------------
(***************************************************************************)
(* The control and status registers of the management core, twice: as      *)
(* the firmware addresses them (csr.h and, for the logic analyser, defs.h) *)
(* and as mgmt_core.v decodes them.  Neither table is derived from the     *)
(* other: that they meet is checked in Csr.                                *)
(***************************************************************************)
EXTENDS Integers, Sequences

-----------------------------------------------------------------------------
(* The firmware's view.  A bank has a base address and its registers follow *)
(* each other, four bytes apart.  A field is its offset and its size; a     *)
(* register without named fields is used as one word.                       *)

Word == [word |-> <<0, 32>>]
Register(name, fields) == [name |-> name, writable |-> TRUE, fields |-> fields]
ReadOnly(name, fields) == [name |-> name, writable |-> FALSE, fields |-> fields]
Words(names) == [i \in DOMAIN names |-> Register(names[i], Word)]

ctrl == [base |-> 0, regs |-> <<
  Register("reset", [soc_rst |-> <<0, 1>>, cpu_rst |-> <<1, 1>>]),
  Register("scratch", Word), ReadOnly("bus_errors", Word)>>]

debug_mode == [base |-> 2048, regs |-> Words(<<"out">>)]
debug_oeb == [base |-> 4096, regs |-> Words(<<"out">>)]

flash_core == [base |-> 6144, regs |-> Words(<<"mmap_dummy_bits", "master_cs">>) \o <<
  Register("master_phyconfig", [len |-> <<0, 8>>, width |-> <<8, 4>>, mask |-> <<16, 8>>]),
  Register("master_rxtx", Word),
  ReadOnly("master_status", [tx_ready |-> <<0, 1>>, rx_ready |-> <<1, 1>>])>>]

flash_phy == [base |-> 8192, regs |-> Words(<<"clk_divisor">>)]

gpio == [base |-> 10240, regs |-> Words(<<"mode1", "mode0", "ien", "oe">>) \o <<
  ReadOnly("in", Word), Register("out", Word)>>]

\* csr.h has the addresses of the logic analyser only; defs.h names its words.
la == [base |-> 12288, regs |->
  Words(<<"la3_iena", "la2_iena", "la1_iena", "la0_iena">>)
  \o Words(<<"la3_oenb", "la2_oenb", "la1_oenb", "la0_oenb">>)
  \o <<ReadOnly("la3_data_in", Word), ReadOnly("la2_data_in", Word),
       ReadOnly("la1_data_in", Word), ReadOnly("la0_data_in", Word)>>
  \o Words(<<"la3_data", "la2_data", "la1_data", "la0_data">>)]

mprj_wb_iena == [base |-> 14336, regs |-> Words(<<"out">>)]
spi_enabled == [base |-> 16384, regs |-> Words(<<"out">>)]

spi_master == [base |-> 18432, regs |-> <<
  Register("control", [start |-> <<0, 1>>, length |-> <<8, 8>>]),
  ReadOnly("status", [done |-> <<0, 1>>]),
  Register("mosi", Word), ReadOnly("miso", Word),
  Register("cs", [sel |-> <<0, 1>>, mode |-> <<16, 1>>]),
  Register("loopback", [mode |-> <<0, 1>>]), Register("clk_divider", Word)>>]

\* The registers of an event manager: level, pending and enable.
Event(fields) == <<ReadOnly("ev_status", fields), Register("ev_pending", fields),
                   Register("ev_enable", fields)>>

timer0 == [base |-> 20480, regs |-> Words(<<"load", "reload", "en", "update_value">>)
  \o <<ReadOnly("value", Word)>> \o Event([zero |-> <<0, 1>>])]

uart == [base |-> 22528, regs |->
  <<Register("rxtx", Word), ReadOnly("txfull", Word), ReadOnly("rxempty", Word)>>
  \o Event([tx |-> <<0, 1>>, rx |-> <<1, 1>>])
  \o <<ReadOnly("txempty", Word), ReadOnly("rxfull", Word)>>]

uart_enabled == [base |-> 24576, regs |-> Words(<<"out">>)]

GpioIn == <<ReadOnly("in", Word), Register("mode", Word), Register("edge", Word)>>
          \o Event([i0 |-> <<0, 1>>])
user_irq_0 == [base |-> 26624, regs |-> GpioIn]
user_irq_1 == [base |-> 28672, regs |-> GpioIn]
user_irq_2 == [base |-> 30720, regs |-> GpioIn]
user_irq_3 == [base |-> 32768, regs |-> GpioIn]
user_irq_4 == [base |-> 34816, regs |-> GpioIn]
user_irq_5 == [base |-> 36864, regs |-> GpioIn]
user_irq_ena == [base |-> 38912, regs |-> Words(<<"out">>)]

Software == <<ctrl, debug_mode, debug_oeb, flash_core, flash_phy, gpio, la,
  mprj_wb_iena, spi_enabled, spi_master, timer0, uart, uart_enabled, user_irq_0,
  user_irq_1, user_irq_2, user_irq_3, user_irq_4, user_irq_5, user_irq_ena>>

-----------------------------------------------------------------------------
(* The hardware's view: csrbank<n> of mgmt_core.v is Hardware[n + 1], word k  *)
(* of it the entry k + 1.  A register stores what is written ("stored"), is   *)
(* the pending register of an event manager, the level of its triggers, or    *)
(* neither keeps nor shows what was written ("port").  "uses" gives the bits  *)
(* the core takes out of a stored register under each name.                   *)

Hw(name, width, kind, uses) == [name |-> name, width |-> width, kind |-> kind, uses |-> uses]
Stored(name, width) == Hw(name, width, "stored", [word |-> <<0, width - 1>>])
Port(name) == Hw(name, 32, "port", [word |-> <<0, 31>>])
EventManager(width) == <<Hw("ev_status", width, "level", <<>>),
  Hw("ev_pending", width, "pending", <<>>)>>
GpioInHw == <<Port("in"), Stored("mode", 1), Stored("edge", 1)>> \o EventManager(1)
            \o <<Hw("ev_enable", 1, "stored", [i0 |-> <<0, 0>>])>>

Hardware == <<
  <<Hw("reset", 2, "stored", [soc_rst |-> <<0, 0>>, cpu_rst |-> <<1, 1>>]),
    Stored("scratch", 32), Port("bus_errors")>>,
  <<Stored("out", 1)>>,
  <<Stored("out", 1)>>,
  <<Stored("mmap_dummy_bits", 8), Stored("master_cs", 1),
    Hw("master_phyconfig", 24, "stored",
       [len |-> <<0, 7>>, width |-> <<8, 11>>, mask |-> <<16, 23>>]),
    Port("master_rxtx"), Port("master_status")>>,
  <<Stored("clk_divisor", 8)>>,
  <<Stored("mode1", 1), Stored("mode0", 1), Stored("ien", 1), Stored("oe", 1),
    Port("in"), Stored("out", 1)>>,
  <<Stored("la3_iena", 32), Stored("la2_iena", 32), Stored("la1_iena", 32),
    Stored("la0_iena", 32), Stored("la3_oenb", 32), Stored("la2_oenb", 32),
    Stored("la1_oenb", 32), Stored("la0_oenb", 32),
    Port("la3_data_in"), Port("la2_data_in"), Port("la1_data_in"), Port("la0_data_in"),
    Stored("la3_data", 32), Stored("la2_data", 32), Stored("la1_data", 32),
    Stored("la0_data", 32)>>,
  <<Stored("out", 1)>>,
  <<Stored("out", 1)>>,
  <<Hw("control", 16, "stored", [start |-> <<0, 0>>, length |-> <<8, 15>>]), Port("status"),
    Stored("mosi", 8), Port("miso"),
    Hw("cs", 17, "stored", [sel |-> <<0, 0>>, mode |-> <<16, 16>>]),
    Hw("loopback", 1, "stored", [mode |-> <<0, 0>>]), Stored("clk_divider", 16)>>,
  <<Stored("load", 32), Stored("reload", 32), Stored("en", 1), Stored("update_value", 1),
    Port("value")>> \o EventManager(1) \o <<Hw("ev_enable", 1, "stored", [zero |-> <<0, 0>>])>>,
  <<Port("rxtx"), Port("txfull"), Port("rxempty")>> \o EventManager(2)
    \o <<Hw("ev_enable", 2, "stored", [tx |-> <<0, 0>>, rx |-> <<1, 1>>]),
         Port("txempty"), Port("rxfull")>>,
  <<Stored("out", 1)>>,
  GpioInHw, GpioInHw, GpioInHw, GpioInHw, GpioInHw, GpioInHw,
  <<Stored("out", 3)>> >>
=============================================================================

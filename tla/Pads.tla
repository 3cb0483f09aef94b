--------------------------------- MODULE Pads -----------------------------
(***************************************************************************)
(* The pads' configuration: the registers of housekeeping.v, which the     *)
(* processor reaches through a back door, byte by byte; the serial loader, *)
(* which shifts the configuration into the control blocks of the pads,     *)
(* along two chains at once; the blocks; and a main program that sets the  *)
(* pads up.                                                                *)
(*                                                                         *)
(* Clock is one cycle of the system clock: back door and loader move       *)
(* together.  Issue is the processor's next access; it comes whenever the  *)
(* program gets there.  (The SPI of the housekeeping is not used, and bit  *)
(* banging is off.)                                                        *)
(***************************************************************************)
EXTENDS Integers, Sequences

-----------------------------------------------------------------------------
(* What the main programs do first: they write the mode of every pad they  *)
(* use, start the transfer of the modes to the pads, wait for it to end,   *)
(* and then drive the check bits.  Each program is a sequence of accesses  *)
(* to the registers of caravel.h; an address stands for its lower byte.    *)

\* caravel.h: the registers.
reg_mprj_xfer == 0
reg_mprj_datal == 12
reg_mprj_io(pad) == 36 + 4 * pad

\* caravel.h: the modes the programs use.
GPIO_MODE_MGMT_STD_OUTPUT == \h1809
GPIO_MODE_USER_STD_INPUT_NOPULL == \h0402
GPIO_MODE_USER_STD_OUTPUT == \h1808

Programs == {"integrate", "uart", "mm", "qs", "fir", "exmem", "caravel_fir"}

\* The modes each program writes, in its order: <<pad, mode>>.
Down(from, to, mode) == [k \in 1 .. from - to + 1 |-> <<from - k + 1, mode>>]
Checkbits == Down(31, 16, GPIO_MODE_MGMT_STD_OUTPUT)

IntegrateModes ==
  Checkbits \o Down(15, 7, GPIO_MODE_MGMT_STD_OUTPUT)
            \o Down(4, 0, GPIO_MODE_MGMT_STD_OUTPUT)
            \o <<<<6, GPIO_MODE_USER_STD_OUTPUT>>, <<5, GPIO_MODE_USER_STD_INPUT_NOPULL>>>>
UartModes == IntegrateModes
MmModes ==
  Checkbits \o Down(15, 7, GPIO_MODE_USER_STD_OUTPUT)
            \o Down(5, 0, GPIO_MODE_USER_STD_OUTPUT)
            \o <<<<6, GPIO_MODE_MGMT_STD_OUTPUT>>>>
QsModes == MmModes
FirModes == MmModes
ExmemModes == MmModes
CaravelFirModes == MmModes

Modes(program) == CASE program = "integrate" -> IntegrateModes
                    [] program = "uart" -> UartModes
                    [] program = "mm" -> MmModes
                    [] program = "qs" -> QsModes
                    [] program = "fir" -> FirModes
                    [] program = "exmem" -> ExmemModes
                    [] program = "caravel_fir" -> CaravelFirModes

\* The first and last words for the check bits; a result stands for all.
Words(program, result) ==
  CASE program = "integrate" -> <<\hAB00, \hAB11, result, \hAB19>>
    [] program = "uart" -> <<\hAB40, \hAB51>>
    [] program = "caravel_fir" -> <<\h00A5, (result % 256) * 256 + \h5A>>
    [] OTHER -> <<\hAB40, result, \hAB51>>

\* A word as the four bytes of a write, the lowest first.
Upper(halfword) == <<0, 0, halfword % 256, halfword \div 256>>
Lower(halfword) == <<halfword % 256, halfword \div 256, 0, 0>>

Write(adr, bytes) == [we |-> TRUE, adr |-> adr, bytes |-> bytes]
Read(adr) == [we |-> FALSE, adr |-> adr, bytes |-> <<0, 0, 0, 0>>]

\* The accesses of a program, in order; a read is repeated while it finds one.
Accesses(program, result) ==
  [k \in 1 .. Len(Modes(program)) |->
     Write(reg_mprj_io(Modes(program)[k][1]), Lower(Modes(program)[k][2]))]
  \o <<Write(reg_mprj_xfer, Lower(1)), Read(reg_mprj_xfer)>>
  \o [k \in 1 .. Len(Words(program, result)) |->
        Write(reg_mprj_datal, Upper(Words(program, result)[k]))]

-----------------------------------------------------------------------------
(* The pads and the way to them. *)

CONSTANTS Results      \* what a program shows between its flags

Chain == 19            \* MPRJ_IO_PADS_1 and MPRJ_IO_PADS_2
Bits == 13             \* IO_CTRL_BITS
AllPads == 0 .. 2 * Chain - 1

VARIABLES program, accesses,
          next,                 \* the access the program makes next
          bus,                  \* the access under way, or Idle
          wbbd_state,           \* IDLE, SETUP, RW or DONE, and of which byte
          wb_dat_o,
          gpio_configure, serial_xfer,
          mgmt_gpio_data, mgmt_gpio_data_buf,
          xfer_state, xfer_count, pad_count,
          serial_clock, serial_load, serial_busy,
          staging,              \* serial_data_staging_1 and _2
          shift_register, serial_data_out, control   \* the blocks

mainVars == <<program, accesses, next>>
backDoorVars == <<bus, wbbd_state, wb_dat_o>>
registerVars == <<gpio_configure, serial_xfer, mgmt_gpio_data, mgmt_gpio_data_buf>>
loaderVars == <<xfer_state, xfer_count, pad_count, serial_clock, serial_load,
                serial_busy, staging>>
blockVars == <<shift_register, serial_data_out, control>>
vars == <<mainVars, backDoorVars, registerVars, loaderVars, blockVars>>

NoAccess == [we |-> FALSE, adr |-> -1, bytes |-> <<0, 0, 0, 0>>]

Top(v) == v \div 2 ^ (Bits - 1)
ShiftIn(v, bit) == (2 * v + bit) % 2 ^ Bits

-----------------------------------------------------------------------------
(* The registers. *)

\* The register behind a byte of the GPIO page.
spiaddr(adr) ==
  CASE adr = 0 -> \h13
    [] adr \in 12 .. 15 -> \h6d - (adr - 12)
    [] adr \in \h24 .. \hb8 /\ adr % 4 = 0 -> \h1e + (adr - \h24) \div 2
    [] adr \in \h25 .. \hb9 /\ adr % 4 = 1 -> \h1d + (adr - \h25) \div 2
    [] OTHER -> 0

\* What is read there (no program reads another than the transfer's).
fdata(a) ==
  IF a = \h13 THEN 64 * Top(staging[2]) + 32 * Top(staging[1]) + (IF serial_busy THEN 1 ELSE 0)
              ELSE 0

\* A register is written.
WriteConfigure(a, byte) ==
  /\ a \in \h1d .. \h68
  /\ LET pad == (a - \h1d) \div 2 old == gpio_configure[pad] IN
     gpio_configure' = [gpio_configure EXCEPT ![pad] =
       IF a % 2 = 1 THEN (byte % 32) * 256 + (old % 256)
                    ELSE (old \div 256) * 256 + byte]
  /\ UNCHANGED <<serial_xfer, mgmt_gpio_data, mgmt_gpio_data_buf>>

\* Mutation: each byte goes to the pins at once.
WriteDataThrough(a, byte) ==
  /\ a \in \h6a .. \h6d
  /\ mgmt_gpio_data' = [mgmt_gpio_data EXCEPT ![\h6d - a + 1] = byte]
  /\ UNCHANGED <<gpio_configure, serial_xfer, mgmt_gpio_data_buf>>

\* The lower bytes wait for the highest.
WriteData(a, byte) ==
  /\ a \in \h6a .. \h6d
  /\ IF a = \h6a
     THEN mgmt_gpio_data' = mgmt_gpio_data_buf \o <<byte>> /\ UNCHANGED mgmt_gpio_data_buf
     ELSE /\ mgmt_gpio_data_buf' = [mgmt_gpio_data_buf EXCEPT ![\h6d - a + 1] = byte]
          /\ UNCHANGED mgmt_gpio_data
  /\ UNCHANGED <<gpio_configure, serial_xfer>>

WriteTransfer(a, byte) ==
  /\ a = \h13
  /\ serial_xfer' = (byte % 2 = 1)
  /\ UNCHANGED <<gpio_configure, mgmt_gpio_data, mgmt_gpio_data_buf>>

\* Mutation: the transfer is asked for until zero is written.
ReadRegisterOnly == UNCHANGED registerVars

\* An access that writes nothing takes back the request of a transfer.
ReadRegister ==
  /\ serial_xfer' = FALSE
  /\ UNCHANGED <<gpio_configure, mgmt_gpio_data, mgmt_gpio_data_buf>>

-----------------------------------------------------------------------------
(* The back door: four bytes, each set up and then read or written. *)

BackDoorIdle ==
  /\ wbbd_state.s = "IDLE"
  /\ wbbd_state' = IF bus = NoAccess THEN wbbd_state ELSE [s |-> "SETUP", byte |-> 0]
  /\ UNCHANGED <<mainVars, bus, wb_dat_o, registerVars>>

BackDoorSetup ==
  /\ wbbd_state.s = "SETUP"
  /\ wbbd_state' = [wbbd_state EXCEPT !.s = "RW"]
  /\ UNCHANGED <<mainVars, bus, wb_dat_o, registerVars>>

BackDoorReadWrite ==
  /\ wbbd_state.s = "RW"
  /\ LET k == wbbd_state.byte
         a == spiaddr(bus.adr + k)
         byte == bus.bytes[k + 1] IN
     /\ wb_dat_o' = [wb_dat_o EXCEPT ![k + 1] = fdata(a)]
     /\ wbbd_state' = IF k = 3 THEN [s |-> "DONE", byte |-> 0]
                               ELSE [s |-> "SETUP", byte |-> k + 1]
     /\ \/ bus.we /\ (WriteConfigure(a, byte) \/ WriteData(a, byte) \/ WriteTransfer(a, byte))
        \/ bus.we /\ a = 0 /\ UNCHANGED registerVars
        \/ ~bus.we /\ ReadRegister
  /\ UNCHANGED <<mainVars, bus>>

\* The access is acknowledged; the program goes on, or polls again.
BackDoorDone ==
  /\ wbbd_state.s = "DONE"
  /\ wbbd_state' = [s |-> "IDLE", byte |-> 0]
  /\ next' = IF ~bus.we /\ wb_dat_o = <<1, 0, 0, 0>> THEN next ELSE next + 1
  /\ bus' = NoAccess
  /\ wb_dat_o' = <<0, 0, 0, 0>>
  /\ UNCHANGED <<program, accesses, registerVars>>

-----------------------------------------------------------------------------
(* The loader and the blocks.  On a rising edge of serial_clock every      *)
(* block shifts in the bit its neighbour holds out, on a falling edge it   *)
(* holds out its highest bit.  The loader feeds the first pad of chain 1   *)
(* and the last pad of chain 2.                                            *)

Feeder(pad) == IF pad < Chain THEN pad - 1 ELSE pad + 1

SerialIn(pad) == IF Feeder(pad) \in AllPads THEN serial_data_out[Feeder(pad)]
                 ELSE Top(staging[IF pad < Chain THEN 1 ELSE 2])

Rise == /\ serial_clock' = TRUE
        /\ shift_register' = [pad \in AllPads |-> ShiftIn(shift_register[pad], SerialIn(pad))]
        /\ UNCHANGED <<serial_data_out, control>>
Fall == /\ serial_clock' = FALSE
        /\ serial_data_out' = IF serial_clock THEN [pad \in AllPads |-> Top(shift_register[pad])]
                              ELSE serial_data_out
        /\ UNCHANGED <<shift_register, control>>

LoaderIdle ==
  /\ xfer_state = "IDLE"
  /\ pad_count' = <<Chain - 1, Chain>>
  /\ serial_load' = FALSE
  /\ serial_busy' = serial_xfer
  /\ xfer_state' = IF serial_xfer THEN "START" ELSE "IDLE"
  /\ Fall
  /\ UNCHANGED <<xfer_count, staging>>

LoaderStart ==
  /\ xfer_state = "START"
  /\ serial_load' = FALSE
  /\ xfer_count' = 0
  /\ staging' = <<gpio_configure[pad_count[1]], gpio_configure[pad_count[2]]>>
  /\ pad_count' = <<pad_count[1] - 1, pad_count[2] + 1>>
  /\ xfer_state' = "XBYTE"
  /\ Fall
  /\ UNCHANGED serial_busy

\* Mutation: a bit less is sent.
LastBitEarly == Bits - 2

LastBit == Bits - 1

LoaderByte ==
  /\ xfer_state = "XBYTE"
  /\ serial_load' = FALSE
  /\ IF serial_clock
     THEN /\ staging' = [c \in 1 .. 2 |-> ShiftIn(staging[c], 0)]
          /\ Fall
          /\ UNCHANGED <<xfer_count, xfer_state>>
     ELSE /\ xfer_count' = IF xfer_count = LastBit THEN 0 ELSE xfer_count + 1
          /\ xfer_state' = IF xfer_count < LastBit THEN "XBYTE"
                           ELSE IF pad_count[2] = 2 * Chain THEN "LOAD" ELSE "START"
          /\ Rise
          /\ UNCHANGED staging
  /\ UNCHANGED <<pad_count, serial_busy>>

\* The last bit is held out; then the blocks take what they hold.
LoaderLoad ==
  /\ xfer_state = "LOAD"
  /\ xfer_count' = xfer_count + 1
  /\ serial_clock' = FALSE
  /\ serial_data_out' = IF serial_clock THEN [pad \in AllPads |-> Top(shift_register[pad])]
                        ELSE serial_data_out
  /\ serial_load' = (xfer_count = 1)
  /\ control' = IF xfer_count = 1 THEN shift_register ELSE control
  /\ serial_busy' = (xfer_count < 2)
  /\ xfer_state' = IF xfer_count = 2 THEN "IDLE" ELSE "LOAD"
  /\ UNCHANGED <<pad_count, staging, shift_register>>

-----------------------------------------------------------------------------
Issue ==
  /\ bus = NoAccess /\ next <= Len(accesses)
  /\ bus' = accesses[next]
  /\ UNCHANGED <<mainVars, wbbd_state, wb_dat_o, registerVars, loaderVars, blockVars>>

Clock ==
  /\ BackDoorIdle \/ BackDoorSetup \/ BackDoorReadWrite \/ BackDoorDone
  /\ LoaderIdle \/ LoaderStart \/ LoaderByte \/ LoaderLoad

\* The configuration after reset; the blocks have defaults of their own,
\* which stand here for whatever a pad was before it was configured.
ResetMode(pad) == IF pad \in {0, 1, 2 * Chain - 2, 2 * Chain - 1} THEN \h1803
                  ELSE IF pad = 3 THEN \h0801 ELSE \h0403
OwnDefault == -1

Init ==
  /\ program \in Programs
  /\ \E result \in Results : accesses = Accesses(program, result)
  /\ next = 1 /\ bus = NoAccess
  /\ wbbd_state = [s |-> "IDLE", byte |-> 0] /\ wb_dat_o = <<0, 0, 0, 0>>
  /\ gpio_configure = [pad \in AllPads |-> ResetMode(pad)]
  /\ serial_xfer = FALSE
  /\ mgmt_gpio_data = <<0, 0, 0, 0>> /\ mgmt_gpio_data_buf = <<0, 0, 0>>
  /\ xfer_state = "IDLE" /\ xfer_count = 0 /\ pad_count = <<Chain - 1, Chain>>
  /\ serial_clock = FALSE /\ serial_load = FALSE /\ serial_busy = FALSE
  /\ staging = <<0, 0>>
  /\ shift_register = [pad \in AllPads |-> 0]
  /\ serial_data_out = [pad \in AllPads |-> 0]
  /\ control = [pad \in AllPads |-> OwnDefault]

Next == Clock \/ Issue
\* The clock runs, and the program goes on.
Spec == Init /\ [][Next]_vars /\ WF_vars(Clock) /\ WF_vars(Issue)

-----------------------------------------------------------------------------
\* What the program asked for, by its own list: the last mode it writes to a
\* pad, and the reset value of the pads it leaves alone.
Wanted == [pad \in AllPads |->
  IF \E k \in DOMAIN Modes(program) : Modes(program)[k][1] = pad
  THEN Modes(program)[CHOOSE k \in DOMAIN Modes(program) : Modes(program)[k][1] = pad][2]
  ELSE ResetMode(pad)]
PastPoll == next > Len(Modes(program)) + 2

\* All pads take their modes in the same cycle, each its own, although they
\* travel one bit at a time through the pads before it.
ConfiguredTogether == \/ control = [pad \in AllPads |-> OwnDefault]
                      \/ control = Wanted

\* The pins change from one word of the program to its next; they never show
\* a word half written, which a testbench could take for a flag or a result.
PinsChangeAtOnce ==
  [][mgmt_gpio_data' # mgmt_gpio_data =>
       bus.adr = reg_mprj_datal /\ mgmt_gpio_data' = bus.bytes]_vars

\* The program gets through its list, the pads keep what it asked for, and
\* the loader comes to rest.
SetupEnds == <>[](/\ next = Len(accesses) + 1
                  /\ control = Wanted
                  /\ xfer_state = "IDLE")

\* "Apply configuration", and the wait for it: what the program does after it,
\* it does with the pads configured.
PollWaitsForLoad == PastPoll => control = Wanted
=============================================================================

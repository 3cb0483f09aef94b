-------------------------------- MODULE ExcReport -------------------------
(***************************************************************************)
(* simple_exc_handler of simple_system_common.c: the report of an          *)
(* exception, character by character, and the end of the simulation.       *)
(*                                                                         *)
(* The titles are single items of the output; the digits of the registers  *)
(* are characters, that is ASCII codes.  putchar writes one item, and      *)
(* each step is one of them, a call, or the end of one.                    *)
(***************************************************************************)
EXTENDS Integers, Sequences, FiniteSets

CONSTANTS Digits,       \* hexadecimal digits of a register: 8
          RegValues     \* the values the registers may hold

Registers == {"mepc", "mcause", "mtval"}

\* What a digit counts, by its place from the right.
Place[n \in 0 .. Digits] == IF n = 0 THEN 1 ELSE 16 * Place[n - 1]

ASSUME ExcAssumption == /\ Digits \in Nat \ {0}
                        /\ RegValues \subseteq 0 .. Place[Digits] - 1

VARIABLES line,     \* which of its calls the handler is in, 0 for none
          regs,     \* the exception's registers
          rest, i,  \* puthex: h and i
          output,   \* what has been written to SIM_CTRL_OUT
          halted    \* SIM_CTRL_CTRL

excVars == <<line, regs, rest, i, output, halted>>

\* The calls of simple_exc_handler in their order.
Calls == <<"EXCEPTION!!!", "underline", "MEPC", "mepc", "MCAUSE", "mcause", "MTVAL", "mtval", "newline",
           "halt">>

Follow == line' = line + 1

Titles == {"EXCEPTION!!!", "underline", "MEPC", "MCAUSE", "MTVAL", "newline"}

putchar(item) == output' = Append(output, item)

\* An exception: the processor sets the registers and goes to the handler.
Exception ==
  /\ line = 0
  /\ \E f \in [Registers -> RegValues] : regs' = f
  /\ line' = 1
  /\ UNCHANGED <<rest, i, output, halted>>

\* A string of the report, or the last newline.
puts ==
  /\ line \in DOMAIN Calls /\ Calls[line] \in Titles
  /\ putchar([text |-> Calls[line]])
  /\ Follow
  /\ UNCHANGED <<regs, rest, i, halted>>

\* get_mepc, get_mcause or get_mtval, and the call of puthex.
puthex ==
  /\ line \in DOMAIN Calls /\ Calls[line] \in Registers /\ i = 0
  /\ rest' = regs[Calls[line]]
  /\ i' = 1
  /\ UNCHANGED <<line, regs, output, halted>>

Character(cur_digit) == IF cur_digit < 10 THEN 48 + cur_digit ELSE 55 + cur_digit

\* One pass of the loop: the top four bits, which are then shifted out.
PutDigit ==
  /\ i \in 1 .. Digits
  /\ putchar([char |-> Character(rest \div Place[Digits - 1])])
  /\ rest' = (rest * 16) % Place[Digits]
  /\ i' = i + 1
  /\ UNCHANGED <<line, regs, halted>>

EndHex ==
  /\ i = Digits + 1
  /\ i' = 0 /\ rest' = 0
  /\ Follow
  /\ UNCHANGED <<regs, output, halted>>

\* sim_halt; the handler then loops for ever.
sim_halt ==
  /\ line \in DOMAIN Calls /\ Calls[line] = "halt"
  /\ halted' = TRUE
  /\ Follow
  /\ UNCHANGED <<regs, rest, i, output>>

ExcInit ==
  /\ line = 0 /\ regs = [r \in Registers |-> 0]
  /\ rest = 0 /\ i = 0 /\ output = <<>> /\ halted = FALSE

ExcStep == Exception \/ puts \/ puthex \/ PutDigit \/ EndHex \/ sim_halt

-----------------------------------------------------------------------------
\* The number that characters of the output denote in hexadecimal, or -1.
Denoted(items) ==
  LET chars == [n \in DOMAIN items |-> items[n].char]
      digit(c) == CHOOSE d \in 0 .. 15 : c = (IF d \in 0 .. 9 THEN 48 ELSE 65 - 10) + d
      upTo[n \in 0 .. Len(chars)] ==
        IF n = 0 THEN 0 ELSE 16 * upTo[n - 1] + digit(chars[n])
  IN  IF \A n \in DOMAIN chars : chars[n] \in 48 .. 57 \cup 65 .. 70
        THEN upTo[Len(chars)] ELSE -1

\* When the simulation halts the report is complete, and the digits under
\* each title are the register the processor left there.
ReportIsFaithful ==
  halted =>
    LET at(title) == CHOOSE n \in DOMAIN output : output[n] = [text |-> title]
        under(title) == Denoted(SubSeq(output, at(title) + 1, at(title) + Digits)) IN
    /\ Len(output) = Cardinality(Titles) + 3 * Digits
    /\ under("MEPC") = regs["mepc"]
    /\ under("MCAUSE") = regs["mcause"]
    /\ under("MTVAL") = regs["mtval"]
=============================================================================

------------------------------ MODULE UartWrite ----------------------------
(***************************************************************************)
(* The polling driver of the UART (uart_write_string and uart_write_char   *)
(* in uart.c) on the UART itself: wait until tx_full is 0, write a byte,   *)
(* go on with the next; a line feed is preceded by a carriage return.      *)
(*                                                                         *)
(* tx_full follows a write only after some cycles: the request has to pass *)
(* o_tx_start, the edge detector and START_BIT before tx_busy rises.  A    *)
(* driver that polls again at once would see the old value.  After an      *)
(* access the CPU lets MinGap cycles pass, for the instructions between,   *)
(* before the cycle in which it puts the next request on the bus.          *)
(***************************************************************************)
EXTENDS Uart, Sequences

CONSTANTS Chars,    \* the characters of the strings written
          LF, CR,   \* line feed and carriage return
          MinGap

\* The driver's accesses are among the requests the UART is prepared for.
ASSUME WriteAssumption ==
  /\ Chars \subseteq Byte /\ {LF, CR} \subseteq Byte
  /\ MinGap \in Nat \ {0}
  /\ {Read("STAT_REG")} \cup {Write("TX_DATA", c) : c \in Chars \cup {LF, CR}} \subseteq Requests

VARIABLES pc,       \* "next" char of the string, "poll" or "write"
          todo,     \* what uart_write_char has still to write
          gap,      \* idle cycles since the last access, up to MinGap
          unsent    \* history: bytes written and not yet transmitted

drvVars == <<pc, todo, gap>>
writeVars == <<vars, drvVars, unsent>>

NextChar ==
  /\ pc = "next"
  /\ \E c \in Chars : todo' = IF c = LF THEN <<CR, LF>> ELSE <<c>>
  /\ pc' = "poll"
  /\ UNCHANGED <<wb, gap>>

IssueAccess ==
  /\ pc \in {"poll", "write"} /\ ~wb.valid /\ gap = MinGap
  /\ wb' = IF pc = "poll" THEN Read("STAT_REG") ELSE Write("TX_DATA", Head(todo))
  /\ gap' = 0
  /\ UNCHANGED <<pc, todo>>

\* Mutation: tx_full is read and not waited for.
AccessDoneNoPoll ==
  /\ DropRequest
  /\ IF pc = "poll"
       THEN pc' = "write" /\ UNCHANGED todo
       ELSE /\ todo' = Tail(todo)
            /\ pc' = IF Len(todo) = 1 THEN "next" ELSE "poll"
  /\ UNCHANGED gap

AccessDone ==
  /\ DropRequest
  /\ IF pc = "poll"
       THEN /\ pc' = IF o_wb_dat.stat.tx_full THEN "poll" ELSE "write"
            /\ UNCHANGED todo
       ELSE /\ todo' = Tail(todo)
            /\ pc' = IF Len(todo) = 1 THEN "next" ELSE "poll"
  /\ UNCHANGED gap

AccessWait == HoldRequest /\ UNCHANGED drvVars

IdleCycle ==
  /\ ~wb.valid
  /\ gap' = IF gap = MinGap THEN gap ELSE gap + 1
  /\ UNCHANGED <<wb, pc, todo>>

Driver == NextChar \/ IssueAccess \/ AccessDone \/ AccessWait \/ IdleCycle

\* The history keeps this many bytes; one is the most there ever are, so the
\* bound only matters to a driver that is wrong.
UnsentBound == 2

\* A write hands its byte over when it completes; the transmitter is done with
\* a byte when it asks for the request to be cleared.
History ==
  /\ unsent' = LET rest == IF tx_state = "CLEAR_REQ" /\ unsent # <<>>
                             THEN Tail(unsent) ELSE unsent
               IN IF DropRequest /\ wb.we /\ Len(rest) < UnsentBound
                    THEN Append(rest, wb.dat) ELSE rest

WriteInit ==
  /\ Init
  /\ pc = "next" /\ todo = <<>> /\ gap = 0
  /\ unsent = <<>>

\* The line in is quiet: the driver does not look at the receiver.
WriteNext == Driver /\ UartClock(1) /\ History

WriteProgress == (NextChar \/ IssueAccess \/ AccessDone \/ AccessWait) /\ UartClock(1) /\ History

WriteSpec ==
  /\ WriteInit /\ [][WriteNext]_writeVars
  /\ WF_writeVars(WriteNext) /\ WF_writeVars(WriteProgress)

-----------------------------------------------------------------------------
\* Each byte written is transmitted, in order: when a frame ends, the byte it
\* carried is the only one handed over and not yet sent.
NoWriteLost == tx_state = "CLEAR_REQ" => unsent = <<o_tx>>

\* Every byte written does leave.
WrittenIsSent == unsent # <<>> ~> unsent = <<>>
=============================================================================

------------------------------- MODULE FirHost -----------------------------
(***************************************************************************)
(* The program of lab 4 (fir.c, called again and again by fir_control.c)   *)
(* driving the filter: data length, coefficients, start; then for every    *)
(* sample a poll for x_readyWrite, the sample, a poll for y_readyRead and  *)
(* the output; last a poll for ap_idle.  Sample n is the number n and      *)
(* coefficient k the number k, so that an output shows what it is made of. *)
(*                                                                         *)
(* The CPU leaves the bus idle for at least one cycle after an access and  *)
(* for as long as it likes.                                                *)
(***************************************************************************)
EXTENDS FirBridge

CONSTANTS RunLength,   \* samples per run: data_length, 64 in the source
          Runs         \* calls of fir(): 3 in the source

\* A run fills the window, and its length fits the register.
ASSUME HostAssumption == RunLength \in Tape_Num .. LengthMod - 1 /\ Runs \in Nat \ {0}

VARIABLES pc,     \* what the program does next, or is doing, on the bus
          k,      \* coefficients written
          sent,   \* samples written in this run
          got,    \* outputs read in this run
          run     \* runs completed

hostVars == <<pc, k, sent, got, run>>

\* The access the program makes at pc.
AccessAt(at) ==
  CASE at = "length" -> WriteOf(Register("data_length"), RunLength)
    [] at = "coeff" -> WriteOf(Coefficient(k), k)
    [] at = "start" -> WriteOf(Register("ap_state"), 1)
    [] at \in {"poll_x", "poll_y", "poll_idle"} -> ReadOf(Register("ap_state"))
    [] at = "put_x" -> WriteOf(Register("x"), sent)
    [] at = "get_y" -> ReadOf(Register("y"))

Access == ~wb.valid /\ pc # "done" /\ wb' = AccessAt(pc) /\ UNCHANGED hostVars

Idles == ~wb.valid /\ UNCHANGED wb /\ UNCHANGED hostVars

Waits == Holds /\ UNCHANGED hostVars

\* The status a poll returns.
Polled == axi_rdata.status

DoneLength == pc = "length" /\ pc' = "coeff" /\ k' = 0 /\ UNCHANGED <<sent, got, run>>

DoneCoeff ==
  /\ pc = "coeff" /\ k' = k + 1
  /\ pc' = IF k = Tape_Num - 1 THEN "start" ELSE "coeff"
  /\ UNCHANGED <<sent, got, run>>

DoneStart == pc = "start" /\ pc' = "poll_x" /\ UNCHANGED <<k, sent, got, run>>

DonePollX ==
  /\ pc = "poll_x" /\ pc' = IF Polled.x THEN "put_x" ELSE "poll_x"
  /\ UNCHANGED <<k, sent, got, run>>

DonePutX ==
  /\ pc = "put_x" /\ pc' = "poll_y" /\ sent' = sent + 1
  /\ UNCHANGED <<k, got, run>>

DonePollY ==
  /\ pc = "poll_y" /\ pc' = IF Polled.y THEN "get_y" ELSE "poll_y"
  /\ UNCHANGED <<k, sent, got, run>>

\* Mutation: the next sample is sent without a poll before it.
DoneGetYNoPoll ==
  /\ pc = "get_y" /\ got' = Append(got, axis_rdata)
  /\ pc' = IF sent = RunLength THEN "poll_idle" ELSE "put_x"
  /\ UNCHANGED <<k, sent, run>>

DoneGetY ==
  /\ pc = "get_y" /\ got' = Append(got, axis_rdata)
  /\ pc' = IF sent = RunLength THEN "poll_idle" ELSE "poll_x"
  /\ UNCHANGED <<k, sent, run>>

DonePollIdle ==
  /\ pc = "poll_idle" /\ UNCHANGED k
  /\ IF Polled.idle
       THEN /\ run' = run + 1 /\ sent' = 0 /\ got' = <<>>
            /\ pc' = IF run + 1 = Runs THEN "done" ELSE "length"
       ELSE UNCHANGED <<pc, run, sent, got>>

Completes ==
  /\ Drops
  /\ \/ DoneLength \/ DoneCoeff \/ DoneStart \/ DonePollX \/ DonePutX
     \/ DonePollY \/ DoneGetY \/ DonePollIdle

HostInit ==
  /\ ProjectInit
  /\ pc = "length" /\ k = 0 /\ sent = 0 /\ got = <<>> /\ run = 0

HostNext == (Access \/ Idles \/ Waits \/ Completes) /\ ProjectClock

\* The clock runs, and the CPU does not idle for ever.
HostProgress == (Access \/ Waits \/ Completes) /\ ProjectClock

hostAll == <<vars, hostVars>>
HostSpec == /\ HostInit /\ [][HostNext]_hostAll
            /\ WF_hostAll(HostNext) /\ WF_hostAll(HostProgress)

-----------------------------------------------------------------------------
\* Every read of an output finds one, and each is read once: the stale status
\* never sends the program to fetch an output it has fetched already.
OutputFindsResult ==
  wb.valid /\ pc = "get_y" /\ ~sm_tready => isY_readyRead /\ Len(got) < sent

\* While a run is on, what is left of data_length and the outputs computed add
\* up to the length that was written: none is counted twice, and the count
\* does not wrap.
Computed == Len(got) + (IF isY_readyRead /\ is_data_length_minus THEN 1 ELSE 0)
LengthAddsUp ==
  pc \in {"poll_x", "put_x", "poll_y", "get_y", "poll_idle"}
    => data_length + Computed = RunLength

\* A computation meets whole coefficients: none is still being written.
TapsAreSettled ==
  state_FIR # "stop" => \A i \in 0 .. Tape_Num - 1 : tapRAM[i] = WordOf(i)

\* The program and the filter implement the abstract filter.
Filter == INSTANCE FirFilter WITH
            Taps <- Tape_Num, Product <- LAMBDA i, n : <<WordOf(i), WordOf(n)>>
FiltersFaithfully == Filter!FilterSpec
=============================================================================

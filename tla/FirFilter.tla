------------------------------ MODULE FirFilter ----------------------------
(***************************************************************************)
(* What the filter of lab 4 does for the program that uses it (fir.v,      *)
(* "Y[n] = sigma(a[n-11]*X[n])"): every sample sent is answered, before    *)
(* the next one is sent, by the sum over the taps of the tap times the     *)
(* sample that many places back.  A run has RunLength samples, and there   *)
(* are Runs of them.                                                       *)
(*                                                                         *)
(* The stored samples outlive the run they came with: in the first run the *)
(* places before the first sample count for nothing, in every later run    *)
(* they hold the last samples of the run before.                           *)
(***************************************************************************)
EXTENDS Integers, Sequences

CONSTANTS Taps,        \* number of taps
          RunLength,   \* samples of a run, no fewer than the taps
          Runs,        \* runs
          Product(_, _)   \* the product of tap k and sample n

VARIABLES sent,   \* samples sent in this run
          got,    \* outputs received in this run
          run     \* runs completed

\* The formal sum of the products, in the order of the taps: over the places
\* filled in this run, and over all the places.
FreshOutput(n) ==
  [k \in 1 .. (IF n < Taps THEN n + 1 ELSE Taps) |-> Product(k - 1, n - k + 1)]
CarriedOutput(n) ==
  [k \in 1 .. Taps |-> Product(k - 1, (n - k + 1) % RunLength)]
Output(n) == IF run = 0 THEN FreshOutput(n) ELSE CarriedOutput(n)

FilterInit == sent = 0 /\ got = <<>> /\ run = 0

Send ==
  /\ run < Runs /\ sent < RunLength /\ Len(got) = sent
  /\ sent' = sent + 1
  /\ UNCHANGED <<got, run>>

Receive ==
  /\ Len(got) < sent
  /\ got' = Append(got, Output(sent - 1))
  /\ UNCHANGED <<sent, run>>

Finish ==
  /\ Len(got) = RunLength
  /\ sent' = 0 /\ got' = <<>> /\ run' = run + 1

FilterNext == Send \/ Receive \/ Finish

FilterSpec ==
  FilterInit /\ [][FilterNext]_<<sent, got, run>> /\ WF_<<sent, got, run>>(FilterNext)
=============================================================================

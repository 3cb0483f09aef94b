------------------------------- MODULE MCWorkload -------------------------
(***************************************************************************)
(* The testbenches for TLC.  Those of labs 4 and 6 with their workloads,   *)
(* the arrays of the lab, and small ones among which every order and every *)
(* tie occurs; one workload varies at a time.  And that of lab 3, with the *)
(* filter that it was written for.                                         *)
(***************************************************************************)
EXTENDS Workload, Fir3Bench

VARIABLE lab     \* 3, or 6 for the others

\* qsort.h, matmul.c and fir.h.
arr == <<893, 40, 3233, 4267, 2669, 2541, 9073, 6023, 5681, 4622>>
LabArray == [i \in 0 .. 9 |-> arr[i + 1]]
LabFactors == [size |-> 4, a |-> [e \in 0 .. 15 |-> e % 4], b |-> [e \in 0 .. 15 |-> e + 1]]
LabFilter == [taps |-> <<0, -10, -9, 23, 56, 63, 56, 23, -9, -10, 0>>,
              inputsignal |-> [i \in 1 .. 11 |-> i]]

\* What the processes of counter_la_integrate_tb.v wait for is what is right.
LabResults ==
  [matmul |-> <<62, 68, 74, 80, 62, 68, 74, 80, 62, 68, 74, 80, 62, 68, 74, 80>>,
   qsort |-> <<40, 893, 2541, 2669, 3233, 4267, 4622, 5681, 6023, 9073>>,
   fir |-> <<0, 65526, 65507, 65511, 35, 158, 337, 539, 732, 915, 1098>>]

ASSUME LabAssumption ==
  /\ Product(LabFactors) = LabResults.matmul
  /\ Sorted(LabArray) = LabResults.qsort
  /\ [e \in 1 .. 11 |-> HalfWord(Convolution(LabFilter)[e])] = LabResults.fir

\* Products that are the end flag of matmul and the start flag of qsort.
FlagFactors == {[size |-> 1, a |-> [e \in {0} |-> 1], b |-> [e \in {0} |-> f]] :
                  f \in {43801, 43809}}

MCArrays == {LabArray} \cup UNION {[0 .. size - 1 -> 0 .. 2] : size \in 1 .. 4}
MCFactors == {LabFactors} \cup
  {[size |-> 2, a |-> a, b |-> b] : a \in [0 .. 3 -> {0, 1}], b \in [0 .. 3 -> {-1, 2}]} \cup FlagFactors
MCFilters == {LabFilter} \cup
  {[taps |-> c, inputsignal |-> x] : c \in [1 .. 3 -> {-1, 0, 2}], x \in [1 .. 3 -> {-3, 1}]}

LabWorkload == arr_A = LabArray /\ mat = LabFactors /\ filter = LabFilter

MCInit ==
  /\ lab \in {3, 6}
  /\ program \in Programs /\ (lab = 3 => program = "fir")
  /\ \/ arr_A = LabArray /\ mat = LabFactors /\ filter \in Filters
     \/ arr_A = LabArray /\ mat \in Factors /\ filter = LabFilter
     \/ arr_A \in Arrays /\ mat = LabFactors /\ filter = LabFilter
  /\ lab = 3 => LabWorkload
  /\ Init /\ BenchInit

Lab3Next == lab = 3 /\ BenchNext /\ UNCHANGED <<lab, vars>>
Lab6Next == lab = 6 /\ Next /\ UNCHANGED <<lab, benchAll>>

MCNext == Lab3Next \/ Lab6Next
MCAll == <<lab, vars, benchAll>>
MCSpec == MCInit /\ [][MCNext]_MCAll /\ WF_MCAll(MCNext)

\* Every testbench ends.  Those of labs 4 and 6 see all that they wait for, in
\* order, whatever the inputs: no result is hidden by one that follows it, and
\* none keeps a process of another workload from its own.  That of lab 3 gets
\* as many outputs as it has samples.
BenchFinishes == <>(IF lab = 3 THEN Finished ELSE BenchFinished)
=============================================================================

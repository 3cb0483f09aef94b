-------------------------------- MODULE Workload --------------------------
(***************************************************************************)
(* The three workloads of lab 6, run together by counter_la_integrate.c or *)
(* each by its own program, the software filter of lab 4, and their        *)
(* testbenches, which follow the program on the check bits: the upper half *)
(* of reg_mprj_datal, driven on sixteen pins.                              *)
(*                                                                         *)
(* A testbench has a process for each workload.  All of them watch the     *)
(* same bits at the same time, each waiting for one value after another,   *)
(* and they have no other word of what the program is doing.  A wait takes *)
(* no time, so the program is held back while one can end.  (The fourth    *)
(* process of the integration, of the UART, is in UartEcho; the testbench  *)
(* of lab 4 has none and looks at no result.)                              *)
(***************************************************************************)
EXTENDS QSort, SequencesExt

CONSTANTS Arrays,    \* the arrays to sort
          Factors,   \* the matrices to multiply: records of size, a and b
          Filters    \* the filters: records of taps and inputsignal

\* An array of integers is indexed from 0.
ASSUME ArraysAssumption ==
  \A a \in Arrays : LET size == Cardinality(DOMAIN a) IN
    size \in Nat /\ a \in [0 .. size - 1 -> Int]

\* Both matrices are square, of one size; there is a sample for each tap.
ASSUME FactorsAssumption == \A m \in Factors : m.size \in Nat
ASSUME FiltersAssumption ==
  \A f \in Filters : /\ f.taps \in Seq(Int) /\ f.inputsignal \in Seq(Int)
                     /\ Len(f.inputsignal) = Len(f.taps)

VARIABLES program,      \* which of the five
          mat,          \* mat_A and mat_B, and their size
          result,       \* of matmul
          filter,       \* taps and inputsignal
          inputbuffer, outputsignal,
          task, stage,  \* what main is doing
          n,            \* the element computed, or shown
          checkbits,
          bench,        \* what each process of the testbench has seen
          right         \* the results by definition, which the testbench has
                        \* as lists

matVars == <<mat, result>>
firVars == <<filter, inputbuffer, outputsignal>>
mainVars == <<task, stage, n, checkbits>>
vars == <<program, sortVars, matVars, firVars, mainVars, bench, right>>

Programs == {"integrate", "matmul", "qsort", "fir", "exmem"}
Tasks == CASE program = "integrate" -> <<"matmul", "qsort", "fir">>
           [] program = "exmem" -> <<"fir">>
           [] OTHER -> <<program>>

N == Len(filter.taps)
HalfWord(v) == v % 65536

\* What a loop adds up: f[0], f[1] and so on, size of them.
Sum(f, size) ==
  LET upTo[k \in 0 .. size] == IF k = 0 THEN 0 ELSE upTo[k - 1] + f[k - 1]
  IN  upTo[size]

-----------------------------------------------------------------------------
(* matmul.c and fir.c. *)

\* One element of the result.
matmul ==
  /\ task = "matmul" /\ stage = "compute" /\ n < mat.size * mat.size
  /\ LET i == n \div mat.size j == n % mat.size IN
     result' = [result EXCEPT ![n] =
       Sum([k \in 0 .. mat.size - 1 |-> mat.a[i * mat.size + k] * mat.b[k * mat.size + j]],
           mat.size)]
  /\ n' = n + 1
  /\ UNCHANGED <<program, sortVars, mat, firVars, task, stage, checkbits, bench, right>>

\* Mutation: the samples are moved up from the first on, so that one fills
\* the buffer.
ShiftedUpwards(sample) == [i \in 0 .. N - 1 |-> IF i = 0 THEN sample ELSE inputbuffer[0]]

\* The samples in the buffer, moved up by one.
Shifted(sample) == [i \in 0 .. N - 1 |-> IF i = 0 THEN sample ELSE inputbuffer[i - 1]]

initfir ==
  /\ task = "fir" /\ stage = "init"
  /\ inputbuffer' = [i \in 0 .. N - 1 |-> 0]
  /\ outputsignal' = [i \in 0 .. N - 1 |-> 0]
  /\ stage' = "compute"
  /\ UNCHANGED <<program, sortVars, matVars, filter, task, n, checkbits, bench, right>>

\* One sample.
firfilter ==
  /\ task = "fir" /\ program # "exmem" /\ stage = "compute" /\ n < N
  /\ inputbuffer' = Shifted(filter.inputsignal[n + 1])
  /\ outputsignal' = [outputsignal EXCEPT ![n] =
       Sum([i \in 0 .. N - 1 |-> filter.taps[i + 1] * inputbuffer'[i]], N)]
  /\ n' = n + 1
  /\ UNCHANGED <<program, sortVars, matVars, filter, task, stage, checkbits, bench, right>>

\* One pass of the outer loop of lab 4's fir.  Its inner loop stops before the
\* newest sample, which is met by the first tap only.
firLab4 ==
  /\ task = "fir" /\ program = "exmem" /\ stage = "compute" /\ n < N
  /\ outputsignal' = [outputsignal EXCEPT ![n] = @ +
       Sum([j \in 0 .. n - 1 |-> filter.taps[n - j + 1] * filter.inputsignal[j + 1]], n)]
  /\ n' = n + 1
  /\ UNCHANGED <<program, sortVars, matVars, filter, inputbuffer, task, stage, checkbits,
                 bench, right>>

\* A step of sort; qsort has returned when no call is left.
qsort ==
  /\ task = "qsort" /\ stage = "compute"
  /\ SortStep
  /\ UNCHANGED <<program, matVars, firVars, mainVars, bench, right>>

-----------------------------------------------------------------------------
(* main, once the pins are set up. *)

Values == CASE task = "matmul" -> result
            [] task = "qsort" -> arr_A
            [] task = "fir" -> outputsignal

Computed == CASE task = "matmul" -> n = mat.size * mat.size
              [] task = "qsort" -> frames = <<>>
              [] task = "fir" -> n = N

\* Mutation: all workloads raise the flag of the first.
StartFlagShared(t) == 43793

StartFlag(t) == CASE t = "matmul" -> 43793 [] t = "qsort" -> 43809 [] t = "fir" -> 43825
EndFlag(t) == StartFlag(t) + 8
StartTask == IF program = "integrate" THEN 43776 ELSE 43840   \* 0xAB00, 0xAB40
EndTask == IF program = "integrate" THEN 43840 ELSE 43857     \* 0xAB40, 0xAB51
Flag(f) == checkbits' = IF program = "integrate" THEN f ELSE checkbits

\* Mutation: the value goes to the pins with its sign.
ShownSigned(v) == v

\* What the sixteen pins show of (v << 16).
Shown(v) == HalfWord(v)

MainStart ==
  /\ task = "start"
  /\ checkbits' = StartTask
  /\ task' = Tasks[1] /\ stage' = "flag" /\ n' = 0
  /\ UNCHANGED <<program, sortVars, matVars, firVars, bench, right>>

\* The start flag, which is raised only if there are other workloads, and the
\* call.
MainCall ==
  /\ stage = "flag"
  /\ Flag(StartFlag(task))
  /\ stage' = IF task = "fir" THEN "init" ELSE "compute"
  /\ n' = 0
  /\ frames' = IF task = "qsort" THEN <<Call(0, Cardinality(DOMAIN arr_A) - 1)>> ELSE frames
  /\ UNCHANGED <<program, arr_A, matVars, firVars, task, bench, right>>

MainReturn ==
  /\ stage = "compute" /\ Computed
  /\ stage' = "show" /\ n' = 0
  /\ UNCHANGED <<program, sortVars, matVars, firVars, task, checkbits, bench, right>>

MainShow ==
  /\ stage = "show" /\ n \in DOMAIN Values
  /\ checkbits' = Shown(Values[n])
  /\ n' = n + 1
  /\ UNCHANGED <<program, sortVars, matVars, firVars, task, stage, bench, right>>

MainNext ==
  /\ stage = "show" /\ n \notin DOMAIN Values
  /\ Flag(EndFlag(task))
  /\ n' = 0
  /\ IF task = Last(Tasks) THEN task' = "end" /\ stage' = "end"
     ELSE task' = Tasks[1 + CHOOSE i \in DOMAIN Tasks : Tasks[i] = task] /\ stage' = "flag"
  /\ UNCHANGED <<program, sortVars, matVars, firVars, bench, right>>

MainEnd ==
  /\ task = "end"
  /\ checkbits' = EndTask
  /\ task' = "done"
  /\ UNCHANGED <<program, sortVars, matVars, firVars, stage, n, bench, right>>

MainStep == MainStart \/ MainCall \/ matmul \/ qsort \/ initfir \/ firfilter \/ firLab4
            \/ MainReturn \/ MainShow \/ MainNext \/ MainEnd

-----------------------------------------------------------------------------
(* What is right, by definition.                                            *)

Product(m) == [e \in 1 .. m.size * m.size |->
  Sum([k \in 0 .. m.size - 1 |-> m.a[((e - 1) \div m.size) * m.size + k]
                                 * m.b[k * m.size + ((e - 1) % m.size)]], m.size)]

\* The element of rank e: fewer than e are smaller, and e or more not larger.
Below(a, v) == Cardinality({k \in DOMAIN a : a[k] < v})
UpTo(a, v) == Cardinality({k \in DOMAIN a : a[k] <= v})
HasRank(a, v, e) == Below(a, v) < e /\ e <= UpTo(a, v)
Sorted(a) ==
  [e \in 1 .. Cardinality(DOMAIN a) |-> CHOOSE v \in Range(a) : HasRank(a, v, e)]

Convolution(f) == [e \in DOMAIN f.taps |->
  Sum([k \in 0 .. e - 1 |-> f.taps[k + 1] * f.inputsignal[e - k]], e)]

Expected(t) ==
  LET shown == [e \in DOMAIN right[t] |-> HalfWord(right[t][e])] IN
  IF program = "integrate" THEN <<StartFlag(t)>> \o shown \o <<EndFlag(t)>> ELSE shown

-----------------------------------------------------------------------------
(* The testbenches. *)

Processes == IF program = "exmem" THEN {} ELSE ToSet(Tasks)
Joined == \A t \in Processes : bench[t] = Len(Expected(t))

Waits(t) == bench.main = "forked" /\ bench[t] < Len(Expected(t))
SeesNext(t) == Waits(t) /\ checkbits = Expected(t)[bench[t] + 1]

Fork ==
  /\ bench.main = "start" /\ checkbits = StartTask
  /\ bench' = [bench EXCEPT !.main = "forked"]

Follow(t) ==
  /\ SeesNext(t)
  /\ bench' = [bench EXCEPT ![t] = @ + 1]

Finish ==
  /\ bench.main = "forked" /\ Joined /\ checkbits = EndTask
  /\ bench' = [bench EXCEPT !.main = "finished"]

BenchStep == /\ Fork \/ Finish \/ \E t \in Processes : Follow(t)
             /\ UNCHANGED <<program, sortVars, matVars, firVars, mainVars, right>>

BenchCanStep ==
  \/ bench.main = "start" /\ checkbits = StartTask
  \/ \E t \in Processes : SeesNext(t)
  \/ bench.main = "forked" /\ Joined /\ checkbits = EndTask

-----------------------------------------------------------------------------
Init ==
  /\ program \in Programs
  /\ mat \in Factors /\ result = [e \in 0 .. mat.size * mat.size - 1 |-> 0]
  /\ arr_A \in Arrays /\ frames = <<>>
  /\ filter \in Filters /\ (program = "exmem" => filter.taps[1] = 0)
  /\ right = [matmul |-> Product(mat), qsort |-> Sorted(arr_A), fir |-> Convolution(filter)]
  /\ inputbuffer = [i \in 0 .. N - 1 |-> 0] /\ outputsignal = [i \in 0 .. N - 1 |-> 0]
  /\ task = "start" /\ stage = "none" /\ n = 0
  /\ checkbits = 0
  /\ bench = [main |-> "start", matmul |-> 0, qsort |-> 0, fir |-> 0]

\* The testbench has seen all that it waits for, in order, and ends.
BenchFinished == bench.main = "finished"

Next == BenchStep \/ (~BenchCanStep /\ MainStep)

\* The processor and the simulator both go on.
Spec == Init /\ [][Next]_vars /\ WF_vars(Next)

-----------------------------------------------------------------------------
\* What is shown as result is the result, for every element of every workload.
ResultsAreRight ==
  stage = "show" => Values = [e \in DOMAIN Values |-> right[task][e + 1]]

\* How many of the values that the process of a workload waits for have been on
\* the pins for it.
Place(t) == CHOOSE i \in DOMAIN Tasks : Tasks[i] = t
HasEnded(t) == task \in {"end", "done"} \/ (task # "start" /\ Place(t) < Place(task))
FlagsRaised == IF program = "integrate" THEN 1 ELSE 0
ShownTo(t) ==
  IF HasEnded(t) THEN Len(Expected(t))
  ELSE IF task # t \/ stage = "flag" THEN 0
  ELSE FlagsRaised + (IF stage = "show" THEN n ELSE 0)

\* No result looks on the pins like what main raises between results.
Signals == {StartTask} \cup
  (IF program = "integrate" THEN UNION {{StartFlag(t), EndFlag(t)} : t \in ToSet(Tasks)}
   ELSE {})
ResultsAreTelling == \A t \in ToSet(Tasks) : \A e \in DOMAIN right[t] :
  HalfWord(right[t][e]) \notin Signals

MissesNothing(t) ==
  ShownTo(t) <= bench[t] \/ (ShownTo(t) = bench[t] + 1 /\ SeesNext(t))
RunsNotAhead(t) == \A e \in ShownTo(t) + 1 .. bench[t] : Expected(t)[e] = checkbits

\* The processes, which have only the pins to go by, keep step with main.  None
\* lets a value pass it was to see; and, unless a result looks like a signal,
\* none goes by a value that was shown for another workload or as another result:
\* where one is ahead, main repeats itself.
ProcessesKeepStep ==
  bench.main # "start" => \A t \in Processes :
    MissesNothing(t) /\ (ResultsAreTelling => RunsNotAhead(t))
=============================================================================

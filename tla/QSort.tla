--------------------------------- MODULE QSort ----------------------------
(***************************************************************************)
(* qsort.c of lab 6: the calls of sort on the stack, and partition, one    *)
(* pass through its loop a step.                                           *)
(***************************************************************************)
EXTENDS Integers, Sequences, FiniteSets

VARIABLES arr_A,   \* the array, a function on 0 .. SIZE_arr - 1
          frames   \* the calls of sort that have not returned, newest first

sortVars == <<arr_A, frames>>

\* A call of sort.  Once partition has been called, i and j are its locals and
\* at last i + 1 is p.
Call(low, hi) == [at |-> "start", low |-> low, hi |-> hi, i |-> low - 1, j |-> low]

Top == frames[1]
Replaced(frame) == <<frame>> \o Tail(frames)
Swapped(a, x, y) == [a EXCEPT ![x] = a[y], ![y] = a[x]]

StartSort ==
  /\ frames # <<>> /\ Top.at = "start"
  /\ frames' = IF Top.low < Top.hi THEN Replaced([Top EXCEPT !.at = "loop"]) ELSE Tail(frames)
  /\ UNCHANGED arr_A

\* Mutation: elements equal to the pivot are swapped to the left, too.
PartitionPassEqual ==
  /\ frames # <<>> /\ Top.at = "loop" /\ Top.j < Top.hi
  /\ IF arr_A[Top.j] <= arr_A[Top.hi]
       THEN /\ arr_A' = Swapped(arr_A, Top.i + 1, Top.j)
            /\ frames' = Replaced([Top EXCEPT !.i = @ + 1, !.j = @ + 1])
       ELSE /\ frames' = Replaced([Top EXCEPT !.j = @ + 1])
            /\ UNCHANGED arr_A

\* The pivot is the last element, which the loop does not touch.
PartitionPass ==
  /\ frames # <<>> /\ Top.at = "loop" /\ Top.j < Top.hi
  /\ IF arr_A[Top.j] < arr_A[Top.hi]
       THEN /\ arr_A' = Swapped(arr_A, Top.i + 1, Top.j)
            /\ frames' = Replaced([Top EXCEPT !.i = @ + 1, !.j = @ + 1])
       ELSE /\ frames' = Replaced([Top EXCEPT !.j = @ + 1])
            /\ UNCHANGED arr_A

\* Partition ends, and sort calls itself for the left part.
EndPartition ==
  /\ frames # <<>> /\ Top.at = "loop" /\ Top.j = Top.hi
  /\ arr_A' = IF arr_A[Top.hi] < arr_A[Top.i + 1]
                THEN Swapped(arr_A, Top.i + 1, Top.hi) ELSE arr_A
  /\ frames' = <<Call(Top.low, Top.i)>> \o Replaced([Top EXCEPT !.at = "left"])

\* Mutation: the right part starts at the pivot.
SortRightAgain ==
  /\ frames # <<>> /\ Top.at = "left"
  /\ frames' = <<Call(Top.i + 1, Top.hi)>> \o Replaced([Top EXCEPT !.at = "right"])
  /\ UNCHANGED arr_A

SortRight ==
  /\ frames # <<>> /\ Top.at = "left"
  /\ frames' = <<Call(Top.i + 2, Top.hi)>> \o Replaced([Top EXCEPT !.at = "right"])
  /\ UNCHANGED arr_A

EndSort ==
  /\ frames # <<>> /\ Top.at = "right"
  /\ frames' = Tail(frames)
  /\ UNCHANGED arr_A

SortStep == StartSort \/ PartitionPass \/ EndPartition \/ SortRight \/ EndSort

-----------------------------------------------------------------------------
\* No access of partition is outside the part it was called for, which is
\* within the array, whatever the order and the ties of its elements; and the
\* stack never holds more calls than the array has elements, and one.
SortStaysInBounds ==
  /\ Len(frames) <= Cardinality(DOMAIN arr_A) + 1
  /\ frames # <<>> /\ Top.at = "loop" =>
       /\ Top.low \in DOMAIN arr_A /\ Top.hi \in DOMAIN arr_A
       /\ Top.low <= Top.i + 1 /\ Top.i < Top.j /\ Top.j <= Top.hi

\* Wherever a call has partitioned, smaller elements stay left of its pivot
\* and the others right of it, through all the calls it makes.
PartsStaySplit ==
  \A n \in DOMAIN frames :
    LET f == frames[n] p == f.i + 1 IN
    f.at \in {"left", "right"} =>
      /\ \A k \in f.low .. p - 1 : arr_A[k] < arr_A[p]
      /\ \A k \in p + 1 .. f.hi : arr_A[p] <= arr_A[k]
=============================================================================

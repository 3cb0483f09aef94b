----------------------------- MODULE WorkloadProofs -----------------------
(***************************************************************************)
(* The workloads of lab 6: sort and partition for arrays of any size and   *)
(* any elements, the results of all of them, for matrices of any size and  *)
(* filters of any length, and the processes of the testbench that follow   *)
(* them.  And, at the end, the testbench of lab 3 with its filter, which   *)
(* MCWorkload runs beside them, for 2 to 15 taps and any run that the      *)
(* registers of the filter can count.                                      *)
(***************************************************************************)
EXTENDS Workload, Fir3Bench, FiniteSetTheorems, SequenceTheorems, TLAPS

Size == Cardinality(DOMAIN arr_A)

Frame == [at : {"start", "loop", "left", "right"},
          low : Int, hi : Int, i : Int, j : Int]

\* The part of a call is in the array, its loop in the part, and its pivot in
\* the end in one of the places of the part.
InBounds(f, size) ==
  /\ 0 <= f.low /\ f.low <= f.hi + 1 /\ f.hi < size
  /\ f.at = "start" => f.i = f.low - 1 /\ f.j = f.low
  /\ f.at = "loop" => f.low <= f.i + 1 /\ f.i < f.j /\ f.j <= f.hi
  /\ f.at \in {"left", "right"} => f.low <= f.i + 1 /\ f.i + 1 <= f.hi

\* What partition has done so far, and what it has done in the end.
LoopSplit(a, f) ==
  f.at = "loop" =>
    /\ \A k \in f.low .. f.i : a[k] < a[f.hi]
    /\ \A k \in f.i + 1 .. f.j - 1 : a[f.hi] <= a[k]
Split(a, f) ==
  f.at \in {"left", "right"} =>
    /\ \A k \in f.low .. f.i : a[k] < a[f.i + 1]
    /\ \A k \in f.i + 2 .. f.hi : a[f.i + 1] <= a[k]

\* What the calls made so far have sorted: the left part, once the right part
\* is begun, and the part of the call that has just returned.
SortedIn(a, low, hi) == \A k, l \in low .. hi : k < l => a[k] <= a[l]
LeftSorted(a, f) == f.at = "right" => SortedIn(a, f.low, f.i)
Returned(a, f) ==
  /\ f.at = "left" => SortedIn(a, f.low, f.i)
  /\ f.at = "right" => SortedIn(a, f.i + 2, f.hi)

\* All that sort has done for a call and its part.
Sorting(a, f) == LoopSplit(a, f) /\ Split(a, f) /\ LeftSorted(a, f)

\* The call f was made by g.
Part(f, g) == \/ g.at = "left" /\ f.low = g.low /\ f.hi = g.i
              \/ g.at = "right" /\ f.low = g.i + 2 /\ f.hi = g.hi

\* The call f was made, at whatever depth, for the part that g is sorting.
Inside(f, g) == \/ g.at = "left" /\ g.low <= f.low /\ f.hi <= g.i
                \/ g.at = "right" /\ g.i + 2 <= f.low /\ f.hi <= g.hi

\* A stack of calls that sort an array a: each call has a smaller part than the
\* one that made it, and the oldest has the whole array.
Stack(a, s, size) ==
  /\ s \in Seq(Frame)
  /\ \A q \in DOMAIN s : InBounds(s[q], size)
  /\ \A q \in DOMAIN s : Sorting(a, s[q])
  /\ \A m, q \in DOMAIN s : m < q => Inside(s[m], s[q])
  /\ \A m, q \in DOMAIN s : q = m + 1 => Part(s[m], s[q])
  /\ \A q \in DOMAIN s : s[q].hi - s[q].low + 1 + Len(s) - q <= size
  /\ \A q \in DOMAIN s : q = Len(s) => s[q].low = 0 /\ s[q].hi = size - 1

\* The array keeps its size, and the stack sorts it.
Types == Size \in Nat /\ arr_A \in [0 .. Size - 1 -> Int]
TopReturned == frames # <<>> => Returned(arr_A, Top)
IInv == Types /\ Stack(arr_A, frames, Size) /\ TopReturned

-----------------------------------------------------------------------------
(* Lemmas about the stack and the swap. *)

\* Another newest call in the place of the old one.
LEMMA ReplacedTop ==
  ASSUME NEW s \in Seq(Frame), s # <<>>, NEW f \in Frame,
         NEW t, t = <<f>> \o Tail(s)
  PROVE  /\ t \in Seq(Frame) /\ t # <<>> /\ Len(t) = Len(s) /\ t[1] = f
         /\ Tail(t) = Tail(s)
         /\ \A q \in DOMAIN t : q # 1 => q \in DOMAIN s /\ t[q] = s[q]
<1>1. Tail(s) \in Seq(Frame) /\ Len(Tail(s)) = Len(s) - 1 /\ Len(s) \in Nat \ {0}
  OBVIOUS
<1>2. \A q \in 1 .. Len(s) - 1 : Tail(s)[q] = s[q + 1]
  OBVIOUS
<1>3. t \in Seq(Frame) /\ Len(t) = Len(s) /\ t[1] = f
  BY <1>1
<1>4. ASSUME NEW q \in DOMAIN t, q # 1
      PROVE  q \in DOMAIN s /\ t[q] = s[q]
  BY <1>1, <1>2, <1>3, <1>4
<1>5. Tail(t) = Tail(s)
  BY <1>1, <1>3
<1>6. QED
  BY <1>1, <1>3, <1>4, <1>5

\* A call on top of the others.
LEMMA PushedTop ==
  ASSUME NEW s \in Seq(Frame), NEW f \in Frame, NEW t, t = <<f>> \o s
  PROVE  /\ t \in Seq(Frame) /\ Len(t) = Len(s) + 1 /\ t[1] = f
         /\ \A q \in DOMAIN t : q # 1 => q - 1 \in DOMAIN s /\ t[q] = s[q - 1]
  OBVIOUS

\* The newest call is gone.
LEMMA PoppedTop ==
  ASSUME NEW s \in Seq(Frame), s # <<>>, NEW t, t = Tail(s)
  PROVE  /\ t \in Seq(Frame) /\ Len(t) = Len(s) - 1
         /\ \A q \in DOMAIN t : q + 1 \in DOMAIN s /\ t[q] = s[q + 1]
  OBVIOUS

\* Two elements exchanged, and no other.
LEMMA SwapTwo ==
  ASSUME NEW size \in Nat, NEW a \in [0 .. size - 1 -> Int],
         NEW x \in 0 .. size - 1, NEW y \in 0 .. size - 1, NEW b, b = Swapped(a, x, y)
  PROVE  /\ b \in [0 .. size - 1 -> Int] /\ b[y] = a[x] /\ b[x] = a[y]
         /\ \A k \in 0 .. size - 1 : k # x /\ k # y => b[k] = a[k]
  BY DEF Swapped

\* An exchange in a part of a call keeps the call's elements on their sides.
LEMMA SwapKeepsSplit ==
  ASSUME NEW size \in Nat, NEW a \in [0 .. size - 1 -> Int],
         NEW f \in Frame, NEW g \in Frame, InBounds(f, size), InBounds(g, size),
         Inside(f, g), Sorting(a, g),
         NEW x \in f.low .. f.hi, NEW y \in f.low .. f.hi, NEW b, b = Swapped(a, x, y)
  PROVE  Sorting(b, g)
<1>1. /\ f.low \in Int /\ f.hi \in Int /\ g.low \in Int /\ g.hi \in Int /\ g.i \in Int
      /\ x \in 0 .. size - 1 /\ y \in 0 .. size - 1
  BY SMTT(30) DEF Frame, InBounds
<1>2. /\ b \in [0 .. size - 1 -> Int] /\ b[y] = a[x] /\ b[x] = a[y]
      /\ \A k \in 0 .. size - 1 : k # x /\ k # y => b[k] = a[k]
  BY <1>1, SwapTwo
<1>3. /\ g.at \in {"left", "right"}
      /\ 0 <= g.low /\ g.low <= g.i + 1 /\ g.i + 1 <= g.hi /\ g.hi < size
  BY DEF Inside, InBounds
<1>4. \/ g.low <= x /\ x <= g.i /\ g.low <= y /\ y <= g.i
      \/ g.i + 2 <= x /\ x <= g.hi /\ g.i + 2 <= y /\ y <= g.hi
  <2>1. /\ x \in Int /\ f.low <= x /\ x <= f.hi
        /\ y \in Int /\ f.low <= y /\ y <= f.hi
        /\ f.low \in Int /\ f.hi \in Int /\ g.low \in Int /\ g.hi \in Int /\ g.i \in Int
    BY <1>1
  <2>2. CASE g.low <= f.low /\ f.hi <= g.i
    BY ONLY <2>1, <2>2
  <2>3. CASE g.i + 2 <= f.low /\ f.hi <= g.hi
    BY ONLY <2>1, <2>3
  <2>4. QED
    BY <2>2, <2>3 DEF Inside
<1>5. /\ \A k \in g.low .. g.i : a[k] < a[g.i + 1]
      /\ \A k \in g.i + 2 .. g.hi : a[g.i + 1] <= a[k]
  BY <1>3 DEF Sorting, Split
<1>6. b[g.i + 1] = a[g.i + 1]
  <2>1. g.i + 1 \in 0 .. size - 1
    BY ONLY <1>1, <1>3, size \in Nat, SMTT(30)
  <2>2. g.i \in Int /\ x \in Int /\ y \in Int
    BY ONLY <1>1, size \in Nat
  <2>3. g.i + 1 # x /\ g.i + 1 # y
    BY ONLY <2>2, <1>4
  <2>4. QED
    BY ONLY <2>1, <2>3, <1>2
<1>7. ASSUME NEW k \in g.low .. g.i
      PROVE  b[k] < b[g.i + 1]
  <2>1. k \in 0 .. size - 1
    BY ONLY <1>1, <1>3, k \in g.low .. g.i, size \in Nat
  <2>2. CASE k = x \/ k = y
    <3>1. x \in g.low .. g.i /\ y \in g.low .. g.i
      BY ONLY <2>2, <1>1, <1>4, k \in g.low .. g.i, size \in Nat
    <3>2. b[k] = a[x] \/ b[k] = a[y]
      BY <2>2, <1>2
    <3>3. QED
      BY ONLY <3>1, <3>2, <1>5, <1>6
  <2>3. CASE k # x /\ k # y
    BY ONLY <2>1, <2>3, <1>2, <1>5, <1>6, k \in g.low .. g.i
  <2>4. QED
    BY <2>2, <2>3
<1>8. ASSUME NEW k \in g.i + 2 .. g.hi
      PROVE  b[g.i + 1] <= b[k]
  <2>1. k \in 0 .. size - 1
    BY ONLY <1>1, <1>3, k \in g.i + 2 .. g.hi, size \in Nat
  <2>2. CASE k = x \/ k = y
    <3>1. x \in g.i + 2 .. g.hi /\ y \in g.i + 2 .. g.hi
      BY ONLY <2>2, <1>1, <1>4, k \in g.i + 2 .. g.hi, size \in Nat
    <3>2. b[k] = a[x] \/ b[k] = a[y]
      BY <2>2, <1>2
    <3>3. QED
      BY ONLY <3>1, <3>2, <1>5, <1>6
  <2>3. CASE k # x /\ k # y
    BY ONLY <2>1, <2>3, <1>2, <1>5, <1>6, k \in g.i + 2 .. g.hi
  <2>4. QED
    BY <2>2, <2>3
<1>9. ASSUME g.at = "right"
      PROVE  SortedIn(b, g.low, g.i)
  <2>1. g.i + 2 <= f.low
    BY <1>9 DEF Inside
  <2>2. g.i < x /\ g.i < y
    <3>1. /\ x \in Int /\ f.low <= x /\ f.low \in Int
          /\ y \in Int /\ f.low <= y /\ g.i \in Int
      BY <1>1
    <3>2. QED
      BY ONLY <2>1, <3>1
  <2>3. \A k \in g.low .. g.i : k \in 0 .. size - 1 /\ k # x /\ k # y
    <3>1. x \in Int /\ y \in Int /\ g.low \in Int /\ g.i \in Int
      BY <1>1
    <3>2. 0 <= g.low /\ g.i < size
      <4>1. g.hi \in Int /\ g.i \in Int
        BY <1>1
      <4>2. QED
        BY ONLY <1>3, <4>1, size \in Nat
    <3>3. QED
      BY ONLY <2>2, <3>1, <3>2, size \in Nat
  <2>4. \A k \in g.low .. g.i : b[k] = a[k]
    BY ONLY <1>2, <2>3
  <2>5. SortedIn(a, g.low, g.i)
    BY <1>9 DEF Sorting, LeftSorted
  <2>6. QED
    BY ONLY <2>4, <2>5 DEF SortedIn
<1>10. QED
  BY <1>3, <1>7, <1>8, <1>9 DEF Sorting, LoopSplit, Split, LeftSorted

\* The newest call goes on, perhaps exchanging elements of its part.
LEMMA ReplaceKeeps ==
  ASSUME NEW size \in Nat, NEW a, NEW b, NEW s, Stack(a, s, size), s # <<>>,
         NEW f \in Frame, f.low = s[1].low, f.hi = s[1].hi,
         InBounds(f, size), Sorting(b, f),
         \A g \in Frame : InBounds(g, size) /\ Inside(s[1], g) /\ Sorting(a, g)
                           => Sorting(b, g),
         NEW t, t = <<f>> \o Tail(s)
  PROVE  Stack(b, t, size) /\ t # <<>> /\ t[1] = f
<1>1. s \in Seq(Frame) /\ 1 \in DOMAIN s /\ Len(s) \in Nat
  BY DEF Stack
<1>2. /\ t \in Seq(Frame) /\ t # <<>> /\ Len(t) = Len(s) /\ t[1] = f
      /\ \A q \in DOMAIN t : q # 1 => q \in DOMAIN s /\ t[q] = s[q]
  BY <1>1, ReplacedTop
<1>3. ASSUME NEW q \in DOMAIN t
      PROVE  InBounds(t[q], size)
  BY <1>2 DEF Stack
<1>4. ASSUME NEW m \in DOMAIN t, NEW q \in DOMAIN t, m < q
      PROVE  Inside(t[m], t[q])
  <2>1. q # 1 /\ q \in DOMAIN s /\ t[q] = s[q]
    BY <1>1, <1>2, <1>4
  <2>2. Inside(s[m], s[q]) /\ m \in DOMAIN s
    BY <1>1, <1>2, <1>4, <2>1 DEF Stack
  <2>3. t[m].low = s[m].low /\ t[m].hi = s[m].hi
    BY <1>2
  <2>4. QED
    BY <2>1, <2>2, <2>3 DEF Inside
<1>5. ASSUME NEW q \in DOMAIN t
      PROVE  Sorting(b, t[q])
  <2>1. CASE q = 1
    BY <1>2, <2>1
  <2>2. CASE q # 1
    <3>1. q \in DOMAIN s /\ t[q] = s[q] /\ 1 < q /\ s[q] \in Frame
      BY <1>1, <1>2, <2>2
    <3>2. InBounds(s[q], size) /\ Inside(s[1], s[q]) /\ Sorting(a, s[q])
      BY <3>1, <1>1 DEF Stack
    <3>3. QED
      BY <3>1, <3>2
  <2>3. QED
    BY <2>1, <2>2
<1>6. ASSUME NEW q \in DOMAIN t
      PROVE  t[q].hi - t[q].low + 1 + Len(t) - q <= size
  <2>1. q \in DOMAIN s /\ t[q].low = s[q].low /\ t[q].hi = s[q].hi
    BY <1>1, <1>2
  <2>2. QED
    BY <1>2, <2>1 DEF Stack
<1>7. ASSUME NEW m \in DOMAIN t, NEW q \in DOMAIN t, q = m + 1
      PROVE  Part(t[m], t[q])
  <2>1. q # 1 /\ q \in DOMAIN s /\ m \in DOMAIN s /\ t[q] = s[q]
    BY <1>1, <1>2, <1>7
  <2>2. Part(s[m], s[q])
    BY <1>7, <2>1 DEF Stack
  <2>3. t[m].low = s[m].low /\ t[m].hi = s[m].hi
    BY <1>2
  <2>4. QED
    BY <2>1, <2>2, <2>3 DEF Part
<1>8. ASSUME NEW q \in DOMAIN t, q = Len(t)
      PROVE  t[q].low = 0 /\ t[q].hi = size - 1
  <2>1. q \in DOMAIN s /\ q = Len(s) /\ t[q].low = s[q].low /\ t[q].hi = s[q].hi
    BY <1>1, <1>2, <1>8
  <2>2. QED
    BY <2>1 DEF Stack
<1>9. QED
  BY <1>2, <1>3, <1>4, <1>5, <1>6, <1>7, <1>8 DEF Stack

\* What a call's call makes is inside, too, and smaller.
LEMMA InsideAgain ==
  ASSUME NEW size \in Nat, NEW f \in Frame, NEW g \in Frame,
         InBounds(f, size), InBounds(g, size), Inside(f, g)
  PROVE  /\ f.hi - f.low + 1 <= g.hi - g.low
         /\ \A e \in Frame : InBounds(e, size) /\ Inside(g, e) => Inside(f, e)
<1>1. /\ f.low \in Int /\ f.hi \in Int /\ f.i \in Int
      /\ g.low \in Int /\ g.hi \in Int /\ g.i \in Int
  BY DEF Frame
<1>2. /\ g.low <= g.i + 1 /\ g.i + 1 <= g.hi
      /\ (g.low <= f.low /\ f.hi <= g.i) \/ (g.i + 2 <= f.low /\ f.hi <= g.hi)
  BY DEF Inside, InBounds
<1>3. g.low <= f.low /\ f.hi <= g.hi /\ f.hi - f.low + 1 <= g.hi - g.low
  BY ONLY <1>1, <1>2
<1>4. ASSUME NEW e \in Frame, InBounds(e, size), Inside(g, e)
      PROVE  Inside(f, e)
  <2>1. e.low \in Int /\ e.hi \in Int /\ e.i \in Int
    BY DEF Frame
  <2>2. CASE e.at = "left" /\ e.low <= g.low /\ g.hi <= e.i
    <3>1. e.low <= f.low /\ f.hi <= e.i
      BY ONLY <1>1, <1>3, <2>1, <2>2
    <3>2. QED
      BY <2>2, <3>1 DEF Inside
  <2>3. CASE e.at = "right" /\ e.i + 2 <= g.low /\ g.hi <= e.hi
    <3>1. e.i + 2 <= f.low /\ f.hi <= e.hi
      BY ONLY <1>1, <1>3, <2>1, <2>3
    <3>2. QED
      BY <2>3, <3>1 DEF Inside
  <2>4. QED
    BY <1>4, <2>2, <2>3 DEF Inside
<1>5. QED
  BY <1>3, <1>4

\* The newest call makes another one, for one of its two parts.
LEMMA PushKeeps ==
  ASSUME NEW size \in Nat, NEW a, NEW s, Stack(a, s, size), s # <<>>,
         NEW f \in Frame, f.at = "start", InBounds(f, size),
         Inside(f, s[1]), Part(f, s[1]),
         NEW t, t = <<f>> \o s
  PROVE  Stack(a, t, size)
<1>1. s \in Seq(Frame) /\ 1 \in DOMAIN s /\ Len(s) \in Nat /\ s[1] \in Frame
  BY DEF Stack
<1>2. /\ t \in Seq(Frame) /\ Len(t) = Len(s) + 1 /\ t[1] = f
      /\ \A q \in DOMAIN t : q # 1 => q - 1 \in DOMAIN s /\ t[q] = s[q - 1]
  BY <1>1, PushedTop
<1>3. ASSUME NEW q \in DOMAIN t
      PROVE  InBounds(t[q], size) /\ Sorting(a, t[q])
  <2>1. CASE q = 1
    BY <1>2, <2>1 DEF Sorting, LoopSplit, Split, LeftSorted
  <2>2. CASE q # 1
    BY <1>2, <2>2 DEF Stack
  <2>3. QED
    BY <2>1, <2>2
<1>4. ASSUME NEW m \in DOMAIN t, NEW q \in DOMAIN t, m < q
      PROVE  Inside(t[m], t[q])
  <2>1. q # 1 /\ q - 1 \in DOMAIN s /\ t[q] = s[q - 1]
    BY <1>1, <1>2, <1>4
  <2>2. CASE m # 1
    BY <1>1, <1>2, <1>4, <2>1, <2>2, SMTT(30) DEF Stack
  <2>3. CASE m = 1 /\ q = 2
    BY <1>2, <2>1, <2>3
  <2>4. CASE m = 1 /\ q # 2
    <3>1. 1 < q - 1
      BY <1>1, <2>1, <2>4
    <3>2. Inside(s[1], s[q - 1])
      BY <1>1, <2>1, <3>1 DEF Stack
    <3>3. InBounds(s[1], size)
      BY <1>1 DEF Stack
    <3>4. s[q - 1] \in Frame
      BY <1>1, <2>1
    <3>5. Inside(f, s[q - 1])
      <4>1. InBounds(s[q - 1], size)
        BY <2>1 DEF Stack
      <4>2. QED
        BY <1>1, <3>2, <3>3, <3>4, <4>1, InsideAgain
    <3>6. QED
      BY <1>2, <2>1, <2>4, <3>5
  <2>5. QED
    BY <2>2, <2>3, <2>4
<1>5. ASSUME NEW q \in DOMAIN t
      PROVE  t[q].hi - t[q].low + 1 + Len(t) - q <= size
  <2>1. CASE q = 1
    <3>1. s[1].hi - s[1].low + 1 + Len(s) - 1 <= size
      BY <1>1 DEF Stack
    <3>2. f.hi - f.low + 1 <= s[1].hi - s[1].low
      BY <1>1, InsideAgain DEF Stack
    <3>3. f.hi \in Int /\ f.low \in Int /\ s[1].hi \in Int /\ s[1].low \in Int
      BY <1>1 DEF Frame
    <3>4. QED
      BY <1>1, <1>2, <2>1, <3>1, <3>2, <3>3
  <2>2. CASE q # 1
    <3>1. q - 1 \in DOMAIN s /\ t[q] = s[q - 1]
      BY <1>2, <2>2
    <3>2. s[q - 1].hi - s[q - 1].low + 1 + Len(s) - (q - 1) <= size
      BY <3>1 DEF Stack
    <3>3. s[q - 1].hi \in Int /\ s[q - 1].low \in Int /\ q \in Int
      <4>1. s[q - 1] \in Frame /\ q \in Int
        BY <1>1, <1>2, <3>1
      <4>2. QED
        BY <4>1 DEF Frame
    <3>4. s[q - 1].hi - s[q - 1].low + 1 + Len(t) - q <= size
      <4>1. \A x, y, l, k \in Int : x - y + 1 + l - (k - 1) <= size => x - y + 1 + (l + 1) - k <= size
        OBVIOUS
      <4>2. QED
        BY ONLY <1>1, <1>2, <3>2, <3>3, <4>1
    <3>5. QED
      BY ONLY <3>1, <3>4
  <2>3. QED
    BY <2>1, <2>2
<1>6. ASSUME NEW m \in DOMAIN t, NEW q \in DOMAIN t, q = m + 1
      PROVE  Part(t[m], t[q])
  <2>1. q # 1 /\ q - 1 = m /\ m \in DOMAIN s /\ t[q] = s[m]
    BY <1>1, <1>2, <1>6
  <2>2. CASE m = 1
    BY <1>2, <2>1, <2>2
  <2>3. CASE m # 1
    <3>1. m - 1 \in DOMAIN s /\ t[m] = s[m - 1] /\ m = (m - 1) + 1
      BY <1>1, <1>2, <2>3
    <3>2. QED
      BY <2>1, <3>1 DEF Stack
  <2>4. QED
    BY <2>2, <2>3
<1>7. ASSUME NEW q \in DOMAIN t, q = Len(t)
      PROVE  t[q].low = 0 /\ t[q].hi = size - 1
  <2>1. q # 1 /\ q - 1 \in DOMAIN s /\ q - 1 = Len(s) /\ t[q] = s[q - 1]
    BY <1>1, <1>2, <1>7
  <2>2. QED
    BY <2>1 DEF Stack
<1>8. QED
  BY <1>2, <1>3, <1>4, <1>5, <1>6, <1>7 DEF Stack

\* The newest call returns.
LEMMA PopKeeps ==
  ASSUME NEW size \in Nat, NEW a, NEW s, Stack(a, s, size), s # <<>>, NEW t, t = Tail(s)
  PROVE  Stack(a, t, size)
<1>1. s \in Seq(Frame) /\ Len(s) \in Nat
  BY DEF Stack
<1>2. /\ t \in Seq(Frame) /\ Len(t) = Len(s) - 1
      /\ \A q \in DOMAIN t : q + 1 \in DOMAIN s /\ t[q] = s[q + 1]
  BY <1>1, PoppedTop
<1>3. ASSUME NEW q \in DOMAIN t
      PROVE  /\ InBounds(t[q], size)
             /\ Sorting(a, t[q])
             /\ t[q].hi - t[q].low + 1 + Len(t) - q <= size
  <2>1. q + 1 \in DOMAIN s /\ t[q] = s[q + 1] /\ s[q + 1] \in Frame
    BY <1>1, <1>2
  <2>2. s[q + 1].hi - s[q + 1].low + 1 + Len(s) - (q + 1) <= size
    BY <2>1 DEF Stack
  <2>3. s[q + 1].hi \in Int /\ s[q + 1].low \in Int
    BY <2>1 DEF Frame
  <2>4. t[q].hi - t[q].low + 1 + Len(t) - q <= size
    BY <1>1, <1>2, <2>1, <2>2, <2>3
  <2>5. QED
    BY <2>1, <2>4 DEF Stack
<1>4. ASSUME NEW m \in DOMAIN t, NEW q \in DOMAIN t, m < q
      PROVE  Inside(t[m], t[q])
  BY <1>1, <1>2, <1>4 DEF Stack
<1>5. ASSUME NEW m \in DOMAIN t, NEW q \in DOMAIN t, q = m + 1
      PROVE  Part(t[m], t[q])
  BY <1>1, <1>2, <1>5 DEF Stack
<1>6. ASSUME NEW q \in DOMAIN t, q = Len(t)
      PROVE  t[q].low = 0 /\ t[q].hi = size - 1
  BY <1>1, <1>2, <1>6 DEF Stack
<1>7. QED
  BY <1>2, <1>3, <1>4, <1>5, <1>6 DEF Stack

\* Two sorted parts on the sides of their pivot.
LEMMA JoinSorted ==
  ASSUME NEW size \in Nat, NEW a \in [0 .. size - 1 -> Int], NEW f \in Frame,
         InBounds(f, size), f.at = "right", Sorting(a, f), Returned(a, f)
  PROVE  SortedIn(a, f.low, f.hi)
<1> DEFINE low == f.low  hi == f.hi  p == f.i + 1
<1>1. /\ low \in Int /\ hi \in Int /\ p \in Int
      /\ 0 <= low /\ hi < size /\ low <= p /\ p <= hi /\ f.i = p - 1 /\ f.i + 2 = p + 1
  BY DEF Frame, InBounds
<1>2. /\ \A k \in low .. p - 1 : a[k] < a[p]
      /\ \A k \in p + 1 .. hi : a[p] <= a[k]
  BY <1>1 DEF Sorting, Split
<1>3. /\ SortedIn(a, low, p - 1)
      /\ SortedIn(a, p + 1, hi)
  BY <1>1 DEF Sorting, LeftSorted, Returned
<1>4. \A k \in low .. hi : a[k] \in Int
  BY <1>1
<1> HIDE DEF low, hi, p
<1>5. ASSUME NEW k \in low .. hi, NEW l \in low .. hi, k < l
      PROVE  a[k] <= a[l]
  <2>1. CASE l < p
    <3>1. k \in low .. p - 1 /\ l \in low .. p - 1
      BY ONLY <1>1, <1>5, <2>1, k \in low .. hi, l \in low .. hi
    <3>2. QED
      BY ONLY <1>3, <1>5, <3>1 DEF SortedIn
  <2>2. CASE k > p
    <3>1. k \in p + 1 .. hi /\ l \in p + 1 .. hi
      BY ONLY <1>1, <1>5, <2>2, k \in low .. hi, l \in low .. hi
    <3>2. QED
      BY ONLY <1>3, <1>5, <3>1 DEF SortedIn
  <2>3. CASE k <= p /\ p <= l
    <3>1. k = p \/ k \in low .. p - 1
      BY ONLY <1>1, <2>3, k \in low .. hi
    <3>2. l = p \/ l \in p + 1 .. hi
      BY ONLY <1>1, <2>3, l \in low .. hi
    <3>3. p \in low .. hi
      BY ONLY <1>1
    <3>4. a[k] <= a[p] /\ a[p] <= a[l]
      BY ONLY <1>2, <1>4, <3>1, <3>2, <3>3, k \in low .. hi, l \in low .. hi
    <3>5. QED
      BY ONLY <1>4, <3>3, <3>4, k \in low .. hi, l \in low .. hi
  <2>4. QED
    BY ONLY <1>1, <2>1, <2>2, <2>3, k \in low .. hi, l \in low .. hi
<1>6. SortedIn(a, low, hi)
  BY ONLY <1>5 DEF SortedIn
<1>7. QED
  BY <1>6 DEF low, hi

\* A call that has sorted its part returns to the one that made it, and the
\* oldest has sorted the array.
LEMMA PopReturns ==
  ASSUME NEW size \in Nat, NEW a, NEW s, Stack(a, s, size), s # <<>>,
         SortedIn(a, s[1].low, s[1].hi), NEW t, t = Tail(s)
  PROVE  /\ t = <<>> => SortedIn(a, 0, size - 1)
         /\ t # <<>> => Returned(a, t[1])
<1>1. s \in Seq(Frame) /\ Len(s) \in Nat /\ 1 \in DOMAIN s
  BY DEF Stack
<1>2. /\ t \in Seq(Frame) /\ Len(t) = Len(s) - 1
      /\ \A q \in DOMAIN t : q + 1 \in DOMAIN s /\ t[q] = s[q + 1]
  BY <1>1, PoppedTop
<1>3. ASSUME t = <<>>
      PROVE  SortedIn(a, 0, size - 1)
  <2>1. Len(s) = 1
    <3>1. Len(t) = 0
      BY ONLY <1>3
    <3>2. QED
      BY ONLY <1>1, <1>2, <3>1
  <2>2. s[1].low = 0 /\ s[1].hi = size - 1
    BY <1>1, <2>1 DEF Stack
  <2>3. QED
    BY <2>2
<1>4. ASSUME t # <<>>
      PROVE  Returned(a, t[1])
  <2>1. t[1] = s[2] /\ 2 \in DOMAIN s
    BY <1>1, <1>2, <1>4
  <2>2. Part(s[1], s[2])
    <3>1. 2 = 1 + 1
      OBVIOUS
    <3>2. QED
      BY <1>1, <2>1, <3>1 DEF Stack
  <2>3. QED
    BY <2>1, <2>2 DEF Part, Returned
<1>5. QED
  BY <1>3, <1>4

-----------------------------------------------------------------------------
(* The steps. *)

\* An array on the same places has the same size.
LEMMA SameSize ==
  ASSUME Types, arr_A' \in [0 .. Size - 1 -> Int]
  PROVE  Types' /\ Size' = Size
<1>1. DOMAIN arr_A' = DOMAIN arr_A
  BY DEF Types
<1>2. Size' = Size
  BY <1>1 DEF Size
<1>3. QED
  BY <1>2 DEF Types

\* The newest call.
LEMMA TopOfStack ==
  ASSUME IInv, frames # <<>>
  PROVE  /\ Top \in Frame /\ Size \in Nat
         /\ Top.low \in Int /\ Top.hi \in Int /\ Top.i \in Int /\ Top.j \in Int
         /\ InBounds(Top, Size) /\ Sorting(arr_A, Top)
<1>1. frames \in Seq(Frame) /\ 1 \in DOMAIN frames
  BY DEF IInv, Stack
<1>2. Top \in Frame
  BY <1>1 DEF Top
<1>3. /\ InBounds(Top, Size) /\ Sorting(arr_A, Top)
  BY <1>1 DEF IInv, Stack, Top
<1>4. QED
  BY <1>2, <1>3 DEF Frame, IInv, Types

\* A call just made has sorted nothing.
LEMMA NewCall ==
  ASSUME NEW f \in Frame, f.at = "start", NEW t, t \in Seq(Frame), frames' = <<f>> \o t
  PROVE  frames' # <<>> /\ TopReturned'
<1>1. frames' # <<>> /\ frames'[1] = f
  OBVIOUS
<1>2. QED
  BY <1>1 DEF TopReturned, Returned, Top

\* A call that has sorted its part is taken off the stack.
LEMMA ReturnStep ==
  ASSUME IInv, frames # <<>>, arr_A' = arr_A, frames' = Tail(frames),
         SortedIn(arr_A, Top.low, Top.hi)
  PROVE  IInv' /\ (frames' = <<>> => SortedIn(arr_A', 0, Size' - 1))
<1>1. Types' /\ Size' = Size /\ Size \in Nat
  BY SameSize DEF IInv, Types
<1>2. Stack(arr_A, frames, Size) /\ SortedIn(arr_A, frames[1].low, frames[1].hi)
  BY DEF IInv, Top
<1>3. Stack(arr_A, frames', Size)
  BY ONLY <1>1, <1>2, frames # <<>>, frames' = Tail(frames), PopKeeps
<1>4. frames' = <<>> => SortedIn(arr_A, 0, Size - 1)
  BY ONLY <1>1, <1>2, frames # <<>>, frames' = Tail(frames), PopReturns
<1>5. frames' # <<>> => Returned(arr_A, frames'[1])
  BY ONLY <1>1, <1>2, frames # <<>>, frames' = Tail(frames), PopReturns
<1>6. TopReturned'
  BY <1>5 DEF TopReturned, Top
<1>7. QED
  BY <1>1, <1>3, <1>4, <1>6 DEF IInv

\* sort is entered, and partitions or returns.
LEMMA StartSortStep ==
  ASSUME IInv, StartSort
  PROVE  IInv' /\ (frames' = <<>> => SortedIn(arr_A', 0, Size' - 1))
<1>1. /\ frames # <<>> /\ Top.at = "start" /\ arr_A' = arr_A
      /\ frames' = IF Top.low < Top.hi THEN Replaced([Top EXCEPT !.at = "loop"]) ELSE Tail(frames)
  BY DEF StartSort
<1>2. CASE Top.low < Top.hi
  <2> DEFINE f == [Top EXCEPT !.at = "loop"]
  <2>1. /\ f \in Frame /\ f.at = "loop" /\ f.low = Top.low /\ f.hi = Top.hi
        /\ f.i = f.low - 1 /\ f.j = f.low /\ f.low \in Int /\ f.hi \in Int
        /\ f.low < f.hi /\ 0 <= f.low /\ f.hi < Size /\ Size \in Nat
    BY <1>1, <1>2, TopOfStack DEF Frame, InBounds
  <2>2. frames' = <<f>> \o Tail(frames)
    BY <1>1, <1>2 DEF Replaced
  <2> HIDE DEF f
  <2>3. InBounds(f, Size) /\ Sorting(arr_A, f)
    BY <2>1 DEF InBounds, Sorting, LoopSplit, Split, LeftSorted
  <2>4. Top = frames[1] /\ Stack(arr_A, frames, Size)
    BY DEF IInv, Top
  <2>5. Stack(arr_A, frames', Size)
    BY ONLY <1>1, <2>1, <2>2, <2>3, <2>4, ReplaceKeeps
  <2>6. frames' # <<>> /\ frames'[1] = f
    BY ONLY <1>1, <2>1, <2>2, <2>3, <2>4, ReplaceKeeps, SMTT(30)
  <2>7. TopReturned'
    BY <2>1, <2>6 DEF TopReturned, Returned, Top
  <2>8. Types' /\ Size' = Size
    BY <1>1, SameSize DEF IInv, Types
  <2>9. QED
    BY <1>1, <2>5, <2>6, <2>7, <2>8 DEF IInv
<1>3. CASE ~(Top.low < Top.hi)
  <2>1. SortedIn(arr_A, Top.low, Top.hi)
    BY <1>1, <1>3, TopOfStack DEF SortedIn
  <2>2. QED
    BY <1>1, <1>3, <2>1, ReturnStep
<1>4. QED
  BY <1>2, <1>3

\* sort returns.
LEMMA EndSortStep ==
  ASSUME IInv, EndSort
  PROVE  IInv' /\ (frames' = <<>> => SortedIn(arr_A', 0, Size' - 1))
<1>1. frames # <<>> /\ Top.at = "right" /\ arr_A' = arr_A /\ frames' = Tail(frames)
  BY DEF EndSort
<1>2. /\ Top \in Frame /\ Size \in Nat /\ arr_A \in [0 .. Size - 1 -> Int]
      /\ InBounds(Top, Size) /\ Sorting(arr_A, Top)
  BY <1>1, TopOfStack DEF IInv, Types
<1>3. Returned(arr_A, Top)
  BY <1>1 DEF IInv, TopReturned
<1>4. SortedIn(arr_A, Top.low, Top.hi)
  BY ONLY <1>1, <1>2, <1>3, JoinSorted
<1>5. QED
  BY <1>1, <1>4, ReturnStep

\* sort calls itself for the right part.
LEMMA SortRightStep ==
  ASSUME IInv, SortRight
  PROVE  IInv' /\ frames' # <<>>
<1> DEFINE f == [Top EXCEPT !.at = "right"]
           call == Call(Top.i + 2, Top.hi)
           t == <<f>> \o Tail(frames)
<1>1. /\ frames # <<>> /\ Top.at = "left" /\ arr_A' = arr_A
      /\ frames' = <<call>> \o t
  BY DEF SortRight, Replaced
<1>2. Types' /\ Size' = Size
  BY <1>1, SameSize DEF IInv, Types
<1>3. /\ f \in Frame /\ f.at = "right" /\ f.low = Top.low /\ f.hi = Top.hi /\ f.i = Top.i
      /\ f.low \in Int /\ f.hi \in Int /\ f.i \in Int /\ Size \in Nat
      /\ 0 <= f.low /\ f.hi < Size /\ f.low <= f.i + 1 /\ f.i + 1 <= f.hi
  <2>1. /\ Top \in Frame /\ Size \in Nat /\ 0 <= Top.low /\ Top.hi < Size
        /\ Top.low <= Top.i + 1 /\ Top.i + 1 <= Top.hi
    BY <1>1, TopOfStack DEF InBounds
  <2>2. f \in Frame /\ f.at = "right" /\ f.low = Top.low /\ f.hi = Top.hi /\ f.i = Top.i
    BY ONLY <2>1 DEF Frame
  <2>3. f.low \in Int /\ f.hi \in Int /\ f.i \in Int
    BY ONLY <2>2 DEF Frame
  <2>4. QED
    BY ONLY <2>1, <2>2, <2>3
<1>4. /\ call \in Frame /\ call.at = "start" /\ call.low = f.i + 2 /\ call.hi = f.hi
      /\ call.i = call.low - 1 /\ call.j = call.low
  BY <1>3 DEF Call, Frame
<1>5. Sorting(arr_A, f)
  <2>1. Sorting(arr_A, Top)
    BY <1>1, TopOfStack
  <2>2. SortedIn(arr_A, f.low, f.i)
    BY <1>1, <1>3 DEF IInv, TopReturned, Returned
  <2>3. QED
    BY <1>1, <1>3, <2>1, <2>2 DEF Sorting, LoopSplit, Split, LeftSorted
<1>6. t = <<f>> \o Tail(frames)
  OBVIOUS
<1> HIDE DEF f, call, t
<1>7. InBounds(f, Size) /\ InBounds(call, Size) /\ Inside(call, f) /\ Part(call, f)
  BY <1>3, <1>4 DEF InBounds, Inside, Part
<1>8. Stack(arr_A, t, Size) /\ t # <<>> /\ t[1] = f
  <2>1. /\ Stack(arr_A, frames, Size) /\ f.low = frames[1].low /\ f.hi = frames[1].hi
    BY <1>3 DEF IInv, Top
  <2>2. Stack(arr_A, t, Size)
    BY ONLY <1>1, <1>3, <1>5, <1>6, <1>7, <2>1, ReplaceKeeps
  <2>3. t # <<>>
    BY ONLY <1>1, <1>3, <1>5, <1>6, <1>7, <2>1, ReplaceKeeps
  <2>4. t[1] = f
    BY ONLY <1>1, <1>3, <1>5, <1>6, <1>7, <2>1, ReplaceKeeps
  <2>5. QED
    BY <2>2, <2>3, <2>4
<1>9. Stack(arr_A, frames', Size)
  BY <1>1, <1>3, <1>4, <1>7, <1>8, PushKeeps
<1>10. frames' # <<>> /\ TopReturned'
  BY <1>1, <1>4, <1>8, NewCall DEF Stack
<1>11. QED
  BY <1>1, <1>2, <1>9, <1>10 DEF IInv

\* An element smaller than the pivot joins those found before it.
LEMMA PassKeepsSplit ==
  ASSUME NEW size \in Nat, NEW a \in [0 .. size - 1 -> Int],
         NEW f \in Frame, f.at = "loop", InBounds(f, size), LoopSplit(a, f),
         f.j < f.hi, a[f.j] < a[f.hi], NEW b, b = Swapped(a, f.i + 1, f.j),
         NEW g \in Frame, g.at = "loop", g.low = f.low, g.hi = f.hi,
         g.i = f.i + 1, g.j = f.j + 1
  PROVE  LoopSplit(b, g)
<1> DEFINE low == f.low  hi == f.hi  i == f.i  j == f.j
<1>1. /\ low \in Int /\ hi \in Int /\ i \in Int /\ j \in Int
      /\ 0 <= low /\ hi < size /\ low <= i + 1 /\ i < j /\ j < hi
      /\ i + 1 \in 0 .. size - 1 /\ j \in 0 .. size - 1 /\ hi \in 0 .. size - 1
  BY SMTT(30) DEF Frame, InBounds
<1>2. /\ \A k \in low .. i : a[k] < a[hi]
      /\ \A k \in i + 1 .. j - 1 : a[hi] <= a[k]
      /\ a[j] < a[hi]
  BY DEF LoopSplit
<1>3. /\ b = Swapped(a, i + 1, j) /\ g.low = low /\ g.hi = hi
      /\ g.i = i + 1 /\ g.j = j + 1
  OBVIOUS
<1> HIDE DEF low, hi, i, j
<1>4. /\ b[j] = a[i + 1] /\ b[i + 1] = a[j] /\ b[hi] = a[hi]
      /\ \A k \in 0 .. size - 1 : k # i + 1 /\ k # j => b[k] = a[k]
  <2>1. /\ b[j] = a[i + 1] /\ b[i + 1] = a[j]
        /\ \A k \in 0 .. size - 1 : k # i + 1 /\ k # j => b[k] = a[k]
    BY <1>1, <1>3, SwapTwo, SMTT(30)
  <2>2. hi # i + 1 /\ hi # j
    BY ONLY <1>1
  <2>3. QED
    BY <1>1, <2>1, <2>2
<1>5. ASSUME NEW k \in low .. i + 1
      PROVE  b[k] < b[hi]
  <2>1. CASE k = i + 1
    BY ONLY <1>2, <1>4, <2>1
  <2>2. CASE k # i + 1
    <3>1. k \in low .. i /\ k \in 0 .. size - 1 /\ k # j
      BY ONLY <1>1, <2>2, size \in Nat, k \in low .. i + 1
    <3>2. QED
      BY ONLY <3>1, <2>2, <1>2, <1>4
  <2>3. QED
    BY <2>1, <2>2
<1>6. ASSUME NEW k \in i + 2 .. j
      PROVE  b[hi] <= b[k]
  <2>1. CASE k = j
    <3>1. i + 1 \in i + 1 .. j - 1
      BY ONLY <1>1, <2>1, k \in i + 2 .. j
    <3>2. QED
      BY ONLY <3>1, <2>1, <1>2, <1>4
  <2>2. CASE k # j
    <3>1. k \in i + 1 .. j - 1 /\ k \in 0 .. size - 1 /\ k # i + 1
      BY ONLY <1>1, <2>2, size \in Nat, k \in i + 2 .. j
    <3>2. QED
      BY ONLY <3>1, <2>2, <1>2, <1>4
  <2>3. QED
    BY <2>1, <2>2
<1>7. QED
  <2>1. g.j - 1 = j /\ g.i + 1 = i + 2
    BY ONLY <1>1, <1>3
  <2>2. QED
    BY <1>3, <1>5, <1>6, <2>1 DEF LoopSplit

\* The pivot goes between the smaller elements and the others.
LEMMA EndKeepsSplit ==
  ASSUME NEW size \in Nat, NEW a \in [0 .. size - 1 -> Int],
         NEW f \in Frame, f.at = "loop", InBounds(f, size), LoopSplit(a, f), f.j = f.hi,
         NEW b, b = IF a[f.hi] < a[f.i + 1] THEN Swapped(a, f.i + 1, f.hi) ELSE a,
         NEW g \in Frame, g.low = f.low, g.hi = f.hi, g.i = f.i
  PROVE  b \in [0 .. size - 1 -> Int] /\ Split(b, g)
<1> DEFINE low == f.low  hi == f.hi  i == f.i
<1>1. /\ low \in Int /\ hi \in Int /\ i \in Int
      /\ 0 <= low /\ hi < size /\ low <= i + 1 /\ i < hi
      /\ i + 1 \in 0 .. size - 1 /\ hi \in 0 .. size - 1
      /\ a[hi] \in Int /\ a[i + 1] \in Int
  BY DEF Frame, InBounds
<1>2. /\ \A k \in low .. i : a[k] < a[hi]
      /\ \A k \in i + 1 .. hi - 1 : a[hi] <= a[k]
  BY DEF LoopSplit
<1>3. b = IF a[hi] < a[i + 1] THEN Swapped(a, i + 1, hi) ELSE a
  OBVIOUS
<1>4. g.low = low /\ g.hi = hi /\ g.i = i
  OBVIOUS
<1> HIDE DEF low, hi, i
<1>5. CASE a[hi] < a[i + 1]
  <2>1. /\ b \in [0 .. size - 1 -> Int] /\ b[hi] = a[i + 1] /\ b[i + 1] = a[hi]
        /\ \A k \in 0 .. size - 1 : k # i + 1 /\ k # hi => b[k] = a[k]
    BY <1>1, <1>3, <1>5, SwapTwo
  <2>2. ASSUME NEW k \in low .. i
        PROVE  b[k] < b[i + 1]
    <3>1. k \in 0 .. size - 1 /\ k # i + 1 /\ k # hi
      BY ONLY <1>1, size \in Nat, k \in low .. i
    <3>2. QED
      BY ONLY <1>2, <2>1, <3>1, k \in low .. i
  <2>3. ASSUME NEW k \in i + 2 .. hi
        PROVE  b[i + 1] <= b[k]
    <3>1. CASE k = hi
      BY ONLY <1>1, <1>5, <2>1, <3>1
    <3>2. CASE k # hi
      <4>1. k \in i + 1 .. hi - 1 /\ k \in 0 .. size - 1 /\ k # i + 1
        BY ONLY <1>1, <3>2, size \in Nat, k \in i + 2 .. hi
      <4>2. QED
        BY ONLY <1>2, <2>1, <3>2, <4>1
    <3>3. QED
      BY <3>1, <3>2
  <2>4. QED
    BY <1>4, <2>1, <2>2, <2>3 DEF Split
<1>6. CASE ~(a[hi] < a[i + 1])
  <2>1. b = a
    BY ONLY <1>3, <1>6
  <2>2. a[i + 1] = a[hi]
    <3>1. CASE i + 1 = hi
      BY ONLY <3>1
    <3>2. CASE i + 1 # hi
      <4>1. i + 1 \in i + 1 .. hi - 1
        BY ONLY <1>1, <3>2
      <4>2. a[hi] <= a[i + 1]
        BY ONLY <1>2, <4>1
      <4>3. QED
        BY ONLY <1>1, <1>6, <4>2
    <3>3. QED
      BY <3>1, <3>2
  <2>3. ASSUME NEW k \in i + 2 .. hi
        PROVE  b[i + 1] <= b[k]
    <3>1. CASE k = hi
      BY ONLY <1>1, <2>1, <2>2, <3>1
    <3>2. CASE k # hi
      <4>1. k \in i + 1 .. hi - 1
        BY ONLY <1>1, <3>2, k \in i + 2 .. hi
      <4>2. QED
        BY ONLY <1>2, <2>1, <2>2, <4>1
    <3>3. QED
      BY <3>1, <3>2
  <2>4. QED
    BY <1>2, <1>4, <2>1, <2>2, <2>3 DEF Split
<1>7. QED
  BY <1>5, <1>6

\* Calls that wait see an exchange within one of their sides.
LEMMA ExchangeBelow ==
  ASSUME IInv, frames # <<>>,
         NEW x \in Top.low .. Top.hi, NEW y \in Top.low .. Top.hi,
         NEW b, b = Swapped(arr_A, x, y),
         NEW g \in Frame, InBounds(g, Size), Inside(Top, g), Sorting(arr_A, g)
  PROVE  Sorting(b, g)
<1>1. /\ Size \in Nat /\ arr_A \in [0 .. Size - 1 -> Int]
      /\ Top \in Frame /\ InBounds(Top, Size)
  BY TopOfStack DEF IInv, Types
<1>2. QED
  BY <1>1, SwapKeepsSplit

\* The loop of the newest call goes on.
LEMMA LoopGoesOn ==
  ASSUME IInv, frames # <<>>, NEW f \in Frame, f.at = "loop",
         f.low = Top.low, f.hi = Top.hi, frames' = <<f>> \o Tail(frames),
         InBounds(f, Size), LoopSplit(arr_A', f), arr_A' \in [0 .. Size - 1 -> Int],
         \A g \in Frame : InBounds(g, Size) /\ Inside(Top, g) /\ Sorting(arr_A, g)
                           => Sorting(arr_A', g)
  PROVE  IInv' /\ frames' # <<>>
<1>1. /\ Stack(arr_A, frames, Size) /\ f.low = frames[1].low /\ f.hi = frames[1].hi
      /\ \A g \in Frame : InBounds(g, Size) /\ Inside(frames[1], g) /\ Sorting(arr_A, g)
                           => Sorting(arr_A', g)
  BY DEF IInv, Top
<1>2. /\ Size \in Nat /\ frames # <<>> /\ f \in Frame /\ InBounds(f, Size)
      /\ Sorting(arr_A', f) /\ frames' = <<f>> \o Tail(frames)
  BY DEF IInv, Types, Sorting, Split, LeftSorted
<1>3. Stack(arr_A', frames', Size)
  BY ONLY <1>1, <1>2, ReplaceKeeps
<1>4. frames' # <<>> /\ frames'[1] = f
  BY ONLY <1>1, <1>2, ReplaceKeeps
<1>5. TopReturned'
  BY <1>4 DEF TopReturned, Returned, Top
<1>6. Types' /\ Size' = Size
  BY SameSize DEF IInv
<1>7. QED
  BY <1>3, <1>4, <1>5, <1>6 DEF IInv

\* One element of the part is compared with the pivot.
LEMMA PartitionPassStep ==
  ASSUME IInv, PartitionPass
  PROVE  IInv' /\ frames' # <<>>
<1>1. frames # <<>> /\ Top.at = "loop" /\ Top.j < Top.hi
  BY DEF PartitionPass
<1>2. /\ Top \in Frame /\ Size \in Nat /\ arr_A \in [0 .. Size - 1 -> Int]
      /\ Top.low \in Int /\ Top.hi \in Int /\ Top.i \in Int /\ Top.j \in Int
  BY <1>1, TopOfStack DEF IInv, Types
<1>3. /\ 0 <= Top.low /\ Top.hi < Size /\ Top.low <= Top.i + 1
      /\ Top.i < Top.j /\ Top.j <= Top.hi
      /\ InBounds(Top, Size) /\ LoopSplit(arr_A, Top)
  BY <1>1, TopOfStack DEF InBounds, Sorting
<1>4. CASE arr_A[Top.j] < arr_A[Top.hi]
  <2> DEFINE f == [Top EXCEPT !.i = @ + 1, !.j = @ + 1]
  <2>1. /\ frames' = <<f>> \o Tail(frames)
        /\ arr_A' = Swapped(arr_A, Top.i + 1, Top.j)
    BY <1>4 DEF PartitionPass, Replaced
  <2>2. /\ f \in Frame /\ f.at = "loop" /\ f.low = Top.low /\ f.hi = Top.hi
        /\ f.i = Top.i + 1 /\ f.j = Top.j + 1
    <3>1. Top.i + 1 \in Int /\ Top.j + 1 \in Int
      BY ONLY <1>2
    <3>2. QED
      BY ONLY <1>1, <1>2, <3>1 DEF Frame
  <2> HIDE DEF f
  <2>3. InBounds(f, Size)
    <3>1. f.i < f.j /\ f.j <= f.hi /\ f.low <= f.i + 1 /\ f.low <= f.hi + 1
      BY ONLY <1>1, <1>2, <1>3, <2>2, SMTT(30)
    <3>2. QED
      BY ONLY <1>3, <2>2, <3>1 DEF InBounds
  <2>4. LoopSplit(arr_A', f)
    BY ONLY <1>1, <1>2, <1>3, <1>4, <2>1, <2>2, PassKeepsSplit
  <2>5. Top.i + 1 \in Top.low .. Top.hi /\ Top.j \in Top.low .. Top.hi
    BY <1>1, <1>2, <1>3
  <2>6. \A g \in Frame : InBounds(g, Size) /\ Inside(Top, g) /\ Sorting(arr_A, g)
                          => Sorting(arr_A', g)
    BY <1>1, <2>1, <2>5, ExchangeBelow
  <2>7. arr_A' \in [0 .. Size - 1 -> Int]
    <3>1. Top.i + 1 \in 0 .. Size - 1 /\ Top.j \in 0 .. Size - 1
      BY <1>1, <1>2, <1>3
    <3>2. arr_A' = Swapped(arr_A, Top.i + 1, Top.j)
      BY <2>1
    <3>3. Size \in Nat /\ arr_A \in [0 .. Size - 1 -> Int]
      BY <1>2
    <3>4. QED
      BY ONLY <3>1, <3>2, <3>3, SwapTwo
  <2>8. QED
    BY ONLY IInv, <1>1, <2>1, <2>2, <2>3, <2>4, <2>6, <2>7, LoopGoesOn
<1>5. CASE ~(arr_A[Top.j] < arr_A[Top.hi])
  <2> DEFINE f == [Top EXCEPT !.j = @ + 1]
  <2>1. frames' = <<f>> \o Tail(frames) /\ arr_A' = arr_A
    BY <1>5 DEF PartitionPass, Replaced
  <2>2. /\ f \in Frame /\ f.at = "loop" /\ f.low = Top.low /\ f.hi = Top.hi
        /\ f.i = Top.i /\ f.j = Top.j + 1
    BY ONLY <1>1, <1>2 DEF Frame
  <2> HIDE DEF f
  <2>3. InBounds(f, Size)
    <3>1. f.i < f.j /\ f.j <= f.hi /\ f.low <= f.i + 1 /\ f.low <= f.hi + 1
      BY ONLY <1>1, <1>2, <1>3, <2>2, SMTT(30)
    <3>2. QED
      BY ONLY <1>3, <2>2, <3>1 DEF InBounds
  <2>4. arr_A[Top.hi] <= arr_A[Top.j]
    BY <1>1, <1>2, <1>3, <1>5, SMTT(30)
  <2>5. \A k \in f.i + 1 .. f.j - 1 : k \in Top.i + 1 .. Top.j - 1 \/ k = Top.j
    BY <1>2, <2>2
  <2>6. LoopSplit(arr_A', f)
    <3>1. /\ \A k \in Top.low .. Top.i : arr_A[k] < arr_A[Top.hi]
          /\ \A k \in Top.i + 1 .. Top.j - 1 : arr_A[Top.hi] <= arr_A[k]
      BY <1>1, <1>3 DEF LoopSplit
    <3>2. \A k \in f.i + 1 .. f.j - 1 : arr_A[f.hi] <= arr_A[k]
      BY ONLY <2>2, <2>4, <2>5, <3>1
    <3>3. QED
      BY <2>1, <2>2, <3>1, <3>2 DEF LoopSplit
  <2>7. \A g \in Frame : InBounds(g, Size) /\ Inside(Top, g) /\ Sorting(arr_A, g)
                          => Sorting(arr_A', g)
    BY <2>1
  <2>8. QED
    BY ONLY IInv, <1>1, <1>2, <2>1, <2>2, <2>3, <2>6, <2>7, LoopGoesOn
<1>6. QED
  BY <1>4, <1>5

\* The pivot is put in its place, and sort calls itself for the left part.
LEMMA EndPartitionStep ==
  ASSUME IInv, EndPartition
  PROVE  IInv' /\ frames' # <<>>
<1> DEFINE f == [Top EXCEPT !.at = "left"]
           call == Call(Top.low, Top.i)
           t == <<f>> \o Tail(frames)
<1>1. /\ frames # <<>> /\ Top.at = "loop" /\ Top.j = Top.hi
      /\ frames' = <<call>> \o t
      /\ arr_A' = IF arr_A[Top.hi] < arr_A[Top.i + 1]
                    THEN Swapped(arr_A, Top.i + 1, Top.hi) ELSE arr_A
  BY DEF EndPartition, Replaced
<1>2. /\ Top \in Frame /\ Size \in Nat /\ arr_A \in [0 .. Size - 1 -> Int]
      /\ Top.low \in Int /\ Top.hi \in Int /\ Top.i \in Int
  BY <1>1, TopOfStack DEF IInv, Types
<1>3. /\ 0 <= Top.low /\ Top.hi < Size /\ Top.low <= Top.i + 1 /\ Top.i < Top.hi
      /\ InBounds(Top, Size) /\ LoopSplit(arr_A, Top)
  BY <1>1, TopOfStack DEF InBounds, Sorting
<1>4. /\ f \in Frame /\ f.at = "left" /\ f.low = Top.low /\ f.hi = Top.hi /\ f.i = Top.i
  BY ONLY <1>2 DEF Frame
<1>5. /\ call \in Frame /\ call.at = "start" /\ call.low = Top.low /\ call.hi = Top.i
      /\ call.i = call.low - 1 /\ call.j = call.low
  BY ONLY <1>2 DEF Call, Frame
<1>6. t = <<f>> \o Tail(frames)
  OBVIOUS
<1> HIDE DEF f, call, t
<1>7. arr_A' \in [0 .. Size - 1 -> Int] /\ Split(arr_A', f)
  BY ONLY <1>1, <1>2, <1>3, <1>4, EndKeepsSplit
<1>8. Sorting(arr_A', f)
  BY <1>4, <1>7 DEF Sorting, LoopSplit, LeftSorted
<1>9. InBounds(f, Size) /\ InBounds(call, Size) /\ Inside(call, f) /\ Part(call, f)
  BY <1>2, <1>3, <1>4, <1>5 DEF InBounds, Inside, Part
<1>10. \A g \in Frame : InBounds(g, Size) /\ Inside(Top, g) /\ Sorting(arr_A, g)
                         => Sorting(arr_A', g)
  <2>1. Top.i + 1 \in Top.low .. Top.hi /\ Top.hi \in Top.low .. Top.hi
    BY <1>2, <1>3
  <2>2. CASE arr_A[Top.hi] < arr_A[Top.i + 1]
    BY <1>1, <2>1, <2>2, ExchangeBelow
  <2>3. CASE ~(arr_A[Top.hi] < arr_A[Top.i + 1])
    BY <1>1, <2>3
  <2>4. QED
    BY <2>2, <2>3
<1>11. Stack(arr_A', t, Size) /\ t # <<>> /\ t[1] = f
  <2>1. /\ Size \in Nat /\ frames # <<>> /\ f \in Frame
        /\ InBounds(f, Size) /\ Sorting(arr_A', f)
        /\ Stack(arr_A, frames, Size) /\ t = <<f>> \o Tail(frames)
        /\ f.low = frames[1].low /\ f.hi = frames[1].hi
    BY <1>1, <1>2, <1>4, <1>6, <1>8, <1>9 DEF IInv, Top
  <2>2. \A g \in Frame : InBounds(g, Size) /\ Inside(frames[1], g) /\ Sorting(arr_A, g)
                          => Sorting(arr_A', g)
    BY <1>10 DEF Top
  <2>3. Stack(arr_A', t, Size)
    BY ONLY <2>1, <2>2, ReplaceKeeps
  <2>4. t # <<>>
    BY ONLY <2>1, <2>2, ReplaceKeeps
  <2>5. t[1] = f
    BY ONLY <2>1, <2>2, ReplaceKeeps
  <2>6. QED
    BY <2>3, <2>4, <2>5
<1>12. Stack(arr_A', frames', Size)
  BY <1>1, <1>2, <1>5, <1>9, <1>11, PushKeeps
<1>13. Types' /\ Size' = Size
  BY <1>7, SameSize DEF IInv
<1>14. frames' # <<>> /\ TopReturned'
  BY <1>1, <1>5, <1>11, NewCall DEF Stack
<1>15. QED
  BY <1>12, <1>13, <1>14 DEF IInv

\* A step that sorts nothing.
LEMMA NotSorting ==
  ASSUME IInv, UNCHANGED sortVars
  PROVE  IInv' /\ Size' = Size
<1>1. arr_A' = arr_A /\ frames' = frames
  BY DEF sortVars
<1>2. Types' /\ Size' = Size
  BY <1>1, SameSize DEF IInv, Types
<1>3. TopReturned'
  BY <1>1 DEF IInv, TopReturned, Top
<1>4. QED
  BY <1>1, <1>2, <1>3 DEF IInv

\* main calls sort for the whole array, which may be empty.
LEMMA MainCallStep ==
  ASSUME IInv, MainCall
  PROVE  IInv' /\ (task = "qsort" => frames' # <<>>)
<1>1. CASE task = "qsort"
  <2> DEFINE call == Call(0, Size - 1)
  <2>1. arr_A' = arr_A /\ frames' = <<call>>
    BY <1>1 DEF MainCall, Size
  <2>2. Types' /\ Size' = Size /\ Size \in Nat
    BY <2>1, SameSize DEF IInv, Types
  <2>3. /\ call \in Frame /\ call.at = "start" /\ call.low = 0 /\ call.hi = Size - 1
        /\ call.i = call.low - 1 /\ call.j = call.low
    BY ONLY <2>2 DEF Call, Frame
  <2> HIDE DEF call
  <2>4. InBounds(call, Size)
    BY <2>2, <2>3 DEF InBounds
  <2>5. Sorting(arr_A, call)
    BY <2>3 DEF Sorting, LoopSplit, Split, LeftSorted
  <2>6. /\ frames' \in Seq(Frame) /\ Len(frames') = 1
        /\ \A q \in DOMAIN frames' : q = 1 /\ frames'[q] = call
    BY ONLY <2>1, <2>3
  <2>7. frames' # <<>> /\ frames'[1] = call
    BY ONLY <2>1
  <2>8. TopReturned'
    BY <2>7, <2>3 DEF TopReturned, Returned, Top
  <2>9. \A q \in DOMAIN frames' : frames'[q].hi - frames'[q].low + 1 + Len(frames') - q <= Size
    BY ONLY <2>2, <2>3, <2>6
  <2>10. Stack(arr_A, frames', Size)
    <3>1. \A q \in DOMAIN frames' : frames'[q].low = 0 /\ frames'[q].hi = Size - 1
      BY ONLY <2>3, <2>6
    <3>2. \A m, q \in DOMAIN frames' : ~(m < q) /\ q # m + 1
      BY ONLY <2>6
    <3>3. QED
      BY ONLY <2>4, <2>5, <2>6, <2>9, <3>1, <3>2 DEF Stack
  <2>11. QED
    BY <2>1, <2>2, <2>7, <2>8, <2>10 DEF IInv
<1>2. CASE task # "qsort"
  BY <1>2, NotSorting DEF MainCall, sortVars
<1>3. QED
  BY <1>1, <1>2

\* What sort does keeps what is known of its calls, and ends with the array
\* sorted.
LEMMA SortKeeps ==
  ASSUME IInv, SortStep
  PROVE  IInv' /\ (frames' = <<>> => SortedIn(arr_A', 0, Size' - 1))
  BY StartSortStep, PartitionPassStep, EndPartitionStep, SortRightStep, EndSortStep DEF SortStep

\* The stack is empty, and the array sorted, when sort has returned and while
\* the array is shown.
SortFinished ==
  task = "qsort" /\ (stage = "show" \/ (stage = "compute" /\ frames = <<>>)) =>
    SortedIn(arr_A, 0, Size - 1)

\* Every step keeps what is known of the calls and of the array.
LEMMA NextKeeps ==
  ASSUME IInv, SortFinished, Next
  PROVE  IInv' /\ SortFinished'
<1>1. CASE UNCHANGED <<sortVars, task, stage>>
  BY <1>1, NotSorting DEF SortFinished, sortVars
<1>2. CASE BenchStep
  BY <1>1, <1>2 DEF BenchStep, mainVars
<1>3. CASE matmul \/ firfilter \/ firLab4 \/ MainShow
  BY <1>1, <1>3 DEF matmul, firfilter, firLab4, MainShow
<1>4. CASE qsort
  BY <1>4, SortKeeps DEF qsort, SortFinished, mainVars
<1>5. CASE MainCall
  <2>1. IInv' /\ task' = task /\ stage' # "show" /\ (task = "qsort" => frames' # <<>>)
    BY <1>5, MainCallStep DEF MainCall
  <2>2. QED
    BY <2>1 DEF SortFinished
<1>6. CASE MainReturn
  <2>1. UNCHANGED sortVars /\ task' = task /\ (task = "qsort" => stage = "compute" /\ frames = <<>>)
    BY <1>6 DEF MainReturn, Computed
  <2>2. QED
    BY <2>1, NotSorting DEF SortFinished, sortVars
<1>7. CASE initfir \/ MainStart \/ MainNext \/ MainEnd
  <2>1. /\ UNCHANGED sortVars
        /\ stage' \in {"flag", "end"} \/ task' # "qsort"
    BY <1>7 DEF initfir, MainStart, MainNext, MainEnd
  <2>2. QED
    BY <2>1, NotSorting DEF SortFinished
<1>8. QED
  BY <1>2, <1>3, <1>4, <1>5, <1>6, <1>7 DEF Next, MainStep

\* No call has been made.
LEMMA InitSorts == Init => IInv /\ SortFinished
<1> SUFFICES ASSUME Init
             PROVE  IInv /\ SortFinished
  OBVIOUS
<1>1. Types
  BY ArraysAssumption DEF Init, Types, Size
<1>2. frames = <<>>
  BY DEF Init
<1>3. Stack(arr_A, frames, Size)
  BY ONLY <1>2 DEF Stack
<1>4. TopReturned /\ SortFinished
  BY <1>2 DEF Init, TopReturned, SortFinished
<1>5. QED
  BY <1>1, <1>3, <1>4 DEF IInv

-----------------------------------------------------------------------------
\* Whatever is on the stack of sort fits its array, and is sorting it.
THEOREM Invariance == Spec => [](IInv /\ SortFinished)
<1>1. IInv /\ SortFinished /\ UNCHANGED vars => IInv' /\ SortFinished'
  BY NotSorting DEF vars, mainVars, sortVars, SortFinished
<1>2. QED
  BY InitSorts, NextKeeps, <1>1, PTL DEF Spec

\* partition never leaves the part it was called for, nor the stack the depth
\* that the array allows: for every array, of any size, with any ties.
THEOREM SortInBounds == Spec => []SortStaysInBounds
<1>1. ASSUME IInv
      PROVE  SortStaysInBounds
  <2>1. frames \in Seq(Frame) /\ Size \in Nat /\ DOMAIN arr_A = 0 .. Size - 1
    BY <1>1 DEF IInv, Types, Stack
  <2>2. Len(frames) <= Size + 1
    <3>1. CASE frames = <<>>
      BY <2>1, <3>1
    <3>2. CASE frames # <<>>
      <4>1. Len(frames) \in DOMAIN frames /\ 1 \in DOMAIN frames
        BY <2>1, <3>2
      <4>2. Top.hi - Top.low + 1 + Len(frames) - 1 <= Size
        BY <1>1, <4>1 DEF IInv, Stack, Top
      <4>3. Top.hi \in Int /\ Top.low \in Int /\ Top.low <= Top.hi + 1
        BY <1>1, <3>2, TopOfStack DEF InBounds
      <4>4. QED
        BY ONLY <2>1, <4>2, <4>3
    <3>3. QED
      BY <3>1, <3>2
  <2>3. ASSUME frames # <<>>, Top.at = "loop"
        PROVE  /\ Top.low \in 0 .. Size - 1 /\ Top.hi \in 0 .. Size - 1
               /\ Top.low <= Top.i + 1 /\ Top.i < Top.j /\ Top.j <= Top.hi
    BY <1>1, <2>1, <2>3, TopOfStack DEF InBounds
  <2>4. QED
    BY <2>1, <2>2, <2>3 DEF SortStaysInBounds, Size
<1>2. QED
  BY <1>1, Invariance, PTL

\* Elements never cross a pivot once it is in its place, at any depth.
THEOREM PartsSplit == Spec => []PartsStaySplit
<1>1. ASSUME IInv
      PROVE  PartsStaySplit
  <2> DEFINE Around(f) ==
        LET p == f.i + 1 IN
        /\ \A k \in f.low .. p - 1 : arr_A[k] < arr_A[p]
        /\ \A k \in p + 1 .. f.hi : arr_A[p] <= arr_A[k]
  <2>1. ASSUME NEW f \in Frame, Sorting(arr_A, f), f.at \in {"left", "right"}
        PROVE  Around(f)
    <3>1. (f.i + 1) - 1 = f.i /\ (f.i + 1) + 1 = f.i + 2
      BY <2>1 DEF Frame
    <3>2. /\ \A k \in f.low .. f.i : arr_A[k] < arr_A[f.i + 1]
          /\ \A k \in f.i + 2 .. f.hi : arr_A[f.i + 1] <= arr_A[k]
      BY <2>1 DEF Sorting, Split
    <3>3. \A k \in f.low .. (f.i + 1) - 1 : arr_A[k] < arr_A[f.i + 1]
      BY ONLY <3>1, <3>2
    <3>4. \A k \in (f.i + 1) + 1 .. f.hi : arr_A[f.i + 1] <= arr_A[k]
      BY ONLY <3>1, <3>2
    <3>5. QED
      BY <3>3, <3>4
  <2>2. \A q \in DOMAIN frames : frames[q] \in Frame /\ Sorting(arr_A, frames[q])
    BY <1>1 DEF IInv, Stack
  <2>3. QED
    BY ONLY <2>1, <2>2 DEF PartsStaySplit
<1>2. QED
  BY <1>1, Invariance, PTL

\* Every array is in order when main shows it, whatever it was before.
ShownInOrder ==
  stage = "show" /\ task = "qsort" =>
    \A k, l \in DOMAIN arr_A : k < l => arr_A[k] <= arr_A[l]

\* sort sorts.
THEOREM SortSorts == Spec => []ShownInOrder
<1>1. ASSUME IInv, SortFinished
      PROVE  ShownInOrder
  BY <1>1 DEF IInv, Types, SortFinished, SortedIn, ShownInOrder
<1>2. QED
  BY <1>1, Invariance, PTL

-----------------------------------------------------------------------------
(* Induction over the natural numbers, and the sums of the loops.           *)

\* A set of natural numbers has a least one.
LEMMA Least ==
  ASSUME NEW T \in SUBSET Nat, T # {}
  PROVE  \E m \in T : \A x \in T : m <= x
<1>1. IsWellFoundedOn(OpToRel(<, Nat), Nat)
  BY NatLessThanWellFounded
<1>2. PICK m \in T : \A y \in T : ~ (<<y, m>> \in OpToRel(<, Nat))
  BY <1>1, WFMin, Zenon
<1>3. \A y \in T : ~ (y < m)
  BY <1>2 DEF OpToRel
<1>4. QED
  BY <1>3

\* Induction, for a set in the place of a predicate.
LEMMA Induction ==
  ASSUME NEW T \in SUBSET Nat, 0 \in T, \A m \in T : m + 1 \in T
  PROVE  T = Nat
<1>1. SUFFICES ASSUME Nat \ T # {} PROVE FALSE
  OBVIOUS
<1>2. PICK m \in Nat \ T : \A x \in Nat \ T : m <= x
  BY <1>1, Least
<1>3. m - 1 \in T
  BY <1>2
<1>4. QED
  BY <1>2, <1>3

SumsUpTo(u, f, size) ==
  u = [k \in 0 .. size |-> IF k = 0 THEN 0 ELSE u[k - 1] + f[k - 1]]

\* The function that Sum chooses exists.
LEMMA PartialSums ==
  ASSUME NEW f, NEW size \in Nat
  PROVE  \E u : SumsUpTo(u, f, size)
<1> DEFINE T == {m \in Nat : \E u : SumsUpTo(u, f, m)}
<1>1. 0 \in T
  <2>1. SumsUpTo([k \in 0 .. 0 |-> 0], f, 0)
    BY DEF SumsUpTo
  <2>2. QED
    BY <2>1
<1>2. ASSUME NEW m \in T
      PROVE  m + 1 \in T
  <2>1. PICK u : SumsUpTo(u, f, m)
    OBVIOUS
  <2> DEFINE v == [k \in 0 .. m + 1 |-> IF k = m + 1 THEN u[m] + f[m] ELSE u[k]]
  <2>2. \A k \in 0 .. m + 1 : v[k] = IF k = 0 THEN 0 ELSE v[k - 1] + f[k - 1]
    BY <2>1 DEF SumsUpTo
  <2>3. SumsUpTo(v, f, m + 1)
    BY <2>2 DEF SumsUpTo
  <2>4. QED
    BY <2>3
<1>3. T = Nat
  BY <1>1, <1>2, Induction
<1>4. QED
  BY <1>3

\* A loop that goes round once more adds one element more.
LEMMA SumSteps ==
  ASSUME NEW f, NEW size \in Nat
  PROVE  Sum(f, 0) = 0 /\ Sum(f, size + 1) = Sum(f, size) + f[size]
<1> DEFINE U(m) == CHOOSE u : SumsUpTo(u, f, m)
<1>1. \A m \in Nat : SumsUpTo(U(m), f, m)
  BY PartialSums, Zenon
<1>2. \A m \in Nat : Sum(f, m) = U(m)[m]
  BY DEF Sum, SumsUpTo
<1> HIDE DEF U
<1>3. \A m \in Nat : U(m)[0] = 0 /\ \A k \in 0 .. m - 1 : U(m)[k + 1] = U(m)[k] + f[k]
  BY <1>1 DEF SumsUpTo
<1>4. \A k \in 0 .. size : U(size)[k] = U(size + 1)[k]
  <2> DEFINE T == {k \in Nat : k <= size => U(size)[k] = U(size + 1)[k]}
  <2>1. 0 \in T
    BY <1>3
  <2>2. ASSUME NEW k \in T
        PROVE  k + 1 \in T
    BY <1>3
  <2>3. T = Nat
    BY <2>1, <2>2, Induction
  <2>4. QED
    BY <2>3
<1>5. QED
  BY <1>2, <1>3, <1>4

\* A sum of integers is one.
LEMMA SumIsInt ==
  ASSUME NEW size \in Nat, NEW f, \A k \in 0 .. size - 1 : f[k] \in Int
  PROVE  Sum(f, size) \in Int
<1> DEFINE T == {m \in Nat : m <= size => Sum(f, m) \in Int}
<1>1. 0 \in T
  BY SumSteps
<1>2. ASSUME NEW m \in T
      PROVE  m + 1 \in T
  BY SumSteps
<1>3. T = Nat
  BY <1>1, <1>2, Induction
<1>4. QED
  BY <1>3

\* The sum depends on nothing but what is added.
LEMMA SumOfEquals ==
  ASSUME NEW size \in Nat, NEW f, NEW g, \A k \in 0 .. size - 1 : f[k] = g[k]
  PROVE  Sum(f, size) = Sum(g, size)
<1> DEFINE T == {m \in Nat : m <= size => Sum(f, m) = Sum(g, m)}
<1>1. 0 \in T
  BY SumSteps
<1>2. ASSUME NEW m \in T
      PROVE  m + 1 \in T
  BY SumSteps
<1>3. T = Nat
  BY <1>1, <1>2, Induction
<1>4. QED
  BY <1>3

\* Zeros at the end add nothing.
LEMMA SumOfZeros ==
  ASSUME NEW size \in Nat, NEW from \in 0 .. size, NEW f,
         \A k \in 0 .. from - 1 : f[k] \in Int,
         \A k \in from .. size - 1 : f[k] = 0
  PROVE  Sum(f, size) = Sum(f, from)
<1> DEFINE T == {m \in Nat : from + m <= size => Sum(f, from + m) = Sum(f, from)}
<1>1. 0 \in T
  <2>1. from + 0 = from
    OBVIOUS
  <2>2. QED
    BY <2>1
<1>2. ASSUME NEW m \in T
      PROVE  m + 1 \in T
  <2>1. Sum(f, (from + m) + 1) = Sum(f, from + m) + f[from + m]
    BY SumSteps
  <2>2. Sum(f, from) \in Int
    BY SumIsInt
  <2>3. (from + m) + 1 = from + (m + 1)
    OBVIOUS
  <2>4. CASE from + (m + 1) <= size
    <3>1. f[from + m] = 0 /\ Sum(f, from + m) = Sum(f, from)
      BY <2>4
    <3>2. QED
      BY <2>1, <2>2, <2>3, <3>1
  <2>5. QED
    BY <2>4
<1>3. T = Nat
  BY <1>1, <1>2, Induction
<1>4. size - from \in Nat /\ from + (size - from) = size
  OBVIOUS
<1>5. size - from \in T
  BY ONLY <1>3, <1>4
<1>6. QED
  BY ONLY <1>4, <1>5

\* The elements without the first, and in the other order.
WithoutFirst(f, size) == [k \in 0 .. size - 1 |-> f[k + 1]]
Backwards(f, size) == [k \in 0 .. size - 1 |-> f[size - 1 - k]]

\* The first element may be added last.
LEMMA SumFromFront ==
  ASSUME NEW size \in Nat, NEW f, \A k \in 0 .. size : f[k] \in Int
  PROVE  Sum(f, size + 1) = f[0] + Sum(WithoutFirst(f, size), size)
<1> USE DEF WithoutFirst
<1> DEFINE g(m) == WithoutFirst(f, m)
           T == {m \in Nat : m <= size => Sum(f, m + 1) = f[0] + Sum(g(m), m)}
<1>1. 0 \in T
  <2>1. Sum(f, 0) = 0 /\ Sum(f, 0 + 1) = Sum(f, 0) + f[0] /\ Sum(g(0), 0) = 0
    BY SumSteps
  <2>2. f[0] \in Int
    OBVIOUS
  <2>3. QED
    BY <2>1, <2>2
<1>2. ASSUME NEW m \in T
      PROVE  m + 1 \in T
  <2>1. CASE m + 1 <= size
    <3>1. Sum(f, (m + 1) + 1) = Sum(f, m + 1) + f[m + 1]
      BY SumSteps
    <3>2. Sum(g(m + 1), m + 1) = Sum(g(m + 1), m) + g(m + 1)[m]
      BY SumSteps
    <3>3. Sum(g(m + 1), m) = Sum(g(m), m)
      <4>1. \A k \in 0 .. m - 1 : g(m + 1)[k] = g(m)[k]
        OBVIOUS
      <4> HIDE DEF g
      <4>2. QED
        BY <4>1, SumOfEquals
    <3>4. g(m + 1)[m] = f[m + 1]
      OBVIOUS
    <3>5. Sum(g(m), m) \in Int /\ f[0] \in Int /\ f[m + 1] \in Int
      BY <2>1, SumIsInt
    <3>6. Sum(f, m + 1) = f[0] + Sum(g(m), m)
      BY <2>1
    <3> HIDE DEF g
    <3>7. QED
      BY <3>1, <3>2, <3>3, <3>4, <3>5, <3>6
  <2>2. QED
    BY <2>1
<1>3. size \in T
  BY <1>1, <1>2, Induction
<1>4. QED
  BY <1>3

\* The order of the elements may be turned round.
LEMMA SumReversed ==
  ASSUME NEW size \in Nat, NEW f, \A k \in 0 .. size - 1 : f[k] \in Int
  PROVE  Sum(f, size) = Sum(Backwards(f, size), size)
<1> USE DEF Backwards
<1> DEFINE r(m) == Backwards(f, m)
           T == {m \in Nat : m <= size => Sum(f, m) = Sum(r(m), m)}
<1>1. 0 \in T
  BY SumSteps
<1>2. ASSUME NEW m \in T
      PROVE  m + 1 \in T
  <2>1. CASE m + 1 <= size
    <3> DEFINE rest == WithoutFirst(r(m + 1), m)
    <3>1. \A k \in 0 .. m : r(m + 1)[k] \in Int
      BY <2>1
    <3>2. Sum(r(m + 1), m + 1) = r(m + 1)[0] + Sum(rest, m)
      <4> HIDE DEF r
      <4>1. QED
        BY <3>1, SumFromFront
    <3>3. Sum(rest, m) = Sum(r(m), m)
      <4>1. \A k \in 0 .. m - 1 : rest[k] = r(m)[k]
        BY <2>1 DEF WithoutFirst
      <4> HIDE DEF r, rest
      <4>2. QED
        BY <4>1, SumOfEquals
    <3>4. r(m + 1)[0] = f[m] /\ f[m] \in Int
      BY <2>1
    <3>5. Sum(f, m + 1) = Sum(f, m) + f[m] /\ Sum(f, m) \in Int
      BY <2>1, SumSteps, SumIsInt
    <3>6. Sum(f, m) = Sum(r(m), m)
      BY <2>1
    <3> HIDE DEF r, rest
    <3>7. QED
      BY <3>2, <3>3, <3>4, <3>5, <3>6
  <2>2. QED
    BY <2>1
<1>3. size \in T
  BY <1>1, <1>2, Induction
<1>4. QED
  BY <1>3

-----------------------------------------------------------------------------
(* Ranks, and what an exchange leaves alone.                                *)

\* f is its own inverse, and so a bijection; b is a seen through it; and S is T.
OwnInverse(f, size) ==
  f \in [0 .. size - 1 -> 0 .. size - 1] /\ \A k \in 0 .. size - 1 : f[f[k]] = k
SeenThrough(f, size, a, b) == OwnInverse(f, size) /\ \A k \in 0 .. size - 1 : b[k] = a[f[k]]
SameThrough(f, size, S, T) ==
  /\ OwnInverse(f, size) /\ S \subseteq 0 .. size - 1 /\ T \subseteq 0 .. size - 1
  /\ \A k \in 0 .. size - 1 : k \in S <=> f[k] \in T

\* An exchange turns the array into itself seen through a bijection.
LEMMA SwapIsBijection ==
  ASSUME NEW size \in Nat, NEW a \in [0 .. size - 1 -> Int],
         NEW x \in 0 .. size - 1, NEW y \in 0 .. size - 1
  PROVE  \E f : SeenThrough(f, size, a, Swapped(a, x, y))
<1> DEFINE f == [k \in 0 .. size - 1 |-> IF k = x THEN y ELSE IF k = y THEN x ELSE k]
<1>1. /\ Swapped(a, x, y)[y] = a[x] /\ Swapped(a, x, y)[x] = a[y]
      /\ \A k \in 0 .. size - 1 : k # x /\ k # y => Swapped(a, x, y)[k] = a[k]
  BY DEF Swapped
<1>2. f \in [0 .. size - 1 -> 0 .. size - 1] /\ \A k \in 0 .. size - 1 : f[f[k]] = k
  OBVIOUS
<1>3. \A k \in 0 .. size - 1 : Swapped(a, x, y)[k] = a[f[k]]
  BY <1>1
<1> HIDE DEF f
<1>4. QED
  BY ONLY <1>2, <1>3 DEF SeenThrough, OwnInverse

\* Such a bijection keeps the number of elements of any kind.
LEMMA BijectionKeepsNumber ==
  ASSUME NEW size \in Nat, NEW f, NEW S, NEW T, SameThrough(f, size, S, T)
  PROVE  Cardinality(S) = Cardinality(T)
<1> USE DEF SameThrough, OwnInverse
<1> DEFINE g == [k \in S |-> f[k]]
<1>1. g \in [S -> T]
  OBVIOUS
<1>2. \A k, l \in S : g[k] = g[l] => k = l
  OBVIOUS
<1>3. \A t \in T : \E k \in S : g[k] = t
  <2>1. TAKE t \in T
  <2>2. f[t] \in S /\ f[f[t]] = t
    OBVIOUS
  <2>3. QED
    BY <2>2
<1> HIDE DEF g
<1>4. g \in Bijection(S, T)
  BY <1>1, <1>2, <1>3 DEF Bijection, Injection, Surjection, IsInjective
<1>5. IsFiniteSet(0 .. size - 1)
  BY FS_Interval
<1>6. IsFiniteSet(S) /\ ExistsBijection(S, T)
  BY <1>4, <1>5, FS_Subset DEF ExistsBijection
<1>7. QED
  BY <1>6, FS_Bijection

\* An exchange changes no rank.
LEMMA SwapKeepsSorted ==
  ASSUME NEW size \in Nat, NEW a \in [0 .. size - 1 -> Int],
         NEW x \in 0 .. size - 1, NEW y \in 0 .. size - 1, NEW b, b = Swapped(a, x, y)
  PROVE  Sorted(b) = Sorted(a)
<1>1. PICK f : SeenThrough(f, size, a, b)
  BY SwapIsBijection
<1>2. b \in [0 .. size - 1 -> Int] /\ DOMAIN b = DOMAIN a /\ DOMAIN a = 0 .. size - 1
  BY DEF Swapped
<1>3. Range(b) = Range(a)
  <2>1. \A k \in 0 .. size - 1 : b[k] = a[f[k]] /\ a[k] = b[f[k]] /\ f[k] \in 0 .. size - 1
    BY <1>1 DEF SeenThrough, OwnInverse
  <2>2. Range(b) = {b[k] : k \in 0 .. size - 1} /\ Range(a) = {a[k] : k \in 0 .. size - 1}
    BY <1>2 DEF Range
  <2>3. QED
    BY ONLY <2>1, <2>2
<1>4. \A v \in Range(a) : Below(b, v) = Below(a, v)
  <2>1. TAKE v \in Range(a)
  <2> DEFINE S == {k \in 0 .. size - 1 : b[k] < v}
             T == {k \in 0 .. size - 1 : a[k] < v}
  <2>2. \A k \in 0 .. size - 1 : k \in S <=> f[k] \in T
    BY <1>1 DEF SeenThrough, OwnInverse
  <2>3. SameThrough(f, size, S, T)
    BY <1>1, <2>2 DEF SeenThrough, SameThrough
  <2> HIDE DEF S, T
  <2>4. Cardinality(S) = Cardinality(T)
    BY <2>3, BijectionKeepsNumber
  <2>5. QED
    BY <1>2, <2>4 DEF Below, S, T
<1>5. \A v \in Range(a) : UpTo(b, v) = UpTo(a, v)
  <2>1. TAKE v \in Range(a)
  <2> DEFINE S == {k \in 0 .. size - 1 : b[k] <= v}
             T == {k \in 0 .. size - 1 : a[k] <= v}
  <2>2. \A k \in 0 .. size - 1 : k \in S <=> f[k] \in T
    BY <1>1 DEF SeenThrough, OwnInverse
  <2>3. SameThrough(f, size, S, T)
    BY <1>1, <2>2 DEF SeenThrough, SameThrough
  <2> HIDE DEF S, T
  <2>4. Cardinality(S) = Cardinality(T)
    BY <2>3, BijectionKeepsNumber
  <2>5. QED
    BY <1>2, <2>4 DEF UpTo, S, T
<1>6. \A e : \A v \in Range(a) : HasRank(b, v, e) <=> HasRank(a, v, e)
  BY <1>4, <1>5 DEF HasRank
<1>7. \A e : (CHOOSE v \in Range(a) : HasRank(b, v, e)) = (CHOOSE v \in Range(a) : HasRank(a, v, e))
  BY <1>6
<1> DEFINE Of(c, R, D) == [e \in 1 .. Cardinality(D) |-> CHOOSE v \in R : HasRank(c, v, e)]
<1>8. Sorted(b) = Of(b, Range(b), DOMAIN b) /\ Sorted(a) = Of(a, Range(a), DOMAIN a)
  BY DEF Sorted
<1>9. Of(b, Range(a), DOMAIN a) = Of(a, Range(a), DOMAIN a)
  BY <1>7, SMTT(30)
<1> HIDE DEF Of
<1>10. QED
  BY ONLY <1>2, <1>3, <1>8, <1>9

\* In an array in order, the element of rank e is in place e.
LEMMA SortedByRank ==
  ASSUME NEW size \in Nat, NEW a \in [0 .. size - 1 -> Int], SortedIn(a, 0, size - 1)
  PROVE  Cardinality(DOMAIN a) = size /\ Sorted(a) = [e \in 1 .. size |-> a[e - 1]]
<1>1. Cardinality(DOMAIN a) = size
  BY FS_Interval
<1>2. ASSUME NEW e \in 1 .. size
      PROVE  HasRank(a, a[e - 1], e)
  <2> DEFINE v == a[e - 1]
             S == {k \in 0 .. size - 1 : a[k] < v}
             T == {k \in 0 .. size - 1 : a[k] <= v}
  <2>1. e - 1 \in 0 .. size - 1 /\ v \in Int
    OBVIOUS
  <2>2. S \subseteq 0 .. e - 2
    <3>1. ASSUME NEW k \in 0 .. size - 1, a[k] < v, ~(k <= e - 2)
          PROVE  FALSE
      <4>1. e - 1 <= k
        BY <3>1
      <4>2. a[e - 1] <= a[k]
        BY <2>1, <4>1 DEF SortedIn
      <4>3. a[k] \in Int
        OBVIOUS
      <4>4. QED
        BY <2>1, <3>1, <4>2, <4>3
    <3>2. QED
      BY <3>1
  <2>3. 0 .. e - 1 \subseteq T
    <3>1. ASSUME NEW k \in 0 .. e - 1
          PROVE  k \in 0 .. size - 1 /\ a[k] <= v
      <4>1. k \in 0 .. size - 1
        BY <2>1
      <4>2. CASE k = e - 1
        BY <2>1, <4>1, <4>2
      <4>3. CASE k < e - 1
        BY <2>1, <4>1, <4>3 DEF SortedIn
      <4>4. QED
        BY <4>1, <4>2, <4>3
    <3>2. QED
      BY <3>1
  <2>4. /\ IsFiniteSet(0 .. e - 2) /\ Cardinality(0 .. e - 2) = e - 1
        /\ Cardinality(0 .. e - 1) = e
        /\ IsFiniteSet(T)
    <3>1. IsFiniteSet(0 .. size - 1) /\ T \subseteq 0 .. size - 1
      BY FS_Interval
    <3>2. IsFiniteSet(T)
      BY <3>1, FS_Subset
    <3> HIDE DEF S, T, v
    <3>3. /\ e - 2 \in Int /\ e - 1 \in Int /\ 0 \in Int
          /\ e - 2 - 0 + 1 = e - 1 /\ (0 > e - 2 => e - 1 = 0)
          /\ e - 1 - 0 + 1 = e /\ ~(0 > e - 1)
      OBVIOUS
    <3>4. /\ IsFiniteSet(0 .. e - 2)
          /\ Cardinality(0 .. e - 2) = IF 0 > e - 2 THEN 0 ELSE e - 2 - 0 + 1
      BY ONLY <3>3, FS_Interval
    <3>5. Cardinality(0 .. e - 1) = IF 0 > e - 1 THEN 0 ELSE e - 1 - 0 + 1
      BY ONLY <3>3, FS_Interval
    <3>6. QED
      BY ONLY <3>2, <3>3, <3>4, <3>5
  <2> HIDE DEF S, T, v
  <2>5. Cardinality(S) <= e - 1 /\ Cardinality(S) \in Nat
    BY <2>2, <2>4, FS_Subset, FS_CardinalityType
  <2>6. e <= Cardinality(T)
    BY <2>3, <2>4, FS_Subset
  <2>7. Below(a, v) = Cardinality(S) /\ UpTo(a, v) = Cardinality(T)
    BY DEF Below, UpTo, S, T
  <2>8. QED
    BY <2>5, <2>6, <2>7 DEF HasRank, v
<1>3. ASSUME NEW e \in 1 .. size, NEW v \in Range(a), NEW w \in Range(a),
             HasRank(a, v, e), HasRank(a, w, e), v < w
      PROVE  FALSE
  <2> DEFINE S == {k \in 0 .. size - 1 : a[k] < w}
             T == {k \in 0 .. size - 1 : a[k] <= v}
  <2>1. v \in Int /\ w \in Int
    BY DEF Range
  <2>2. T \subseteq S
    BY <1>3, <2>1
  <2>3. IsFiniteSet(S)
    <3>1. IsFiniteSet(0 .. size - 1) /\ S \subseteq 0 .. size - 1
      BY FS_Interval
    <3>2. QED
      BY <3>1, FS_Subset
  <2>4. Below(a, w) = Cardinality(S) /\ UpTo(a, v) = Cardinality(T)
    BY DEF Below, UpTo
  <2> HIDE DEF S, T
  <2>5. Cardinality(T) <= Cardinality(S) /\ Cardinality(S) \in Nat /\ Cardinality(T) \in Nat
    BY <2>2, <2>3, FS_Subset, FS_CardinalityType
  <2>6. QED
    BY <1>3, <2>4, <2>5 DEF HasRank
<1>4. ASSUME NEW e \in 1 .. size
      PROVE  (CHOOSE v \in Range(a) : HasRank(a, v, e)) = a[e - 1]
  <2> DEFINE c == CHOOSE v \in Range(a) : HasRank(a, v, e)
  <2>1. a[e - 1] \in Range(a) /\ HasRank(a, a[e - 1], e)
    BY <1>2 DEF Range
  <2>2. c \in Range(a) /\ HasRank(a, c, e)
    BY <2>1
  <2>3. c \in Int /\ a[e - 1] \in Int
    BY <2>1, <2>2 DEF Range
  <2> HIDE DEF c
  <2>4. ~(c < a[e - 1]) /\ ~(a[e - 1] < c)
    BY <1>3, <2>1, <2>2
  <2>5. c = a[e - 1]
    BY <2>3, <2>4
  <2>6. QED
    BY <2>5 DEF c
<1>5. QED
  BY <1>1, <1>4 DEF Sorted

-----------------------------------------------------------------------------
(* The results.                                                             *)

\* What main is doing, and of which workload.
Stages ==
  /\ program \in Programs
  /\ task \in {"start", "end", "done"} \/ \E i \in DOMAIN Tasks : task = Tasks[i]
  /\ stage \in {"flag", "init", "compute", "show"} => task \notin {"start", "end", "done"}

\* An array of C, with this many elements.
Indexed(f, size) == f = [e \in 0 .. size - 1 |-> f[e]]

\* The elements that a loop has computed, of all there are.
Computing(t) == task = t /\ stage = "compute"
Showing(t) == task = t /\ stage = "show"

MatrixResult ==
  /\ mat.size \in Nat /\ right.matmul = Product(mat)
  /\ Indexed(result, mat.size * mat.size)
  /\ Computing("matmul") =>
       n \in Nat /\ \A e \in DOMAIN result : e < n => result[e] = right.matmul[e + 1]
  /\ Showing("matmul") => \A e \in DOMAIN result : result[e] = right.matmul[e + 1]

\* Whatever has been exchanged, the result to come is the same.
ArrayResult == right.qsort = Sorted(arr_A)

\* The products that firfilter, Convolution and lab 4 add up.
BufferProducts(taps, b, size) == [i \in 0 .. size - 1 |-> taps[i + 1] * b[i]]
Products(taps, x, m) == [k \in 0 .. m |-> taps[k + 1] * x[m + 1 - k]]
Lab4Products(taps, x, m) == [j \in 0 .. m - 1 |-> taps[m - j + 1] * x[j + 1]]

\* The newest of m samples is in place 0.
Buffered(b, x, m, size) == b = [i \in 0 .. size - 1 |-> IF i < m THEN x[m - i] ELSE 0]

FilterResult ==
  /\ filter.taps \in Seq(Int) /\ filter.inputsignal \in Seq(Int)
  /\ Len(filter.inputsignal) = N
  /\ right.fir = Convolution(filter)
  /\ program = "exmem" => filter.taps[1] = 0
  /\ Indexed(outputsignal, N)
  /\ Computing("fir") =>
       /\ n \in 0 .. N
       /\ \A e \in 0 .. n - 1 : outputsignal[e] = right.fir[e + 1]
       /\ program # "exmem" => Buffered(inputbuffer, filter.inputsignal, n, N)
       /\ program = "exmem" => \A e \in n .. N - 1 : outputsignal[e] = 0
  /\ Computing("fir") \/ Showing("fir") => n \in Int
  /\ stage = "init" => n = 0
  /\ Showing("fir") => \A e \in 0 .. N - 1 : outputsignal[e] = right.fir[e + 1]

ResultInv == Stages /\ MatrixResult /\ ArrayResult /\ FilterResult

\* The workloads follow one another in their order.
LEMMA StagesKept ==
  ASSUME Stages, Next
  PROVE  Stages'
<1>1. CASE UNCHANGED <<program, task>> /\ (stage' = stage \/ (stage \in {"flag", "init", "compute"}))
  BY <1>1 DEF Stages, Tasks
<1>2. CASE BenchStep
  BY <1>1, <1>2 DEF BenchStep, mainVars
<1>3. CASE matmul \/ qsort \/ initfir \/ firfilter \/ firLab4 \/ MainCall \/ MainReturn \/ MainShow
  BY <1>1, <1>3 DEF matmul, qsort, initfir, firfilter, firLab4, MainCall, MainReturn, MainShow,
                    mainVars
<1>4. CASE MainStart
  <2>1. program' = program /\ task' = Tasks[1] /\ stage' = "flag"
    BY <1>4 DEF MainStart
  <2>2. Tasks' = Tasks /\ 1 \in DOMAIN Tasks /\ Tasks[1] \notin {"start", "end", "done"}
    BY <2>1 DEF Stages, Tasks, Programs
  <2>3. QED
    BY <2>1, <2>2 DEF Stages
<1>5. CASE MainNext
  <2> DEFINE next == CHOOSE i \in DOMAIN Tasks : Tasks[i] = task
  <2>1. /\ program' = program /\ stage = "show"
        /\ \/ task' = "end" /\ stage' = "end"
           \/ task # Last(Tasks) /\ task' = Tasks[1 + next] /\ stage' = "flag"
    BY <1>5 DEF MainNext
  <2>2. Tasks' = Tasks
    BY <2>1 DEF Tasks
  <2>3. CASE task' = "end" /\ stage' = "end"
    BY <2>1, <2>2, <2>3 DEF Stages
  <2>4. CASE task # Last(Tasks) /\ task' = Tasks[1 + next] /\ stage' = "flag"
    <3>1. PICK i \in DOMAIN Tasks : task = Tasks[i]
      BY <2>1 DEF Stages
    <3>2. next \in DOMAIN Tasks /\ Tasks[next] = task
      BY <3>1
    <3> HIDE DEF next
    <3>3. CASE program = "integrate"
      <4>1. Tasks = <<"matmul", "qsort", "fir">>
        BY <3>3 DEF Tasks
      <4>2. Last(Tasks) = "fir"
        BY <4>1 DEF Last
      <4>3. next \in {1, 2}
        BY <2>4, <3>2, <4>1, <4>2
      <4>4. task' \in {"qsort", "fir"} /\ 1 + next \in DOMAIN Tasks
        BY <2>4, <4>1, <4>3
      <4>5. QED
        BY <2>1, <2>2, <2>4, <4>4 DEF Stages
    <3>4. CASE program # "integrate"
      <4>1. \E t : Tasks = <<t>>
        BY <3>4 DEF Tasks
      <4>2. Last(Tasks) = Tasks[1] /\ DOMAIN Tasks = {1}
        BY <4>1 DEF Last
      <4>3. QED
        BY <2>4, <3>1, <4>2
    <3>5. QED
      BY <3>3, <3>4
  <2>5. QED
    BY <2>1, <2>3, <2>4
<1>6. CASE MainEnd
  BY <1>6 DEF MainEnd, Stages, Tasks
<1>7. QED
  BY <1>2, <1>3, <1>4, <1>5, <1>6 DEF Next, MainStep

\* An element of the product is computed as it is defined.
LEMMA MatmulStep ==
  ASSUME MatrixResult, matmul
  PROVE  MatrixResult'
<1>1. /\ task = "matmul" /\ stage = "compute" /\ n < mat.size * mat.size
      /\ UNCHANGED <<mat, right, task, stage>> /\ n' = n + 1
      /\ n \in Nat
  BY DEF matmul, MatrixResult, Computing
<1> DEFINE element(q) ==
      Sum([k \in 0 .. mat.size - 1 |-> mat.a[(q \div mat.size) * mat.size + k]
                                       * mat.b[k * mat.size + (q % mat.size)]], mat.size)
<1>2. result' = [result EXCEPT ![n] = element(n)]
  BY DEF matmul
<1>3. mat.size \in Nat /\ mat.size * mat.size \in Nat
  BY DEF MatrixResult
<1>4. right.matmul = [e \in 1 .. mat.size * mat.size |-> element(e - 1)]
  BY DEF MatrixResult, Product
<1> HIDE DEF element
<1>5. right.matmul[n + 1] = element(n)
  <2>1. n + 1 \in 1 .. mat.size * mat.size /\ (n + 1) - 1 = n
    BY <1>1, <1>3
  <2>2. QED
    BY <1>4, <2>1
<1>6. DOMAIN result = 0 .. mat.size * mat.size - 1
  BY DEF MatrixResult, Indexed
<1>7. Indexed(result', mat.size * mat.size)
  BY <1>2, <1>6 DEF Indexed
<1>8. \A e \in DOMAIN result : e < n => result[e] = right.matmul[e + 1]
  BY <1>1 DEF MatrixResult, Computing
<1>9. \A e \in DOMAIN result : e < n + 1 => result'[e] = right.matmul[e + 1]
  <2>1. ASSUME NEW e \in 0 .. mat.size * mat.size - 1, e < n + 1
        PROVE  result'[e] = right.matmul[e + 1]
    <3>1. e = n \/ e < n
      BY <1>1, <1>3, <2>1
    <3>2. CASE e = n
      BY <1>2, <1>5, <1>6, <3>2
    <3>3. CASE e < n
      <4>1. e # n /\ e \in DOMAIN result
        BY <1>1, <1>6, <3>3
      <4>2. QED
        BY <1>2, <1>8, <3>3, <4>1
    <3>4. QED
      BY <3>1, <3>2, <3>3
  <2>2. QED
    BY <1>6, <2>1
<1>10. DOMAIN result' = DOMAIN result /\ n + 1 \in Nat
  BY <1>1, <1>2
<1>11. QED
  BY <1>1, <1>3, <1>7, <1>9, <1>10 DEF MatrixResult, Computing, Showing

\* So are all of them, whatever else happens.
LEMMA MatrixKept ==
  ASSUME MatrixResult, Next
  PROVE  MatrixResult'
<1> DEFINE Rest == UNCHANGED <<mat, result, right>>
<1>1. CASE Rest /\ UNCHANGED <<task, stage, n>>
  BY <1>1 DEF MatrixResult, Computing, Showing
<1>2. CASE Rest /\ ~Computing("matmul")' /\ ~Showing("matmul")'
  BY <1>2 DEF MatrixResult
<1>3. CASE Rest /\ Showing("matmul") /\ Showing("matmul")'
  BY <1>3 DEF MatrixResult, Computing, Showing
<1>4. CASE BenchStep \/ qsort
  BY <1>1, <1>4 DEF BenchStep, qsort, matVars, mainVars
<1>5. CASE initfir \/ firfilter \/ firLab4 \/ MainStart \/ MainNext \/ MainEnd
  <2>1. Rest /\ (UNCHANGED <<task, stage, n>> \/ task' # "matmul" \/ stage' \in {"flag", "end"}
                  \/ task' = "done")
    BY <1>5 DEF initfir, firfilter, firLab4, MainStart, MainNext, MainEnd, matVars
  <2>2. QED
    BY <1>1, <1>2, <2>1 DEF Computing, Showing
<1>6. CASE MainShow
  <2>1. Rest /\ task' = task /\ stage = "show" /\ stage' = "show"
    BY <1>6 DEF MainShow, matVars
  <2>2. QED
    BY <1>2, <1>3, <2>1 DEF Computing, Showing
<1>7. CASE MainCall
  <2>1. Rest /\ n' = 0 /\ stage' \in {"init", "compute"}
    BY <1>7 DEF MainCall, matVars
  <2>2. \A e \in DOMAIN result : ~(e < 0)
    <3>1. mat.size * mat.size \in Nat /\ DOMAIN result = 0 .. mat.size * mat.size - 1
      BY DEF MatrixResult, Indexed
    <3>2. QED
      BY <3>1
  <2>3. QED
    BY <2>1, <2>2 DEF MatrixResult, Computing, Showing
<1>8. CASE MainReturn
  <2>1. Rest /\ task' = task /\ stage = "compute" /\ stage' = "show" /\ Computed
    BY <1>8 DEF MainReturn, matVars
  <2>2. CASE task = "matmul"
    <3>1. n = mat.size * mat.size
      BY <2>1, <2>2 DEF Computed
    <3>2. /\ DOMAIN result = 0 .. mat.size * mat.size - 1 /\ mat.size * mat.size \in Nat
          /\ \A e \in DOMAIN result : e < n => result[e] = right.matmul[e + 1]
      <4>1. mat.size \in Nat /\ Indexed(result, mat.size * mat.size)
        BY DEF MatrixResult
      <4>2. DOMAIN result = 0 .. mat.size * mat.size - 1
        BY <4>1 DEF Indexed
      <4>3. \A e \in DOMAIN result : e < n => result[e] = right.matmul[e + 1]
        BY <2>1, <2>2 DEF MatrixResult, Computing
      <4>4. QED
        BY <4>1, <4>2, <4>3
    <3>3. \A e \in DOMAIN result : result[e] = right.matmul[e + 1]
      <4>1. ASSUME NEW m \in Nat, NEW e \in 0 .. m - 1
            PROVE  e < m
        OBVIOUS
      <4>2. \A e \in DOMAIN result : e < n
        <5> DEFINE m == mat.size * mat.size
        <5>1. DOMAIN result = 0 .. m - 1 /\ m \in Nat /\ n = m
          BY <3>1, <3>2
        <5> HIDE DEF m
        <5>2. QED
          BY ONLY <4>1, <5>1
      <4>3. QED
        BY <3>2, <4>2
    <3>4. QED
      BY <2>1, <2>2, <3>3 DEF MatrixResult, Computing, Showing
  <2>3. QED
    BY <1>2, <2>1, <2>2 DEF Computing, Showing
<1>9. QED
  BY <1>4, <1>5, <1>6, <1>7, <1>8, MatmulStep DEF Next, MainStep

\* A step of sort leaves the array or exchanges two of its elements.
LEMMA SortExchanges ==
  ASSUME IInv, SortStep
  PROVE  \/ arr_A' = arr_A
         \/ \E x, y \in 0 .. Size - 1 : arr_A' = Swapped(arr_A, x, y)
<1>1. CASE StartSort \/ SortRight \/ EndSort
  BY <1>1 DEF StartSort, SortRight, EndSort
<1>2. ASSUME frames # <<>>, Top.at = "loop"
      PROVE  Top.i + 1 \in 0 .. Size - 1 /\ Top.j \in 0 .. Size - 1 /\ Top.hi \in 0 .. Size - 1
  BY <1>2, TopOfStack DEF InBounds
<1>3. CASE PartitionPass \/ EndPartition
  BY <1>2, <1>3 DEF PartitionPass, EndPartition
<1>4. QED
  BY <1>1, <1>3 DEF SortStep

\* Exchanges change no rank.
LEMMA ArrayKept ==
  ASSUME IInv, ArrayResult, Next
  PROVE  ArrayResult'
<1>1. CASE UNCHANGED <<arr_A, right>>
  BY <1>1 DEF ArrayResult
<1>2. CASE qsort
  <2>1. right' = right /\ SortStep
    BY <1>2 DEF qsort
  <2>2. Size \in Nat /\ arr_A \in [0 .. Size - 1 -> Int]
    BY DEF IInv, Types
  <2>3. Sorted(arr_A') = Sorted(arr_A)
    BY <2>1, <2>2, SortExchanges, SwapKeepsSorted
  <2>4. QED
    BY <2>1, <2>3 DEF ArrayResult
<1>3. CASE BenchStep \/ matmul \/ initfir \/ firfilter \/ firLab4 \/ MainStart \/ MainCall
           \/ MainReturn \/ MainShow \/ MainNext \/ MainEnd
  BY <1>1, <1>3 DEF BenchStep, matmul, initfir, firfilter, firLab4, MainStart, MainCall,
                    MainReturn, MainShow, MainNext, MainEnd, sortVars
<1>4. QED
  BY <1>2, <1>3 DEF Next, MainStep

\* The sum of the whole buffer is the sum that Convolution defines: the places
\* that no sample has reached are zero.
LEMMA BufferSum ==
  ASSUME NEW size \in Nat, NEW taps \in Seq(Int), NEW x \in Seq(Int),
         Len(taps) = size, Len(x) = size, NEW m \in 0 .. size - 1, NEW buffer,
         Buffered(buffer, x, m + 1, size)
  PROVE  Sum(BufferProducts(taps, buffer, size), size) = Sum(Products(taps, x, m), m + 1)
<1> USE DEF BufferProducts, Products, Buffered
<1> DEFINE f == BufferProducts(taps, buffer, size)
           g == Products(taps, x, m)
<1>1. \A i \in 0 .. size - 1 : taps[i + 1] \in Int /\ x[i + 1] \in Int
  OBVIOUS
<1>2. \A i \in 0 .. m : i \in 0 .. size - 1 /\ buffer[i] = x[m + 1 - i] /\ buffer[i] \in Int
  <2>1. ASSUME NEW i \in 0 .. m
        PROVE  i \in 0 .. size - 1 /\ buffer[i] = x[m + 1 - i] /\ buffer[i] \in Int
    <3>1. i \in 0 .. size - 1 /\ i < m + 1 /\ m - i \in 0 .. size - 1 /\ (m - i) + 1 = m + 1 - i
      OBVIOUS
    <3>2. QED
      BY <1>1, <3>1
  <2>2. QED
    BY <2>1
<1>3. \A i \in 0 .. m : f[i] = g[i] /\ f[i] \in Int
  BY <1>1, <1>2
<1>4. \A i \in m + 1 .. size - 1 : f[i] = 0
  <2>1. ASSUME NEW i \in m + 1 .. size - 1
        PROVE  f[i] = 0
    <3>1. i \in 0 .. size - 1 /\ ~(i < m + 1)
      OBVIOUS
    <3>2. buffer[i] = 0 /\ taps[i + 1] \in Int
      BY <1>1, <3>1
    <3>3. QED
      BY <3>1, <3>2
  <2>2. QED
    BY <2>1
<1> HIDE DEF f, g
<1>5. m + 1 \in 0 .. size /\ m + 1 \in Nat /\ (m + 1) - 1 = m
  OBVIOUS
<1>6. Sum(f, size) = Sum(f, m + 1)
  BY ONLY <1>3, <1>4, <1>5, size \in Nat, SumOfZeros
<1>7. Sum(f, m + 1) = Sum(g, m + 1)
  BY ONLY <1>3, <1>5, SumOfEquals
<1>8. QED
  BY <1>6, <1>7 DEF f, g

\* An output is the element of the convolution that it stands for.
LEMMA ConvolutionAt ==
  ASSUME FilterResult, NEW m \in 0 .. N - 1
  PROVE  right.fir[m + 1] = Sum(Products(filter.taps, filter.inputsignal, m), m + 1)
<1>1. m + 1 \in DOMAIN filter.taps /\ (m + 1) - 1 = m
  BY DEF FilterResult, N
<1>2. right.fir[m + 1]
        = Sum([k \in 0 .. (m + 1) - 1 |-> filter.taps[k + 1] * filter.inputsignal[(m + 1) - k]],
              m + 1)
  BY <1>1 DEF FilterResult, Convolution
<1>3. QED
  BY <1>1, <1>2 DEF Products

\* A sample more in the buffer.
LEMMA SampleShifted ==
  ASSUME NEW size \in Nat, NEW m \in 0 .. size - 1, NEW x, NEW b, Buffered(b, x, m, size),
         NEW c, c = [i \in 0 .. size - 1 |-> IF i = 0 THEN x[m + 1] ELSE b[i - 1]]
  PROVE  Buffered(c, x, m + 1, size)
<1>1. ASSUME NEW i \in 0 .. size - 1
      PROVE  (IF i = 0 THEN x[m + 1] ELSE b[i - 1]) = (IF i < m + 1 THEN x[m + 1 - i] ELSE 0)
  <2>1. CASE i = 0
    BY <2>1
  <2>2. CASE i # 0
    <3>1. i - 1 \in 0 .. size - 1 /\ (i - 1 < m <=> i < m + 1) /\ m - (i - 1) = m + 1 - i
      BY <2>2
    <3>2. b[i - 1] = IF i - 1 < m THEN x[m - (i - 1)] ELSE 0
      BY <3>1 DEF Buffered
    <3>3. QED
      BY <2>2, <3>1, <3>2
  <2>3. QED
    BY <2>1, <2>2
<1>2. QED
  BY <1>1 DEF Buffered

\* One output more is right, and the others are still there.
LEMMA OutputAdded ==
  ASSUME FilterResult, Computing("fir"), n < N,
         UNCHANGED <<program, filter, task, stage, right>>, n' = n + 1,
         outputsignal' = [outputsignal EXCEPT ![n] = right.fir[n + 1]],
         program # "exmem" => Buffered(inputbuffer', filter.inputsignal, n + 1, N)
  PROVE  FilterResult'
<1>1. /\ n \in 0 .. N /\ N \in Nat
      /\ \A e \in 0 .. n - 1 : outputsignal[e] = right.fir[e + 1]
      /\ DOMAIN outputsignal = 0 .. N - 1
  <2>1. Indexed(outputsignal, N) => DOMAIN outputsignal = 0 .. N - 1
    BY DEF Indexed
  <2>2. QED
    BY <2>1 DEF FilterResult, N
<1>2. n \in 0 .. N - 1 /\ n + 1 \in 0 .. N
  BY <1>1
<1>3. /\ DOMAIN outputsignal' = 0 .. N - 1
      /\ Indexed(outputsignal', N)
      /\ outputsignal'[n] = right.fir[n + 1]
      /\ \A e \in 0 .. N - 1 : e # n => outputsignal'[e] = outputsignal[e]
  BY <1>1, <1>2 DEF Indexed
<1>4. \A e \in 0 .. (n + 1) - 1 : outputsignal'[e] = right.fir[e + 1]
  <2>1. \A e \in 0 .. (n + 1) - 1 : e = n \/ (e \in 0 .. n - 1 /\ e # n /\ e \in 0 .. N - 1)
    BY <1>1, <1>2
  <2>2. QED
    BY <1>1, <1>3, <2>1
<1>5. program = "exmem" => \A e \in n + 1 .. N - 1 : outputsignal'[e] = 0
  <2>1. \A e \in n + 1 .. N - 1 : e # n /\ e \in n .. N - 1 /\ e \in 0 .. N - 1
    BY <1>1, <1>2
  <2>2. program = "exmem" => \A e \in n .. N - 1 : outputsignal[e] = 0
    BY DEF FilterResult
  <2>3. QED
    BY <1>3, <2>1, <2>2
<1>6. N' = N /\ n' \in 0 .. N /\ n' \in Int
  BY <1>1, <1>2 DEF N
<1>7. QED
  BY <1>3, <1>4, <1>5, <1>6 DEF FilterResult, Computing, Showing

\* One sample goes into the buffer, and one output comes of it.
LEMMA FirfilterStep ==
  ASSUME FilterResult, firfilter
  PROVE  FilterResult'
<1> DEFINE taps == filter.taps
           x == filter.inputsignal
<1>1. /\ Computing("fir") /\ program # "exmem" /\ n < N /\ n' = n + 1
      /\ UNCHANGED <<program, filter, task, stage, right>>
      /\ inputbuffer' = [i \in 0 .. N - 1 |-> IF i = 0 THEN x[n + 1] ELSE inputbuffer[i - 1]]
      /\ outputsignal' = [outputsignal EXCEPT ![n] = Sum(BufferProducts(taps, inputbuffer', N), N)]
  BY DEF firfilter, Computing, Shifted, BufferProducts
<1>2. /\ taps \in Seq(Int) /\ x \in Seq(Int) /\ Len(x) = N /\ Len(taps) = N /\ N \in Nat
      /\ n \in 0 .. N /\ Buffered(inputbuffer, x, n, N)
  BY <1>1 DEF FilterResult, N
<1>3. n \in 0 .. N - 1
  BY <1>1, <1>2
<1>4. Buffered(inputbuffer', x, n + 1, N)
  BY ONLY <1>1, <1>2, <1>3, SampleShifted
<1>5. Sum(BufferProducts(taps, inputbuffer', N), N) = Sum(Products(taps, x, n), n + 1)
  BY ONLY <1>2, <1>3, <1>4, BufferSum
<1>6. outputsignal' = [outputsignal EXCEPT ![n] = right.fir[n + 1]]
  BY <1>1, <1>3, <1>5, ConvolutionAt
<1>7. QED
  BY <1>1, <1>4, <1>6, OutputAdded

\* Lab 4 adds the products in the other order, and leaves out the first tap,
\* which is zero.
LEMMA Lab4Sum ==
  ASSUME NEW size \in Nat, NEW taps \in Seq(Int), NEW x \in Seq(Int),
         Len(taps) = size, Len(x) = size, NEW m \in 0 .. size - 1, taps[1] = 0
  PROVE  Sum(Lab4Products(taps, x, m), m) = Sum(Products(taps, x, m), m + 1)
<1> DEFINE f == Products(taps, x, m)
           g == WithoutFirst(f, m)
           h == Lab4Products(taps, x, m)
           back == Backwards(g, m)
<1> USE DEF Products, WithoutFirst, Lab4Products, Backwards
<1>1. \A i \in 0 .. size - 1 : taps[i + 1] \in Int /\ x[i + 1] \in Int
  OBVIOUS
<1>2. \A k \in 0 .. m : f[k] \in Int
  <2>1. ASSUME NEW k \in 0 .. m
        PROVE  taps[k + 1] \in Int /\ x[m + 1 - k] \in Int
    <3>1. k \in 0 .. size - 1 /\ m - k \in 0 .. size - 1 /\ (m - k) + 1 = m + 1 - k
      OBVIOUS
    <3>2. QED
      BY <1>1, <3>1
  <2>2. QED
    BY <2>1
<1>3. f[0] = 0
  <2>1. x[m + 1 - 0] \in Int /\ taps[0 + 1] = 0
    BY <1>1
  <2>2. QED
    BY <2>1
<1>4. Sum(f, m + 1) = Sum(g, m)
  <2>1. Sum(f, m + 1) = f[0] + Sum(g, m)
    <3> HIDE DEF f, Products, WithoutFirst
    <3>1. QED
      BY <1>2, SumFromFront
  <2>2. \A k \in 0 .. m - 1 : g[k] \in Int
    BY <1>2
  <2> HIDE DEF f, g
  <2>3. Sum(g, m) \in Int
    BY <2>2, SumIsInt
  <2>4. QED
    BY <1>3, <2>1, <2>3
<1>5. Sum(g, m) = Sum(back, m)
  <2>1. \A k \in 0 .. m - 1 : g[k] \in Int
    BY <1>2
  <2> HIDE DEF g, Backwards
  <2>2. QED
    BY <2>1, SumReversed
<1>6. Sum(back, m) = Sum(h, m)
  <2>1. ASSUME NEW k \in 0 .. m - 1
        PROVE  back[k] = h[k]
    <3>1. m - 1 - k \in 0 .. m - 1 /\ (m - 1 - k) + 1 \in 0 .. m
      OBVIOUS
    <3>2. back[k] = f[(m - 1 - k) + 1]
      BY <3>1
    <3>3. ((m - 1 - k) + 1) + 1 = m - k + 1 /\ m + 1 - ((m - 1 - k) + 1) = k + 1
      OBVIOUS
    <3>4. QED
      BY <3>1, <3>2, <3>3
  <2> HIDE DEF back, h
  <2>2. QED
    BY <2>1, SumOfEquals
<1>7. QED
  BY <1>4, <1>5, <1>6

\* One output of lab 4's filter.
LEMMA FirLab4Step ==
  ASSUME FilterResult, firLab4
  PROVE  FilterResult'
<1> DEFINE taps == filter.taps
           x == filter.inputsignal
           sum == Sum(Lab4Products(taps, x, n), n)
<1>1. /\ Computing("fir") /\ program = "exmem" /\ n < N /\ n' = n + 1
      /\ UNCHANGED <<program, filter, task, stage, right>>
      /\ outputsignal' = [outputsignal EXCEPT ![n] = outputsignal[n] + sum]
  BY DEF firLab4, Computing, Lab4Products
<1>2. /\ taps \in Seq(Int) /\ x \in Seq(Int) /\ Len(x) = N /\ Len(taps) = N /\ N \in Nat
      /\ n \in 0 .. N /\ taps[1] = 0
      /\ \A e \in n .. N - 1 : outputsignal[e] = 0
  BY <1>1 DEF FilterResult, N
<1>3. n \in 0 .. N - 1 /\ n \in n .. N - 1
  BY <1>1, <1>2
<1>4. sum = Sum(Products(taps, x, n), n + 1)
  BY ONLY <1>2, <1>3, Lab4Sum
<1>5. sum \in Int
  <2>1. \A j \in 0 .. n - 1 : Lab4Products(taps, x, n)[j] \in Int
    <3>1. ASSUME NEW j \in 0 .. n - 1
          PROVE  taps[n - j + 1] \in Int /\ x[j + 1] \in Int
      <4>1. n - j + 1 \in 1 .. N /\ j + 1 \in 1 .. N
        BY <1>2, <1>3
      <4>2. QED
        BY <1>2, <4>1
    <3>2. QED
      BY <3>1 DEF Lab4Products
  <2>2. QED
    BY <1>3, <2>1, SumIsInt
<1> HIDE DEF sum
<1>6. outputsignal[n] + sum = sum
  BY <1>2, <1>3, <1>5
<1>7. outputsignal' = [outputsignal EXCEPT ![n] = right.fir[n + 1]]
  BY <1>1, <1>3, <1>4, <1>6, ConvolutionAt
<1>8. QED
  BY <1>1, <1>7, OutputAdded

\* The outputs are right, whatever else happens.
LEMMA FilterKept ==
  ASSUME FilterResult, Next
  PROVE  FilterResult'
<1> DEFINE Rest == UNCHANGED <<program, filter, inputbuffer, outputsignal, right>>
<1>1. CASE Rest /\ UNCHANGED <<task, stage, n>>
  BY <1>1 DEF FilterResult, Computing, Showing, N
<1>2. CASE /\ Rest /\ ~Computing("fir")' /\ ~Showing("fir")' /\ (stage' = "init" => n' = 0)
  BY <1>2 DEF FilterResult, N
<1>3. CASE BenchStep \/ qsort
  BY <1>1, <1>3 DEF BenchStep, qsort, firVars, mainVars
<1>4. CASE matmul
  <2>1. Rest /\ task' = "matmul" /\ stage' = "compute"
    BY <1>4 DEF matmul, firVars
  <2>2. QED
    BY <1>2, <2>1 DEF Computing, Showing
<1>5. CASE MainStart \/ MainNext \/ MainEnd
  <2>1. Rest /\ (stage' \in {"flag", "end"} \/ (task' = "done" /\ stage' = stage /\ n' = n))
    BY <1>5 DEF MainStart, MainNext, MainEnd, firVars
  <2>2. stage = "init" => n = 0
    BY DEF FilterResult
  <2>3. QED
    BY <1>2, <2>1, <2>2 DEF Computing, Showing
<1>6. CASE MainCall
  <2>1. /\ Rest /\ n' = 0 /\ task' = task
        /\ stage' = IF task = "fir" THEN "init" ELSE "compute"
    BY <1>6 DEF MainCall, firVars
  <2>2. QED
    BY <1>2, <2>1 DEF Computing, Showing
<1>7. CASE initfir
  <2>1. /\ UNCHANGED <<program, filter, right>> /\ task' = "fir" /\ stage' = "compute" /\ n' = n
        /\ stage = "init"
        /\ inputbuffer' = [i \in 0 .. N - 1 |-> 0]
        /\ outputsignal' = [i \in 0 .. N - 1 |-> 0]
    BY <1>7 DEF initfir
  <2>2. n = 0 /\ N \in Nat
    BY <2>1 DEF FilterResult, N
  <2>3. Buffered(inputbuffer', filter.inputsignal, 0, N)
    BY <2>1 DEF Buffered
  <2>4. /\ Indexed(outputsignal', N)
        /\ \A e \in 0 .. N - 1 : outputsignal'[e] = 0
        /\ 0 \in 0 .. N /\ \A e \in 0 .. 0 - 1 : FALSE
    BY <2>1, <2>2 DEF Indexed
  <2>5. N' = N
    BY <2>1 DEF N
  <2>6. QED
    BY <2>1, <2>2, <2>3, <2>4, <2>5 DEF FilterResult, Computing, Showing
<1>8. CASE MainShow
  <2>1. Rest /\ task' = task /\ stage = "show" /\ stage' = "show" /\ n' = n + 1
    BY <1>8 DEF MainShow, firVars
  <2>2. QED
    BY <2>1 DEF FilterResult, Computing, Showing, N
<1>9. CASE MainReturn
  <2>1. Rest /\ task' = task /\ stage = "compute" /\ stage' = "show" /\ n' = 0 /\ Computed
    BY <1>9 DEF MainReturn, firVars
  <2>2. CASE task = "fir"
    <3>1. n = N
      BY <2>1, <2>2 DEF Computed
    <3>2. \A e \in 0 .. N - 1 : outputsignal[e] = right.fir[e + 1]
      BY <2>1, <2>2, <3>1 DEF FilterResult, Computing
    <3>3. QED
      BY <2>1, <3>2 DEF FilterResult, Computing, Showing, N
  <2>3. CASE task # "fir"
    BY <1>2, <2>1, <2>3 DEF Computing, Showing
  <2>4. QED
    BY <2>2, <2>3
<1>10. QED
  BY <1>3, <1>4, <1>5, <1>6, <1>7, <1>8, <1>9, FirfilterStep, FirLab4Step DEF Next, MainStep

\* Nothing is computed yet.
LEMMA InitResults == Init => ResultInv
<1> SUFFICES ASSUME Init
             PROVE  ResultInv
  OBVIOUS
<1>1. Stages /\ ArrayResult
  BY DEF Init, Stages, ArrayResult
<1>2. MatrixResult
  <2>1. mat.size \in Nat /\ right.matmul = Product(mat)
    BY FactorsAssumption DEF Init
  <2>2. Indexed(result, mat.size * mat.size)
    BY DEF Init, Indexed
  <2>3. ~Computing("matmul") /\ ~Showing("matmul")
    BY DEF Init, Computing, Showing
  <2>4. QED
    BY <2>1, <2>2, <2>3 DEF MatrixResult
<1>3. FilterResult
  <2>1. /\ filter.taps \in Seq(Int) /\ filter.inputsignal \in Seq(Int)
        /\ Len(filter.inputsignal) = N
    BY FiltersAssumption DEF Init, N
  <2>2. /\ Indexed(outputsignal, N)
        /\ program = "exmem" => filter.taps[1] = 0
        /\ right.fir = Convolution(filter)
        /\ task = "start" /\ stage = "none"
    BY DEF Init, Indexed
  <2>3. QED
    BY <2>1, <2>2 DEF FilterResult, Computing, Showing
<1>4. QED
  BY <1>1, <1>2, <1>3 DEF ResultInv

\* What is computed so far is right.
THEOREM ResultInvariance == Spec => []ResultInv
<1>1. IInv /\ ResultInv /\ Next => ResultInv'
  BY StagesKept, MatrixKept, ArrayKept, FilterKept DEF ResultInv
<1>2. ResultInv /\ UNCHANGED vars => ResultInv'
  BY DEF ResultInv, Stages, Tasks, MatrixResult, ArrayResult, FilterResult, Computing, Showing, N,
         vars, sortVars, matVars, firVars, mainVars
<1>3. QED
  BY InitResults, <1>1, <1>2, Invariance, PTL DEF Spec

\* What main is showing is right.
LEMMA ResultsInHand ==
  ASSUME IInv, SortFinished, ResultInv
  PROVE  ResultsAreRight
<1> SUFFICES ASSUME stage = "show"
             PROVE  Values = [e \in DOMAIN Values |-> right[task][e + 1]]
  BY DEF ResultsAreRight
<1>1. task \in {"matmul", "qsort", "fir"}
  BY DEF ResultInv, Stages, Tasks, Programs
<1>2. CASE task = "matmul"
  <2>1. Values = result
    BY <1>2 DEF Values
  <2>2. /\ result = [e \in 0 .. mat.size * mat.size - 1 |-> result[e]]
        /\ \A e \in DOMAIN result : result[e] = right.matmul[e + 1]
    BY <1>2 DEF ResultInv, MatrixResult, Showing, Indexed
  <2>3. right[task] = right.matmul
    BY <1>2
  <2>4. QED
    BY <2>1, <2>2, <2>3
<1>3. CASE task = "qsort"
  <2>1. Values = arr_A /\ right[task] = right.qsort
    BY <1>3 DEF Values
  <2>2. Size \in Nat /\ arr_A \in [0 .. Size - 1 -> Int] /\ SortedIn(arr_A, 0, Size - 1)
    BY <1>3 DEF IInv, Types, SortFinished
  <2>3. right.qsort = [e \in 1 .. Size |-> arr_A[e - 1]]
    BY <2>2, SortedByRank DEF ResultInv, ArrayResult
  <2>4. \A e \in 0 .. Size - 1 : right.qsort[e + 1] = arr_A[e]
    <3>1. ASSUME NEW e \in 0 .. Size - 1
          PROVE  e + 1 \in 1 .. Size /\ (e + 1) - 1 = e
      BY <2>2
    <3>2. QED
      BY <2>3, <3>1
  <2>5. QED
    BY <2>1, <2>2, <2>4
<1>4. CASE task = "fir"
  <2>1. Values = outputsignal /\ right[task] = right.fir
    BY <1>4 DEF Values
  <2>2. /\ outputsignal = [e \in 0 .. N - 1 |-> outputsignal[e]]
        /\ \A e \in 0 .. N - 1 : outputsignal[e] = right.fir[e + 1]
    BY <1>4 DEF ResultInv, FilterResult, Showing, Indexed
  <2>3. QED
    BY <2>1, <2>2
<1>5. QED
  BY <1>1, <1>2, <1>3, <1>4

\* Every result is what its definition says: the product of the matrices, the
\* elements of the array by their rank, the convolution.
THEOREM ResultsRight == Spec => []ResultsAreRight
<1>1. QED
  BY ResultsInHand, Invariance, ResultInvariance, PTL

-----------------------------------------------------------------------------
(* The processes keep step.  ShownTo moves by one value at a time, and with  *)
(* the value on the pins; a process of a workload that has shown nothing yet *)
(* has seen nothing, since what it waits for first is not on the pins.       *)

Workloads == {"matmul", "qsort", "fir"}
Elements(t) == CASE t = "matmul" -> mat.size * mat.size [] t = "qsort" -> Size [] t = "fir" -> N

\* main shows elements that there are.
ElementInRange == stage = "show" => n \in 0 .. Elements(task)

\* What a process waits for first is not on the pins before it is its turn.
Unheard(u) ==
  ShownTo(u) = 0 /\ Len(Expected(u)) > 0 => checkbits # Expected(u)[1]

\* What the testbench has seen, from before its processes are started.
Watching ==
  /\ bench = [x \in {"main"} \cup Workloads |-> bench[x]]
  /\ bench.main \in {"start", "forked", "finished"}
  /\ \A t \in Processes : bench[t] \in 0 .. Len(Expected(t))
  /\ task = "start" => bench.main = "start" /\ checkbits = 0
  /\ bench.main = "start" =>
       /\ \A t \in Processes : bench[t] = 0 /\ ShownTo(t) = 0
       /\ task = "start" \/ checkbits = StartTask
  /\ bench.main = "finished" => Joined

StepInv ==
  /\ ElementInRange /\ Watching /\ ProcessesKeepStep
  /\ task # "start" /\ ResultsAreTelling => \A u \in Processes : Unheard(u)

\* The order of the workloads.
LEMMA Places ==
  ASSUME program \in Programs
  PROVE  /\ program = "integrate" =>
              /\ ToSet(Tasks) = Workloads /\ DOMAIN Tasks = 1 .. 3 /\ Last(Tasks) = "fir"
              /\ Tasks[1] = "matmul" /\ Tasks[2] = "qsort" /\ Tasks[3] = "fir"
              /\ Place("matmul") = 1 /\ Place("qsort") = 2 /\ Place("fir") = 3
         /\ program # "integrate" =>
              \E t \in Workloads : /\ ToSet(Tasks) = {t} /\ DOMAIN Tasks = {1} /\ Last(Tasks) = t
                                   /\ Tasks[1] = t /\ Place(t) = 1
<1>1. ASSUME program = "integrate"
      PROVE  /\ ToSet(Tasks) = Workloads /\ DOMAIN Tasks = 1 .. 3 /\ Last(Tasks) = "fir"
             /\ Tasks[1] = "matmul" /\ Tasks[2] = "qsort" /\ Tasks[3] = "fir"
             /\ Place("matmul") = 1 /\ Place("qsort") = 2 /\ Place("fir") = 3
  <2>1. Tasks = <<"matmul", "qsort", "fir">>
    BY <1>1 DEF Tasks
  <2>2. /\ DOMAIN Tasks = 1 .. 3 /\ Len(Tasks) = 3
        /\ Tasks[1] = "matmul" /\ Tasks[2] = "qsort" /\ Tasks[3] = "fir"
    BY <2>1
  <2>3. ToSet(Tasks) = Workloads
    BY <2>2 DEF ToSet, Workloads
  <2>4. Place("matmul") = 1 /\ Place("qsort") = 2 /\ Place("fir") = 3
    BY <2>2 DEF Place
  <2>5. QED
    BY <2>2, <2>3, <2>4 DEF Last
<1>2. ASSUME program # "integrate"
      PROVE  \E t \in Workloads : /\ ToSet(Tasks) = {t} /\ DOMAIN Tasks = {1} /\ Last(Tasks) = t
                                  /\ Tasks[1] = t /\ Place(t) = 1
  <2>1. PICK t \in Workloads : Tasks = <<t>>
    BY <1>2 DEF Tasks, Programs, Workloads
  <2>2. DOMAIN Tasks = {1} /\ Len(Tasks) = 1 /\ Tasks[1] = t
    BY <2>1
  <2>3. ToSet(Tasks) = {t}
    BY <2>2 DEF ToSet
  <2>4. Place(t) = 1
    BY <2>2 DEF Place
  <2>5. QED
    BY <2>2, <2>3, <2>4 DEF Last
<1>3. QED
  BY <1>1, <1>2

\* A process is one of a workload, and main is at one unless it begins or ends.
LEMMA AtWorkload ==
  ASSUME Stages
  PROVE  /\ Processes \subseteq ToSet(Tasks) /\ ToSet(Tasks) \subseteq Workloads
         /\ \A t \in ToSet(Tasks) : Place(t) \in 1 .. 3
         /\ \A t, u \in ToSet(Tasks) : Place(t) = Place(u) => t = u
         /\ task \in {"start", "end", "done"} \/ task \in ToSet(Tasks)
<1>1. /\ ToSet(Tasks) \subseteq Workloads
      /\ \A t \in ToSet(Tasks) : Place(t) \in 1 .. 3
      /\ \A t, u \in ToSet(Tasks) : Place(t) = Place(u) => t = u
  BY Places DEF Stages, Workloads
<1>2. Processes \subseteq ToSet(Tasks)
  BY DEF Processes
<1>3. task \in {"start", "end", "done"} \/ task \in ToSet(Tasks)
  BY DEF Stages, ToSet
<1>4. QED
  BY <1>1, <1>2, <1>3

\* A process waits for the flag of its workload, if there is one, each of its
\* results, and the flag of its end.
LEMMA ExpectedIs ==
  ASSUME IInv, ResultInv, NEW t \in Workloads
  PROVE  /\ Elements(t) \in Nat
         /\ DOMAIN right[t] = 1 .. Elements(t)
         /\ program = "integrate" =>
              /\ Len(Expected(t)) = Elements(t) + 2
              /\ Expected(t)[1] = StartFlag(t) /\ Expected(t)[Elements(t) + 2] = EndFlag(t)
              /\ \A e \in 1 .. Elements(t) : Expected(t)[e + 1] = HalfWord(right[t][e])
         /\ program # "integrate" =>
              /\ Len(Expected(t)) = Elements(t)
              /\ \A e \in 1 .. Elements(t) : Expected(t)[e] = HalfWord(right[t][e])
<1>1. Elements(t) \in Nat /\ DOMAIN right[t] = 1 .. Elements(t)
  <2>1. CASE t = "matmul"
    <3>1. mat.size \in Nat /\ right.matmul = Product(mat)
      BY DEF ResultInv, MatrixResult
    <3>2. mat.size * mat.size \in Nat /\ DOMAIN right.matmul = 1 .. mat.size * mat.size
      BY <3>1 DEF Product
    <3>3. QED
      BY <2>1, <3>2 DEF Elements
  <2>2. CASE t = "qsort"
    <3>1. Size \in Nat /\ right.qsort = Sorted(arr_A)
      BY DEF IInv, Types, ResultInv, ArrayResult
    <3>2. DOMAIN right.qsort = 1 .. Size
      BY <3>1 DEF Sorted, Size
    <3>3. QED
      BY <2>2, <3>1, <3>2 DEF Elements
  <2>3. CASE t = "fir"
    <3>1. filter.taps \in Seq(Int) /\ right.fir = Convolution(filter)
      BY DEF ResultInv, FilterResult
    <3>2. N \in Nat /\ DOMAIN right.fir = 1 .. N
      BY <3>1 DEF Convolution, N
    <3>3. QED
      BY <2>3, <3>2 DEF Elements
  <2>4. QED
    BY <2>1, <2>2, <2>3 DEF Workloads
<1> DEFINE shown == [e \in DOMAIN right[t] |-> HalfWord(right[t][e])]
           S == {HalfWord(right[t][e]) : e \in DOMAIN right[t]} \cup {StartFlag(t), EndFlag(t)}
           size == Elements(t)
<1>2. shown \in Seq(S) /\ Len(shown) = size /\ \A e \in 1 .. size : shown[e] = HalfWord(right[t][e])
  <2>1. shown \in [1 .. size -> S]
    BY <1>1
  <2>2. QED
    BY <1>1, <2>1, IsASeq, LenProperties
<1>3. CASE program = "integrate"
  <2> DEFINE first == <<StartFlag(t)>>
             last == <<EndFlag(t)>>
             most == first \o shown
  <2>1. Expected(t) = most \o last
    BY <1>3 DEF Expected
  <2>2. /\ first \in Seq(S) /\ Len(first) = 1 /\ first[1] = StartFlag(t)
        /\ last \in Seq(S) /\ Len(last) = 1 /\ last[1] = EndFlag(t)
    OBVIOUS
  <2> HIDE DEF shown, first, last, S, size
  <2>3. /\ most \in Seq(S) /\ Len(most) = size + 1 /\ most[1] = StartFlag(t)
        /\ \A e \in 1 .. size : most[e + 1] = shown[e]
    <3>1. /\ most \in Seq(S) /\ Len(most) = Len(first) + Len(shown)
          /\ \A i \in 1 .. Len(first) + Len(shown) :
               most[i] = IF i <= Len(first) THEN first[i] ELSE shown[i - Len(first)]
      BY <1>2, <2>2, ConcatProperties
    <3> HIDE DEF most
    <3>2. size \in Nat
      BY <1>1 DEF size
    <3>3. \A e \in 1 .. size : most[e + 1] = shown[e]
      <4>1. SUFFICES ASSUME NEW e \in 1 .. size PROVE most[e + 1] = shown[e]
        OBVIOUS
      <4>2. e + 1 \in 1 .. 1 + size /\ ~(e + 1 <= 1) /\ (e + 1) - 1 = e
        BY <3>2
      <4>3. QED
        BY <1>2, <2>2, <3>1, <4>2
    <3>4. QED
      BY <1>2, <2>2, <3>1, <3>2, <3>3
  <2> HIDE DEF most
  <2> DEFINE all == most \o last
  <2>4. /\ Len(all) = size + 2 /\ all[1] = StartFlag(t) /\ all[size + 2] = EndFlag(t)
        /\ \A e \in 1 .. size : all[e + 1] = shown[e]
    <3>1. /\ Len(all) = Len(most) + Len(last)
          /\ \A i \in 1 .. Len(most) + Len(last) :
               all[i] = IF i <= Len(most) THEN most[i] ELSE last[i - Len(most)]
      BY <2>2, <2>3, ConcatProperties
    <3> HIDE DEF all
    <3>2. size \in Nat
      BY <1>1 DEF size
    <3>3. \A i \in 1 .. size + 1 : all[i] = most[i]
      BY <2>2, <2>3, <3>1, <3>2
    <3>4. all[size + 2] = last[1]
      <4>1. size + 2 \in 1 .. (size + 1) + 1 /\ ~(size + 2 <= size + 1) /\ (size + 2) - (size + 1) = 1
        BY <3>2
      <4>2. QED
        BY <2>2, <2>3, <3>1, <4>1
    <3>5. \A e \in 1 .. size : all[e + 1] = shown[e]
      BY <2>3, <3>2, <3>3
    <3>6. QED
      BY <2>2, <2>3, <3>1, <3>2, <3>3, <3>4, <3>5
  <2>5. QED
    BY <1>1, <1>2, <1>3, <2>1, <2>4 DEF size
<1>4. CASE program # "integrate"
  BY <1>1, <1>2, <1>4 DEF Expected
<1>5. QED
  BY <1>1, <1>3, <1>4

\* What has been shown for a process, by where main is.
LEMMA ShownIs ==
  ASSUME IInv, ResultInv, ElementInRange, NEW u \in Processes
  PROVE  /\ u \in Workloads /\ Place(u) \in 1 .. 3
         /\ Len(Expected(u)) \in Nat /\ Len(Expected(u)) >= FlagsRaised
         /\ task = "start" => ShownTo(u) = 0
         /\ task \in {"end", "done"} => ShownTo(u) = Len(Expected(u))
         /\ task = u => ShownTo(u) = IF stage = "flag" THEN 0
                                     ELSE FlagsRaised + (IF stage = "show" THEN n ELSE 0)
         /\ task \in Workloads \ {u} =>
              ShownTo(u) = IF Place(u) < Place(task) THEN Len(Expected(u)) ELSE 0
         /\ ShownTo(u) \in 0 .. Len(Expected(u))
<1>1. u \in Workloads /\ Place(u) \in 1 .. 3 /\ u \in ToSet(Tasks)
  BY AtWorkload DEF ResultInv
<1>2. Elements(u) \in Nat /\ Len(Expected(u)) = Elements(u) + 2 * FlagsRaised
  BY <1>1, ExpectedIs DEF FlagsRaised
<1>3. FlagsRaised \in {0, 1} /\ Len(Expected(u)) \in Nat /\ Len(Expected(u)) >= FlagsRaised
  BY <1>2 DEF FlagsRaised
<1>4. task = "start" => ShownTo(u) = 0
  BY <1>1 DEF ShownTo, HasEnded, Workloads
<1>5. task \in {"end", "done"} => ShownTo(u) = Len(Expected(u))
  BY DEF ShownTo, HasEnded
<1>6. task = u => ShownTo(u) = IF stage = "flag" THEN 0
                               ELSE FlagsRaised + (IF stage = "show" THEN n ELSE 0)
  <2>1. SUFFICES ASSUME task = u
                 PROVE  ShownTo(u) = IF stage = "flag" THEN 0
                                     ELSE FlagsRaised + (IF stage = "show" THEN n ELSE 0)
    OBVIOUS
  <2>2. ~HasEnded(u)
    BY <1>1, <2>1 DEF HasEnded, Workloads
  <2>3. QED
    BY <2>1, <2>2 DEF ShownTo
<1>7. task \in Workloads \ {u} =>
        ShownTo(u) = IF Place(u) < Place(task) THEN Len(Expected(u)) ELSE 0
  BY DEF ShownTo, HasEnded, Workloads
<1>8. ShownTo(u) \in 0 .. Len(Expected(u))
  <2>1. CASE task = u
    <3>1. stage = "show" => n \in 0 .. Elements(u)
      BY <2>1 DEF ElementInRange
    <3>2. QED
      BY <1>2, <1>3, <1>6, <2>1, <3>1
  <2>2. CASE task # u
    <3>1. task \in {"start", "end", "done"} \/ task \in Workloads \ {u}
      BY <2>2, AtWorkload DEF ResultInv
    <3>2. QED
      BY <1>3, <1>4, <1>5, <1>7, <3>1
  <2>3. QED
    BY <2>1, <2>2
<1>9. QED
  BY <1>1, <1>3, <1>4, <1>5, <1>6, <1>7, <1>8

\* The elements that main shows, in the order of its loop.
LEMMA ShownElements ==
  ASSUME IInv, ResultInv, stage = "show"
  PROVE  task \in Workloads /\ DOMAIN Values = 0 .. Elements(task) - 1
<1>1. task \in Workloads
  BY AtWorkload DEF ResultInv, Stages
<1>2. CASE task = "matmul"
  <2>1. DOMAIN result = 0 .. mat.size * mat.size - 1
    BY DEF ResultInv, MatrixResult, Indexed
  <2>2. Values = result /\ Elements(task) = mat.size * mat.size
    BY <1>2 DEF Values, Elements
  <2>3. QED
    BY <1>1, <2>1, <2>2
<1>3. CASE task = "qsort"
  <2>1. DOMAIN arr_A = 0 .. Size - 1
    BY DEF IInv, Types
  <2>2. Values = arr_A /\ Elements(task) = Size
    BY <1>3 DEF Values, Elements
  <2>3. QED
    BY <1>1, <2>1, <2>2
<1>4. CASE task = "fir"
  <2>1. DOMAIN outputsignal = 0 .. N - 1
    BY DEF ResultInv, FilterResult, Indexed
  <2>2. Values = outputsignal /\ Elements(task) = N
    BY <1>4 DEF Values, Elements
  <2>3. QED
    BY <1>1, <2>1, <2>2
<1>5. QED
  BY <1>1, <1>2, <1>3, <1>4 DEF Workloads

\* What the processes wait for does not change.
LEMMA SameTasks ==
  ASSUME Next
  PROVE  /\ program' = program /\ right' = right /\ Tasks' = Tasks /\ Processes' = Processes
         /\ StartTask' = StartTask /\ FlagsRaised' = FlagsRaised
         /\ Signals' = Signals /\ ResultsAreTelling' = ResultsAreTelling
         /\ \A u : Expected(u)' = Expected(u) /\ Place(u)' = Place(u)
<1>1. program' = program /\ right' = right
  BY DEF Next, MainStep, BenchStep, MainStart, MainCall, matmul, qsort, initfir, firfilter, firLab4,
         MainReturn, MainShow, MainNext, MainEnd
<1>2. Tasks' = Tasks
  BY <1>1 DEF Tasks
<1>3. QED
  BY <1>1, <1>2 DEF Processes, StartTask, FlagsRaised, Signals, ResultsAreTelling, Expected, Place

\* The value that main shows next for its workload.
LEMMA NextShown ==
  ASSUME IInv, SortFinished, ResultInv, ElementInRange, task \in Processes, MainShow
  PROVE  checkbits' = Expected(task)[FlagsRaised + n + 1] /\ n + 1 \in 1 .. Elements(task)
         /\ checkbits' = HalfWord(right[task][n + 1])
<1>1. task \in Workloads /\ n \in 0 .. Elements(task) - 1 /\ Elements(task) \in Nat
  <2>1. task \in Workloads /\ n \in 0 .. Elements(task) - 1
    BY ShownElements DEF MainShow
  <2>2. QED
    BY <2>1, ExpectedIs
<1>2. Values[n] = right[task][n + 1]
  BY ResultsInHand DEF MainShow, ResultsAreRight
<1>3. checkbits' = HalfWord(right[task][n + 1])
  BY <1>2 DEF MainShow, Shown
<1>4. n + 1 \in 1 .. Elements(task)
  BY <1>1
<1>5. Expected(task)[FlagsRaised + n + 1] = HalfWord(right[task][n + 1])
  <2>1. CASE program = "integrate"
    <3>1. Expected(task)[(n + 1) + 1] = HalfWord(right[task][n + 1])
      BY <1>1, <1>4, <2>1, ExpectedIs
    <3>2. FlagsRaised + n + 1 = (n + 1) + 1
      BY <1>1, <2>1 DEF FlagsRaised
    <3>3. QED
      BY <3>1, <3>2
  <2>2. CASE program # "integrate"
    <3>1. Expected(task)[n + 1] = HalfWord(right[task][n + 1])
      BY <1>1, <1>4, <2>2, ExpectedIs
    <3>2. FlagsRaised + n + 1 = n + 1
      BY <1>1, <2>2 DEF FlagsRaised
    <3>3. QED
      BY <3>1, <3>2
  <2>3. QED
    BY <2>1, <2>2
<1>6. QED
  BY <1>3, <1>4, <1>5

\* After a workload comes the next, or the end.
LEMMA WorkloadEnds ==
  ASSUME Stages, MainNext
  PROVE  /\ task \in ToSet(Tasks)
         /\ \A u \in ToSet(Tasks) : HasEnded(u)' <=> (HasEnded(u) \/ u = task)
         /\ stage' = "flag" \/ task' = "end"
<1>1. program' = program /\ Tasks' = Tasks /\ stage = "show" /\ (stage' = "flag" \/ task' = "end")
  BY DEF MainNext, Tasks
<1>2. task \in ToSet(Tasks) /\ task \in Workloads
  BY <1>1, AtWorkload DEF Stages
<1>3. \/ task' = "end" /\ task = Last(Tasks)
      \/ task' = Tasks[1 + Place(task)] /\ task # Last(Tasks)
  BY DEF MainNext, Place
<1>4. \A u : Place(u)' = Place(u)
  BY <1>1 DEF Place
<1>5. ASSUME NEW u \in ToSet(Tasks)
      PROVE  HasEnded(u)' <=> (HasEnded(u) \/ u = task)
  <2>1. HasEnded(u) <=> Place(u) < Place(task)
    BY <1>2 DEF HasEnded, Workloads
  <2>2. CASE program = "integrate"
    <3>1. u \in Workloads
      BY <1>5, <2>2, Places DEF Stages
    <3>2. /\ task' = "end" => task = "fir"
          /\ task' # "end" => task' \in {"qsort", "fir"} /\ Place(task') = 1 + Place(task)
      <4>1. CASE task = "fir"
        BY <1>3, <2>2, <4>1, Places DEF Stages
      <4>2. CASE task # "fir"
        <5>1. task' = Tasks[1 + Place(task)] /\ task \in {"matmul", "qsort"}
          BY <1>2, <1>3, <2>2, <4>2, Places DEF Stages, Workloads
        <5>2. task' \in {"qsort", "fir"} /\ Place(task') = 1 + Place(task)
          BY <2>2, <5>1, Places DEF Stages
        <5>3. QED
          BY <5>2
      <4>3. QED
        BY <4>1, <4>2
    <3>3. task' # "end" => (HasEnded(u)' <=> Place(u) < 1 + Place(task))
      BY <1>4, <3>2 DEF HasEnded
    <3>4. task' = "end" => HasEnded(u)'
      BY DEF HasEnded
    <3>5. Place(u) < 1 + Place(task) <=> (Place(u) < Place(task) \/ u = task)
      BY <1>2, <1>5, AtWorkload
    <3>6. task' = "end" => (Place(u) < Place(task) \/ u = task)
      BY <2>2, <3>1, <3>2, Places DEF Stages, Workloads
    <3>7. QED
      BY <2>1, <3>3, <3>4, <3>5, <3>6
  <2>3. CASE program # "integrate"
    <3>1. u = task /\ task = Last(Tasks)
      BY <1>2, <2>3, <1>5, Places DEF Stages
    <3>2. QED
      BY <1>3, <3>1 DEF HasEnded
  <2>4. QED
    BY <2>2, <2>3
<1>6. QED
  BY <1>1, <1>2, <1>5

\* A step of main leaves what it has shown for a process as it is, or shows the
\* next value for it; other values are shown before it begins and after it ends.
LEMMA MainMoves ==
  ASSUME IInv, SortFinished, ResultInv, ElementInRange, MainStep, Next, NEW u \in Processes
  PROVE  \/ /\ ShownTo(u)' = ShownTo(u) + 1 /\ ShownTo(u) + 1 <= Len(Expected(u))
            /\ checkbits' = Expected(u)[ShownTo(u) + 1]
         \/ /\ ShownTo(u)' = ShownTo(u)
            /\ checkbits' = checkbits \/ ShownTo(u) \in {0, Len(Expected(u))}
<1>1. /\ u \in Workloads /\ u \in ToSet(Tasks) /\ Place(u) \in 1 .. 3
      /\ u \in Processes' /\ FlagsRaised' = FlagsRaised /\ program' = program
      /\ Expected(u)' = Expected(u) /\ \A t : Place(t)' = Place(t)
      /\ FlagsRaised \in {0, 1} /\ Len(Expected(u)) \in Nat
      /\ ToSet(Tasks) \subseteq Workloads
  BY ShownIs, SameTasks, AtWorkload DEF FlagsRaised, ResultInv
<1>2. CASE matmul \/ qsort \/ initfir \/ firfilter \/ firLab4
  <2>1. /\ checkbits' = checkbits /\ task' = task
        /\ stage \in {"init", "compute"} /\ stage' \in {"init", "compute"}
    BY <1>2 DEF matmul, qsort, initfir, firfilter, firLab4, mainVars
  <2>2. ShownTo(u)' = ShownTo(u)
    BY <1>1, <2>1 DEF ShownTo, HasEnded
  <2>3. QED
    BY <2>1, <2>2
<1>3. CASE MainStart
  <2>1. ShownTo(u) = 0
    BY <1>3, ShownIs DEF MainStart
  <2>2. task' = Tasks[1] /\ stage' = "flag"
    BY <1>3 DEF MainStart
  <2>3. Place(task') = 1 /\ task' \in Workloads
    BY <2>2, Places DEF ResultInv, Stages, Workloads
  <2>4. ~HasEnded(u)'
    BY <1>1, <2>3 DEF HasEnded, Workloads
  <2>5. ShownTo(u)' = 0
    BY <2>2, <2>4 DEF ShownTo
  <2>6. QED
    BY <2>1, <2>5
<1>4. CASE MainCall
  <2>1. /\ stage = "flag" /\ stage' \in {"init", "compute"} /\ task' = task
        /\ checkbits' = IF program = "integrate" THEN StartFlag(task) ELSE checkbits
    BY <1>4 DEF MainCall, Flag
  <2>2. task \in Workloads /\ task \in ToSet(Tasks)
    BY <1>1, <2>1, AtWorkload DEF ResultInv, Stages
  <2>3. HasEnded(u)' <=> HasEnded(u)
    BY <1>1, <2>1 DEF HasEnded
  <2>4. CASE u = task
    <3>1. ~HasEnded(u)
      BY <1>1, <2>4 DEF HasEnded, Workloads
    <3>2. ShownTo(u) = 0 /\ ShownTo(u)' = FlagsRaised
      BY <1>1, <2>1, <2>3, <2>4, <3>1 DEF ShownTo
    <3>3. CASE program = "integrate"
      <4>1. /\ FlagsRaised = 1 /\ checkbits' = StartFlag(u) /\ Len(Expected(u)) >= 1
            /\ Expected(u)[1] = StartFlag(u)
        BY <1>1, <2>1, <2>4, <3>3, ExpectedIs, ShownIs DEF FlagsRaised
      <4>2. QED
        BY <3>2, <4>1
    <3>4. CASE program # "integrate"
      BY <2>1, <3>2, <3>4 DEF FlagsRaised
    <3>5. QED
      BY <3>3, <3>4
  <2>5. CASE u # task
    <3>1. ShownTo(u)' = ShownTo(u)
      BY <1>1, <2>1, <2>3, <2>5 DEF ShownTo
    <3>2. ShownTo(u) \in {0, Len(Expected(u))}
      BY <2>2, <2>5, ShownIs
    <3>3. QED
      BY <3>1, <3>2
  <2>6. QED
    BY <2>4, <2>5
<1>5. CASE MainReturn
  <2>1. /\ stage = "compute" /\ stage' = "show" /\ task' = task /\ n' = 0 /\ checkbits' = checkbits
    BY <1>5 DEF MainReturn
  <2>2. HasEnded(u)' <=> HasEnded(u)
    BY <1>1, <2>1 DEF HasEnded
  <2>3. ShownTo(u)' = ShownTo(u)
    BY <1>1, <2>1, <2>2 DEF ShownTo
  <2>4. QED
    BY <2>1, <2>3
<1>6. CASE MainShow
  <2>1. /\ stage = "show" /\ stage' = "show" /\ task' = task /\ n' = n + 1
    BY <1>6 DEF MainShow
  <2>2. task \in Workloads /\ task \in ToSet(Tasks) /\ n \in 0 .. Elements(task)
    BY <2>1, AtWorkload DEF ResultInv, Stages, ElementInRange
  <2>3. HasEnded(u)' <=> HasEnded(u)
    BY <1>1, <2>1 DEF HasEnded
  <2>4. CASE u = task
    <3>1. ~HasEnded(u)
      BY <1>1, <2>4 DEF HasEnded, Workloads
    <3>2. ShownTo(u) = FlagsRaised + n /\ ShownTo(u)' = FlagsRaised + (n + 1)
      BY <1>1, <2>1, <2>3, <2>4, <3>1 DEF ShownTo
    <3>3. checkbits' = Expected(u)[FlagsRaised + n + 1]
      BY <1>6, <2>4, NextShown
    <3>4. n + 1 <= Elements(u) /\ n \in Int /\ Elements(u) \in Nat
      BY <1>1, <1>6, <2>2, <2>4, NextShown, ExpectedIs
    <3>5. Elements(u) + FlagsRaised <= Len(Expected(u))
      BY <1>1, <3>4, ExpectedIs DEF FlagsRaised
    <3>6. ShownTo(u) + 1 = FlagsRaised + n + 1 /\ ShownTo(u) + 1 = FlagsRaised + (n + 1)
      BY <1>1, <3>2, <3>4
    <3>7. ShownTo(u) + 1 <= Len(Expected(u))
      BY <1>1, <3>4, <3>5, <3>6
    <3>8. QED
      BY <3>2, <3>3, <3>6, <3>7
  <2>5. CASE u # task
    <3>1. ShownTo(u)' = ShownTo(u)
      BY <1>1, <2>1, <2>3, <2>5 DEF ShownTo
    <3>2. ShownTo(u) \in {0, Len(Expected(u))}
      BY <2>2, <2>5, ShownIs
    <3>3. QED
      BY <3>1, <3>2
  <2>6. QED
    BY <2>4, <2>5
<1>7. CASE MainNext
  <2>1. /\ stage = "show" /\ n \notin DOMAIN Values
        /\ checkbits' = IF program = "integrate" THEN EndFlag(task) ELSE checkbits
    BY <1>7 DEF MainNext, Flag
  <2>2. /\ task \in Workloads /\ task \in ToSet(Tasks)
        /\ HasEnded(u)' <=> (HasEnded(u) \/ u = task)
        /\ stage' = "flag" \/ task' = "end"
    BY <1>1, <1>7, WorkloadEnds DEF ResultInv
  <2>3. n = Elements(task)
    <3>1. n \in 0 .. Elements(task) /\ Elements(task) \in Nat
      BY <2>1, <2>2, ExpectedIs DEF ElementInRange
    <3>2. n \notin 0 .. Elements(task) - 1
      BY <2>1, ShownElements
    <3>3. QED
      BY <3>1, <3>2
  <2>4. CASE u = task
    <3>1. ~HasEnded(u) /\ HasEnded(u)'
      BY <1>1, <2>2, <2>4 DEF HasEnded, Workloads
    <3>2. ShownTo(u) = FlagsRaised + Elements(u) /\ ShownTo(u)' = Len(Expected(u))
      BY <1>1, <2>1, <2>3, <2>4, <3>1 DEF ShownTo
    <3>3. CASE program = "integrate"
      <4>1. /\ FlagsRaised = 1 /\ checkbits' = EndFlag(u) /\ Elements(u) \in Nat
            /\ Len(Expected(u)) = Elements(u) + 2 /\ Expected(u)[Elements(u) + 2] = EndFlag(u)
        BY <1>1, <2>1, <2>4, <3>3, ExpectedIs DEF FlagsRaised
      <4>2. ShownTo(u) + 1 = Elements(u) + 2
        BY <3>2, <4>1
      <4>3. QED
        BY <3>2, <4>1, <4>2
    <3>4. CASE program # "integrate"
      <4>1. FlagsRaised = 0 /\ Len(Expected(u)) = Elements(u) /\ Elements(u) \in Nat
        BY <1>1, <3>4, ExpectedIs DEF FlagsRaised
      <4>2. QED
        BY <2>1, <3>2, <3>4, <4>1
    <3>5. QED
      BY <3>3, <3>4
  <2>5. CASE u # task
    <3>1. ShownTo(u) = IF HasEnded(u) THEN Len(Expected(u)) ELSE 0
      BY <2>5 DEF ShownTo
    <3>2. HasEnded(u)' <=> HasEnded(u)
      BY <2>2, <2>5
    <3>3. ~HasEnded(u) => ShownTo(u)' = 0
      BY <1>1, <2>2, <3>2 DEF ShownTo, Workloads
    <3>4. HasEnded(u) => ShownTo(u)' = Len(Expected(u))
      BY <1>1, <3>2 DEF ShownTo
    <3>5. QED
      BY <3>1, <3>3, <3>4
  <2>6. QED
    BY <2>4, <2>5
<1>8. CASE MainEnd
  <2>1. HasEnded(u) /\ HasEnded(u)'
    BY <1>8 DEF MainEnd, HasEnded
  <2>2. ShownTo(u) = Len(Expected(u)) /\ ShownTo(u)' = Len(Expected(u))
    BY <1>1, <2>1 DEF ShownTo
  <2>3. QED
    BY <2>2
<1>9. QED
  BY <1>2, <1>3, <1>4, <1>5, <1>6, <1>7, <1>8 DEF MainStep

\* Nothing is shown that a process waits for first, before it is its turn.
LEMMA UnheardStep ==
  ASSUME IInv, SortFinished, ResultInv, ElementInRange, MainStep, Next, ResultsAreTelling,
         NEW u \in Processes, task # "start" => Unheard(u)
  PROVE  Unheard(u)'
<1>1. SUFFICES ASSUME ShownTo(u)' = 0, Len(Expected(u)) > 0
               PROVE  checkbits' # Expected(u)[1]
  BY SameTasks DEF Unheard
<1>2. /\ u \in Workloads /\ u \in ToSet(Tasks) /\ Elements(u) \in Nat
      /\ DOMAIN right[u] = 1 .. Elements(u)
  BY AtWorkload, ExpectedIs DEF ResultInv
<1>3. /\ ShownTo(u) = 0
      /\ ~(ShownTo(u)' = ShownTo(u) + 1)
  BY <1>1, MainMoves, ShownIs
<1>4. CASE task # "start" /\ checkbits' = checkbits
  BY <1>1, <1>3, <1>4 DEF Unheard
<1>5. CASE program = "integrate"
  <2>1. Expected(u)[1] = StartFlag(u) /\ StartFlag(u) \in Signals
    BY <1>2, <1>5, ExpectedIs DEF Signals
  <2>2. StartFlag(u) \in {43793, 43809, 43825}
    BY <1>2 DEF StartFlag, Workloads
  <2>3. CASE MainStart
    BY <1>5, <2>1, <2>2, <2>3 DEF MainStart, StartTask
  <2>4. CASE MainCall
    <3>1. /\ checkbits' = StartFlag(task) /\ task \in Workloads
          /\ task' = task /\ stage' # "flag" /\ stage' # "show"
      BY <1>2, <1>5, <2>4, AtWorkload DEF MainCall, Flag, ResultInv, Stages
    <3>2. task # u
      <4>1. ASSUME task = u PROVE FALSE
        <5>1. ~HasEnded(u)'
          BY <1>2, <3>1, <4>1, SameTasks, AtWorkload DEF HasEnded, Workloads, ResultInv
        <5>2. ShownTo(u)' = 1
          BY <1>5, <3>1, <4>1, <5>1, SameTasks DEF ShownTo, FlagsRaised
        <5>3. QED
          BY <1>1, <5>2
      <4>2. QED
        BY <4>1
    <3>3. QED
      BY <1>2, <2>1, <3>1, <3>2 DEF StartFlag, Workloads
  <2>5. CASE MainShow
    <3>1. task \in Workloads /\ task \in ToSet(Tasks) /\ task \in Processes
      BY <1>5, <2>5, AtWorkload DEF MainShow, ResultInv, Stages, Processes
    <3>2. checkbits' = HalfWord(right[task][n + 1]) /\ n + 1 \in 1 .. Elements(task)
      BY <2>5, <3>1, NextShown
    <3>3. checkbits' \notin Signals
      BY <3>1, <3>2, ExpectedIs DEF ResultsAreTelling
    <3>4. QED
      BY <2>1, <3>3
  <2>6. CASE MainNext
    <3>1. checkbits' = EndFlag(task) /\ task \in Workloads
      BY <1>5, <2>6, AtWorkload DEF MainNext, Flag, ResultInv, Stages
    <3>2. StartFlag(task) \in {43793, 43809, 43825}
      BY <3>1 DEF StartFlag, Workloads
    <3>3. checkbits' \in {43801, 43817, 43833}
      BY <3>1, <3>2 DEF EndFlag
    <3>4. QED
      BY <2>1, <2>2, <3>3
  <2>7. CASE MainEnd
    BY <1>1, <1>3, <2>7, ShownIs DEF MainEnd
  <2>8. CASE matmul \/ qsort \/ initfir \/ firfilter \/ firLab4 \/ MainReturn
    <3>1. checkbits' = checkbits /\ stage \in {"init", "compute"}
      BY <2>8 DEF matmul, qsort, initfir, firfilter, firLab4, MainReturn, mainVars
    <3>2. task # "start"
      BY <3>1 DEF ResultInv, Stages
    <3>3. QED
      BY <1>4, <3>1, <3>2
  <2>9. QED
    BY <2>3, <2>4, <2>5, <2>6, <2>7, <2>8 DEF MainStep
<1>6. CASE program # "integrate"
  <2>1. Expected(u)[1] = HalfWord(right[u][1]) /\ 1 \in DOMAIN right[u]
    BY <1>1, <1>2, <1>6, ExpectedIs
  <2>2. Expected(u)[1] \notin Signals
    BY <1>2, <2>1 DEF ResultsAreTelling
  <2>3. CASE MainStart
    BY <2>2, <2>3 DEF MainStart, Signals
  <2>4. CASE MainShow
    <3>1. task \in ToSet(Tasks) /\ task = u
      BY <1>2, <1>6, <2>4, AtWorkload, Places DEF MainShow, ResultInv, Stages
    <3>2. /\ stage = "show" /\ stage' = "show" /\ task' = task /\ n' = n + 1
          /\ n \in 0 .. Elements(u)
      BY <2>4, <3>1 DEF MainShow, ElementInRange
    <3>3. ~HasEnded(u)'
      BY <1>2, <3>1, <3>2, SameTasks, AtWorkload DEF HasEnded, Workloads, ResultInv
    <3>4. ShownTo(u)' = n + 1
      <4>1. ShownTo(u)' = FlagsRaised' + n'
        BY <3>1, <3>2, <3>3 DEF ShownTo
      <4>2. FlagsRaised' = 0
        BY <1>6, SameTasks DEF FlagsRaised
      <4>3. QED
        BY <1>2, <3>2, <4>1, <4>2
    <3>5. QED
      BY <1>1, <1>2, <3>2, <3>4
  <2>5. CASE MainEnd
    BY <1>1, <1>3, <2>5, ShownIs DEF MainEnd
  <2>6. CASE MainCall \/ MainNext \/ MainReturn \/ matmul \/ qsort \/ initfir \/ firfilter \/ firLab4
    <3>1. checkbits' = checkbits /\ stage \in {"flag", "show", "init", "compute"}
      BY <1>6, <2>6 DEF MainCall, MainNext, Flag, matmul, qsort, initfir, firfilter, firLab4,
                        MainReturn, mainVars
    <3>2. task # "start"
      BY <3>1 DEF ResultInv, Stages
    <3>3. QED
      BY <1>4, <3>1, <3>2
  <2>7. QED
    BY <2>3, <2>4, <2>5, <2>6 DEF MainStep
<1>7. QED
  BY <1>5, <1>6

\* main goes on showing elements that there are.
LEMMA ElementStep ==
  ASSUME IInv, ResultInv, ElementInRange, Next
  PROVE  ElementInRange'
<1>1. SUFFICES ASSUME stage' = "show" PROVE n' \in 0 .. Elements(task)'
  BY DEF ElementInRange
<1>2. /\ UNCHANGED <<program, sortVars, mat, filter, task>>
      /\ UNCHANGED <<stage, n>> \/ MainReturn \/ MainShow
  <2>1. BenchStep \/ MainReturn \/ MainShow
    <3>1. ASSUME matmul \/ qsort \/ initfir \/ firfilter \/ firLab4 \/ MainStart \/ MainCall \/ MainNext
          PROVE  stage' # "show"
      BY <3>1 DEF matmul, qsort, initfir, firfilter, firLab4, MainStart, MainCall, MainNext, mainVars
    <3>2. ASSUME MainEnd PROVE stage' # "show"
      BY <3>2 DEF MainEnd, ResultInv, Stages
    <3>3. QED
      BY <1>1, <3>1, <3>2 DEF Next, MainStep
  <2>2. QED
    BY <2>1 DEF BenchStep, MainReturn, MainShow, matVars, firVars, mainVars
<1>3. Elements(task)' = Elements(task)
  BY <1>2 DEF Elements, Size, N, sortVars
<1>4. CASE UNCHANGED <<stage, n>>
  BY <1>1, <1>3, <1>4 DEF ElementInRange
<1>5. CASE MainReturn
  <2>1. task \in Workloads /\ n' = 0
    BY <1>5, AtWorkload DEF MainReturn, ResultInv, Stages
  <2>2. QED
    BY <1>3, <2>1, ExpectedIs
<1>6. CASE MainShow
  <2>1. task \in Workloads /\ n \in 0 .. Elements(task) - 1 /\ n' = n + 1
    BY <1>6, ShownElements DEF MainShow
  <2>2. QED
    BY <1>3, <2>1, ExpectedIs
<1>7. QED
  BY <1>2, <1>4, <1>5, <1>6

\* main's steps keep the processes in step: it goes on only when each has seen
\* what is on the pins for it.
LEMMA MainKeepsStep ==
  ASSUME IInv, SortFinished, ResultInv, StepInv, ~BenchCanStep, MainStep, Next
  PROVE  Watching' /\ ProcessesKeepStep'
<1>1. /\ bench' = bench /\ Processes' = Processes /\ StartTask' = StartTask
      /\ ResultsAreTelling' = ResultsAreTelling /\ \A u : Expected(u)' = Expected(u)
  BY SameTasks DEF MainStep, MainStart, MainCall, matmul, qsort, initfir, firfilter, firLab4,
                   MainReturn, MainShow, MainNext, MainEnd
<1>2. Watching /\ ElementInRange /\ bench.main \in {"start", "forked", "finished"}
  BY DEF StepInv, Watching
<1>3. task' # "start" /\ (task = "start" => MainStart)
  <2>1. Tasks[1] # "start"
    BY Places DEF ResultInv, Stages, Workloads
  <2>2. MainNext => task' # "start"
    <3>1. ASSUME MainNext PROVE task' # "start"
      <4>1. Stages'
        BY StagesKept DEF ResultInv
      <4>2. task' \in {"end"} \/ stage' = "flag"
        BY <3>1 DEF MainNext
      <4>3. QED
        BY <4>1, <4>2 DEF Stages
    <3>2. QED
      BY <3>1
  <2>3. QED
    BY <2>1, <2>2 DEF MainStep, MainStart, MainCall, matmul, qsort, initfir, firfilter, firLab4,
                      MainReturn, MainShow, MainNext, MainEnd, mainVars, ResultInv, Stages
<1>4. CASE bench.main = "start"
  <2>1. task = "start" /\ MainStart
    BY <1>2, <1>3, <1>4 DEF Watching, BenchCanStep
  <2>2. checkbits' = StartTask
    BY <2>1 DEF MainStart
  <2>3. ASSUME NEW u \in Processes PROVE ShownTo(u)' = 0
    <3>1. task' = Tasks[1] /\ stage' = "flag"
      BY <2>1 DEF MainStart
    <3>2. Place(task') = 1 /\ task' \in Workloads /\ Place(u) \in 1 .. 3
      BY <1>2, <3>1, Places, ShownIs DEF ResultInv, Stages, Workloads
    <3>3. ~HasEnded(u)'
      BY <3>2, SameTasks DEF HasEnded, Workloads
    <3>4. QED
      BY <3>1, <3>3 DEF ShownTo
  <2>4. \A u \in Processes : bench[u] = 0 /\ bench[u] \in 0 .. Len(Expected(u))
    BY <1>2, <1>4 DEF Watching
  <2>5. QED
    BY <1>1, <1>2, <1>3, <1>4, <2>2, <2>3, <2>4 DEF Watching, ProcessesKeepStep
<1>5. CASE bench.main # "start"
  <2>1. task # "start"
    BY <1>2, <1>5 DEF Watching
  <2>2. ASSUME NEW u \in Processes
        PROVE  /\ bench[u] \in 0 .. Len(Expected(u)) /\ Len(Expected(u)) \in Nat
               /\ ShownTo(u) \in 0 .. Len(Expected(u)) /\ ShownTo(u) <= bench[u]
               /\ ResultsAreTelling => RunsNotAhead(u) /\ Unheard(u)
    <3>1. MissesNothing(u) /\ (ResultsAreTelling => RunsNotAhead(u))
      BY <1>5 DEF StepInv, ProcessesKeepStep
    <3>2. ~SeesNext(u)
      BY DEF BenchCanStep
    <3>3. ResultsAreTelling => Unheard(u)
      BY <2>1 DEF StepInv
    <3>4. QED
      BY <1>2, <3>1, <3>2, <3>3, ShownIs DEF MissesNothing, Watching
  <2>3. ASSUME NEW u \in Processes
        PROVE  MissesNothing(u)'
    <3>1. CASE ShownTo(u)' = ShownTo(u)
      BY <1>1, <2>2, <3>1 DEF MissesNothing
    <3>2. CASE /\ ShownTo(u)' = ShownTo(u) + 1 /\ ShownTo(u) + 1 <= Len(Expected(u))
               /\ checkbits' = Expected(u)[ShownTo(u) + 1]
      <4>1. CASE ShownTo(u) + 1 <= bench[u]
        BY <1>1, <3>2, <4>1 DEF MissesNothing
      <4>2. CASE ~(ShownTo(u) + 1 <= bench[u])
        <5>1. ShownTo(u) = bench[u] /\ bench[u] < Len(Expected(u))
          BY <2>2, <3>2, <4>2
        <5>2. bench.main = "forked"
          <6>1. ASSUME bench.main = "finished" PROVE FALSE
            <7>1. bench[u] = Len(Expected(u)) /\ Len(Expected(u)) \in Nat
              BY <1>2, <2>2, <6>1 DEF Watching, Joined
            <7>2. QED
              BY <5>1, <7>1
          <6>2. QED
            BY <1>2, <1>5, <6>1
        <5>3. SeesNext(u)'
          BY <1>1, <3>2, <5>1, <5>2 DEF SeesNext, Waits
        <5>4. QED
          BY <1>1, <3>2, <5>1, <5>3 DEF MissesNothing
      <4>3. QED
        BY <4>1, <4>2
    <3>3. QED
      BY <1>2, <3>1, <3>2, MainMoves
  <2>4. ASSUME NEW u \in Processes, ResultsAreTelling
        PROVE  RunsNotAhead(u)'
    <3>1. \A e \in ShownTo(u) + 1 .. bench[u] : Expected(u)[e] = checkbits
      BY <2>2, <2>4 DEF RunsNotAhead
    <3>2. SUFFICES ASSUME NEW e \in ShownTo(u)' + 1 .. bench[u]
                   PROVE  Expected(u)[e] = checkbits'
      BY <1>1 DEF RunsNotAhead
    <3>3. CASE /\ ShownTo(u)' = ShownTo(u) + 1 /\ ShownTo(u) + 1 <= Len(Expected(u))
               /\ checkbits' = Expected(u)[ShownTo(u) + 1]
      <4>1. e \in ShownTo(u) + 1 .. bench[u] /\ ShownTo(u) + 1 \in ShownTo(u) + 1 .. bench[u]
        BY <2>2, <3>2, <3>3
      <4>2. QED
        BY <3>1, <3>3, <4>1
    <3>4. CASE ShownTo(u)' = ShownTo(u) /\ checkbits' = checkbits
      BY <3>1, <3>2, <3>4
    <3>5. CASE ShownTo(u)' = ShownTo(u) /\ ShownTo(u) = Len(Expected(u))
      BY <2>2, <3>2, <3>5
    <3>6. CASE ShownTo(u)' = ShownTo(u) /\ ShownTo(u) = 0
      <4>1. e \in 1 .. bench[u] /\ 1 \in ShownTo(u) + 1 .. bench[u] /\ Len(Expected(u)) > 0
        BY <2>2, <3>2, <3>6
      <4>2. Expected(u)[1] = checkbits /\ checkbits # Expected(u)[1]
        BY <2>2, <2>4, <3>1, <3>6, <4>1 DEF Unheard
      <4>3. QED
        BY <4>2
    <3>7. QED
      BY <1>2, <3>3, <3>4, <3>5, <3>6, MainMoves
  <2>5. Watching'
    BY <1>1, <1>2, <1>3, <1>5 DEF Watching, Joined
  <2>6. QED
    BY <1>1, <2>3, <2>4, <2>5 DEF ProcessesKeepStep
<1>6. QED
  BY <1>4, <1>5

\* The testbench's steps keep its processes in step.
LEMMA BenchKeepsStep ==
  ASSUME IInv, ResultInv, StepInv, BenchStep, Next
  PROVE  Watching' /\ ProcessesKeepStep'
<1>1. /\ Processes' = Processes /\ StartTask' = StartTask /\ UNCHANGED <<task, stage, n, checkbits>>
      /\ ResultsAreTelling' = ResultsAreTelling
      /\ \A u : Expected(u)' = Expected(u) /\ ShownTo(u)' = ShownTo(u)
  <2>1. UNCHANGED <<program, task, stage, n, checkbits>>
    BY DEF BenchStep, mainVars
  <2>2. \A u : HasEnded(u)' <=> HasEnded(u)
    BY <2>1, SameTasks DEF HasEnded
  <2>3. QED
    BY <2>1, <2>2, SameTasks DEF ShownTo
<1>2. Watching /\ ElementInRange /\ Processes \subseteq Workloads
  BY AtWorkload DEF StepInv, ResultInv
<1>3. ASSUME NEW u \in Processes
      PROVE  /\ bench[u] \in 0 .. Len(Expected(u)) /\ Len(Expected(u)) \in Nat
             /\ ShownTo(u) \in 0 .. Len(Expected(u)) /\ u \in Workloads
             /\ bench.main # "start" => MissesNothing(u) /\ (ResultsAreTelling => RunsNotAhead(u))
  BY <1>2, ShownIs DEF Watching, StepInv, ProcessesKeepStep
<1>4. CASE Fork
  <2>1. /\ bench.main = "start" /\ bench' = [bench EXCEPT !.main = "forked"]
        /\ \A u \in Processes : bench[u] = 0 /\ ShownTo(u) = 0
        /\ task # "start"
    <3>1. StartTask # 0
      BY DEF StartTask
    <3>2. QED
      BY <1>2, <1>4, <3>1 DEF Fork, Watching
  <2>2. bench'.main = "forked" /\ \A u \in Processes : bench'[u] = 0
    BY <1>2, <2>1 DEF Watching, Workloads
  <2>3. bench' = [x \in {"main"} \cup Workloads |-> bench'[x]]
    BY <1>2, <2>1 DEF Watching
  <2>4. \A u \in Processes : bench'[u] \in 0 .. Len(Expected(u))
    BY <1>3, <2>2
  <2>5. Watching'
    BY <1>1, <2>1, <2>2, <2>3, <2>4 DEF Watching
  <2>6. ASSUME NEW u \in Processes
        PROVE  MissesNothing(u)' /\ RunsNotAhead(u)'
    <3>1. bench'[u] = 0 /\ ShownTo(u)' = 0
      BY <1>1, <2>1, <2>2
    <3>2. QED
      BY <3>1 DEF MissesNothing, RunsNotAhead
  <2>7. QED
    BY <1>1, <2>5, <2>6 DEF ProcessesKeepStep
<1>5. ASSUME NEW t \in Processes, Follow(t)
      PROVE  Watching' /\ ProcessesKeepStep'
  <2>1. /\ bench.main = "forked" /\ bench[t] < Len(Expected(t))
        /\ checkbits = Expected(t)[bench[t] + 1] /\ bench' = [bench EXCEPT ![t] = @ + 1]
    BY <1>5 DEF Follow, SeesNext, Waits
  <2>2. /\ bench'.main = "forked" /\ bench'[t] = bench[t] + 1
        /\ \A u \in Processes \ {t} : bench'[u] = bench[u]
    BY <1>2, <1>3, <2>1 DEF Watching, Workloads
  <2>3. bench' = [x \in {"main"} \cup Workloads |-> bench'[x]]
    BY <1>2, <2>1 DEF Watching
  <2>4. Watching'
    <3>1. \A u \in Processes : bench'[u] \in 0 .. Len(Expected(u))
      <4>1. bench'[t] \in 0 .. Len(Expected(t))
        BY <1>3, <2>1, <2>2
      <4>2. QED
        BY <1>3, <2>2, <4>1
    <3>2. task # "start"
      BY <1>2, <2>1 DEF Watching
    <3>3. QED
      BY <1>1, <2>2, <2>3, <3>1, <3>2 DEF Watching
  <2>5. ASSUME NEW u \in Processes \ {t}
        PROVE  MissesNothing(u)' /\ (ResultsAreTelling => RunsNotAhead(u)')
    BY <1>1, <1>3, <2>1, <2>2 DEF MissesNothing, RunsNotAhead, SeesNext, Waits
  <2>6. MissesNothing(t)'
    BY <1>1, <1>3, <2>1, <2>2 DEF MissesNothing
  <2>7. ResultsAreTelling => RunsNotAhead(t)'
    <3>1. SUFFICES ASSUME ResultsAreTelling, NEW e \in ShownTo(t) + 1 .. bench[t] + 1
                   PROVE  Expected(t)[e] = checkbits
      BY <1>1, <2>2 DEF RunsNotAhead
    <3>2. CASE e = bench[t] + 1
      BY <2>1, <3>2
    <3>3. CASE e # bench[t] + 1
      <4>1. e \in ShownTo(t) + 1 .. bench[t]
        BY <1>3, <3>3
      <4>2. QED
        BY <1>3, <2>1, <3>1, <4>1 DEF RunsNotAhead
    <3>4. QED
      BY <3>2, <3>3
  <2>8. QED
    BY <1>1, <2>4, <2>5, <2>6, <2>7 DEF ProcessesKeepStep
<1>6. CASE Finish
  <2>1. /\ bench.main = "forked" /\ Joined /\ bench' = [bench EXCEPT !.main = "finished"]
    BY <1>6 DEF Finish
  <2>2. /\ bench'.main = "finished" /\ \A u \in Processes : bench'[u] = bench[u]
    BY <1>2, <2>1 DEF Watching, Workloads
  <2>3. bench' = [x \in {"main"} \cup Workloads |-> bench'[x]]
    BY <1>2, <2>1 DEF Watching
  <2>4. Joined' /\ \A u \in Processes : ShownTo(u) <= bench[u]
    BY <1>1, <1>3, <2>1, <2>2 DEF Joined
  <2>5. Watching'
    BY <1>1, <1>2, <2>1, <2>2, <2>3, <2>4 DEF Watching
  <2>6. QED
    BY <1>1, <1>3, <2>1, <2>2, <2>4, <2>5 DEF ProcessesKeepStep, MissesNothing, RunsNotAhead
<1>7. QED
  BY <1>4, <1>5, <1>6 DEF BenchStep

\* Every step keeps the processes in step.
LEMMA StepKept ==
  ASSUME IInv, SortFinished, ResultInv, StepInv, Next
  PROVE  StepInv'
<1>1. ElementInRange'
  BY ElementStep DEF StepInv
<1>2. CASE BenchStep
  <2>1. Watching' /\ ProcessesKeepStep'
    BY <1>2, BenchKeepsStep
  <2>2. UNCHANGED <<task, stage, n, checkbits>>
    BY <1>2 DEF BenchStep, mainVars
  <2>3. \A u : Unheard(u)' <=> Unheard(u)
    <3>1. \A u : HasEnded(u)' <=> HasEnded(u)
      BY <2>2, SameTasks DEF HasEnded
    <3>2. \A u : ShownTo(u)' = ShownTo(u)
      BY <2>2, <3>1, SameTasks DEF ShownTo
    <3>3. QED
      BY <2>2, <3>2, SameTasks DEF Unheard
  <2>4. QED
    BY <1>1, <2>1, <2>2, <2>3, SameTasks DEF StepInv
<1>3. CASE ~BenchCanStep /\ MainStep
  <2>1. Watching' /\ ProcessesKeepStep'
    BY <1>3, MainKeepsStep
  <2>2. ASSUME ResultsAreTelling, NEW u \in Processes PROVE Unheard(u)'
    BY <1>3, <2>2, UnheardStep DEF StepInv
  <2>3. QED
    BY <1>1, <2>1, <2>2, SameTasks DEF StepInv
<1>4. QED
  BY <1>2, <1>3 DEF Next

\* Nothing has been shown or seen.
LEMMA StepStart ==
  ASSUME Init, IInv, ResultInv
  PROVE  StepInv
<1>1. task = "start" /\ stage = "none" /\ checkbits = 0
      /\ bench = [main |-> "start", matmul |-> 0, qsort |-> 0, fir |-> 0]
  BY DEF Init
<1>2. ElementInRange
  BY <1>1 DEF ElementInRange
<1>3. ASSUME NEW u \in Processes
      PROVE  bench[u] = 0 /\ ShownTo(u) = 0 /\ Len(Expected(u)) \in Nat
  BY <1>1, <1>2, ShownIs DEF Workloads
<1>4. bench = [x \in {"main"} \cup Workloads |-> bench[x]]
  BY <1>1 DEF Workloads
<1>5. Watching
  BY <1>1, <1>3, <1>4 DEF Watching
<1>6. QED
  BY <1>1, <1>2, <1>5 DEF StepInv, ProcessesKeepStep

\* ProcessesKeepStep: whatever the inputs, no process lets a value pass that it
\* waits for; and if no result looks like a signal on the pins, none goes by a
\* value that was not for it, except where main shows the same value again.
THEOREM BenchKeepsUp == Spec => []ProcessesKeepStep
<1>1. Init => StepInv
  BY InitSorts, InitResults, StepStart
<1>2. IInv /\ SortFinished /\ ResultInv /\ StepInv /\ Next => StepInv'
  BY StepKept
<1>3. StepInv /\ UNCHANGED vars => StepInv'
  <2>1. SUFFICES ASSUME StepInv, UNCHANGED vars PROVE StepInv'
    OBVIOUS
  <2>2. UNCHANGED <<program, mat, arr_A, filter, task, stage, n, checkbits, bench, right>>
    BY <2>1 DEF vars, sortVars, matVars, firVars, mainVars
  <2>3. /\ Tasks' = Tasks /\ StartTask' = StartTask /\ FlagsRaised' = FlagsRaised
        /\ \A u : Expected(u)' = Expected(u) /\ Place(u)' = Place(u) /\ Elements(u)' = Elements(u)
    BY <2>2 DEF Tasks, StartTask, FlagsRaised, Expected, Place, Elements, Size, N
  <2>4. /\ Processes' = Processes /\ (ResultsAreTelling' <=> ResultsAreTelling)
        /\ \A u : HasEnded(u)' <=> HasEnded(u)
    BY <2>2, <2>3 DEF Processes, ResultsAreTelling, Signals, HasEnded
  <2>5. \A u : ShownTo(u)' = ShownTo(u)
    BY <2>2, <2>3, <2>4 DEF ShownTo
  <2>6. ElementInRange'
    BY <2>1, <2>2, <2>3 DEF StepInv, ElementInRange
  <2>7. Watching'
    BY <2>1, <2>2, <2>3, <2>4, <2>5 DEF StepInv, Watching, Joined
  <2>8. ProcessesKeepStep'
    BY <2>1, <2>2, <2>3, <2>4, <2>5
       DEF StepInv, ProcessesKeepStep, MissesNothing, RunsNotAhead, SeesNext, Waits
  <2>9. QED
    BY <2>1, <2>2, <2>3, <2>4, <2>5, <2>6, <2>7, <2>8 DEF StepInv, Unheard
<1>4. StepInv => ProcessesKeepStep
  BY DEF StepInv
<1>5. QED
  BY <1>1, <1>2, <1>3, <1>4, Invariance, ResultInvariance, PTL DEF Spec

-----------------------------------------------------------------------------
(* The testbench of lab 3.  Each register is read and written by several   *)
(* blocks and at every edge all of them move, so that the invariant says   *)
(* for each phase of an access, and for each phase of the run, what all of *)
(* the registers and RAMs hold.                                            *)

\* What the RAMs hold.
Words == [Lane -> Int]

\* The registers hold what their widths allow.
FilterTypes ==
  /\ data \in [state : {"stop", "read", "read_wait", "write"}, WE : SUBSET Lane, Di : Words,
               A : Index, n : Index, ready : BOOLEAN, validNum : Index,
               RAM : [Index -> Words], Do : Words]
  /\ tap \in [WE : SUBSET Lane, EN : BOOLEAN, Di : Words, A : Index, RAM : [Index -> Words],
              Do : Words]
  /\ calc \in [state : {"stop", "read", "read_wait", "calculate"}, idx : 0 .. 15,
               sum : Seq(Words \X Words), ready : BOOLEAN]
  /\ lite \in [awready : BOOLEAN, wready : BOOLEAN, arready : BOOLEAN, rvalid : BOOLEAN,
               rdata : [start : BOOLEAN, done : BOOLEAN, idle : BOOLEAN, tap : Words],
               isTap : BOOLEAN]
  /\ ap \in [start : BOOLEAN, done : BOOLEAN, idle : BOOLEAN, length : 0 .. 1023]

\* The addresses of the accesses.
Address == [reg : {"data_length", "tap", "ap_state"}, n : Index]

\* The lines and counters of the testbench: a sample is accepted with each
\* output, and no error was seen.
BenchTypes ==
  /\ axi \in [awvalid : BOOLEAN, awaddr : Address, wvalid : BOOLEAN, wdata : Int,
              arvalid : BOOLEAN, araddr : Address, rready : BOOLEAN]
  /\ stream \in [ss_tvalid : BOOLEAN, ss_tdata : Nat, sm_tready : {TRUE}]
  /\ step \in 0 .. Started /\ outputs \in 0 .. RunLength /\ accepted = outputs
  /\ late \in 0 .. MaxLate
  /\ final \in [begun : BOOLEAN, ended : Nat] /\ error = FALSE

\* An access is at one of its phases, and the filter answers in it only.
Access ==
  /\ axi.awaddr = AddressOf(step) /\ axi.araddr = AddressOf(step)
  /\ axi.awvalid => WritesIn(step) /\ ~axi.wvalid /\ ~axi.arvalid /\ ~axi.rready
  /\ axi.wvalid => WritesIn(step) /\ ~axi.arvalid /\ ~axi.rready /\ axi.wdata = DataOf(step)
  /\ axi.arvalid => (ReadsBack(step) \/ step = Started) /\ ~axi.rready
  /\ axi.rready => ReadsBack(step) \/ step = Started
  /\ Free => ~WritesIn(step) /\ ~ReadsBack(step)
  /\ (lite.awready => axi.awvalid) /\ (lite.wready => axi.wvalid)
  /\ (lite.arready => axi.arvalid) /\ (lite.rvalid => axi.rready)

\* The access writes a coefficient.
WritesTap == step \in 1 .. Tape_Num

\* The first k coefficients are in the RAM.
Coefficients(k) == \A i \in 0 .. k - 1 : tap.RAM[i] = WordOf(i)

\* Lane l of a coefficient is being written, those below it are.
TapLane(l) == /\ tap.WE = {l} /\ tap.Di = WordOf(step - 1)
              /\ \A j \in Lane : j < l => tap.RAM[step - 1][j] = step - 1

\* A coefficient is written lane by lane, at its own address, and is complete
\* before the access ends; the enable is up for the access in progress only.
TapsWritten ==
  /\ ~WritesTap => tap.WE = {}
  /\ ~(axi.wvalid /\ ~lite.wready) => tap.WE = {}
  /\ WritesTap /\ (lite.awready \/ axi.wvalid) => tap.A = step - 1
  /\ WritesTap /\ axi.wvalid => tap.EN
  /\ WritesTap => tap.WE = {} \/ \E l \in Lane : TapLane(l)
  /\ WritesTap /\ lite.wready => tap.RAM[step - 1] = WordOf(step - 1)
  /\ Coefficients(IF step <= Tape_Num THEN step - 1 ELSE Tape_Num)
  /\ tap.EN /\ step < Started => (WritesTap /\ axi.wvalid) \/ lite.arready \/ axi.rready

\* A coefficient is addressed, comes out of its word and is shown.
TapsRead ==
  /\ ReadsBack(step) =>
       LET k == step - 1 - Tape_Num IN
       /\ lite.arready => tap.EN /\ tap.A = k /\ lite.isTap
       /\ axi.rready /\ ~lite.rvalid => tap.Do = WordOf(k) /\ lite.isTap
       /\ axi.rready /\ lite.rvalid => lite.rdata.tap = WordOf(k)

\* A status shows the end of the run only if the run has ended, and does if it
\* had ended when the read began.
StatusRead ==
  /\ final.begun => AllSeen
  /\ step = Started =>
       /\ lite.arready \/ (axi.rready /\ ~lite.rvalid) => ~lite.isTap
       /\ axi.rready /\ lite.rvalid =>
            /\ ~lite.rdata.start /\ (lite.rdata.done \/ lite.rdata.idle => AllSeen)
            /\ final.begun => lite.rdata.done /\ lite.rdata.idle

-----------------------------------------------------------------------------
\* Neither the shift nor the computation is at work.
Rests == data.state = "stop" /\ data.WE = {} /\ calc.state = "stop" /\ ~calc.ready

\* No sample was taken.
Unstarted == /\ Rests /\ ~data.ready /\ data.n = Tape_Num /\ data.validNum = 0
             /\ outputs = 0 /\ late = 0 /\ stream.ss_tvalid /\ stream.ss_tdata = 0 /\ ~ap.done

\* The phases of a run: before the start,
Resting == /\ Unstarted /\ step <= Start /\ (step = Start => ~lite.wready)
           /\ ap.idle /\ ~ap.start
           /\ step > 0 \/ lite.wready => ap.length = RunLength

\* in the cycle in which the start is acknowledged,
Starting == /\ Unstarted /\ step = Start /\ lite.wready
            /\ ap.start /\ ~ap.idle /\ ap.length = RunLength

\* while the filter works (the length counts the outputs to come),
Working == /\ ~ap.start /\ ~ap.idle /\ ~ap.done /\ ap.length = RunLength - outputs
           /\ outputs < RunLength /\ step = Started /\ stream.ss_tvalid

\* Sample outputs - i or, while the samples are being shifted, the one before it.
Holds(i) == i <= outputs => data.RAM[i] = WordOf(outputs - i)
Held(i) == i < outputs => data.RAM[i] = WordOf(outputs - 1 - i)

\* How late a sample is grows with the cycles of the shift.
InTime(offset) == \/ late = 0 /\ stream.ss_tdata = outputs
                  \/ late > 0 /\ late = 6 * (Tape_Num - data.n) + offset

\* which is to shift the samples by one place, each word read, waited for and
\* written lane by lane, and to take the next one at the bottom,
Shifting ==
  /\ Working /\ ~data.ready /\ calc.state = "stop" /\ ~calc.ready
  /\ data.validNum = IF outputs < Tape_Num THEN outputs ELSE Tape_Num
  /\ \A i \in data.n + 1 .. Tape_Num - 1 : Holds(i)
  /\ \A i \in 0 .. data.n - 1 : i < Tape_Num => Held(i)
  /\ \/ /\ data.state = "read" /\ data.WE = {} /\ InTime(1)
        /\ data.n \in 1 .. Tape_Num - 1 => data.A = data.n - 1
     \/ /\ data.state = "read_wait" /\ data.WE = {} /\ InTime(2)
        /\ data.n \in 1 .. Tape_Num - 1 /\ data.n <= outputs =>
             data.Do = WordOf(outputs - data.n)
     \/ /\ data.state = "write" /\ data.A = data.n
        /\ \E l \in Lane :
             /\ data.WE = {l} /\ InTime(3 + l)
             /\ data.n < Tape_Num /\ data.n <= outputs =>
                  /\ data.Di = WordOf(outputs - data.n)
                  /\ \A j \in Lane : j < l => data.RAM[data.n][j] = outputs - data.n

\* The first m products of an output.
FirstProducts(m) == [k \in 1 .. m |-> <<WordOf(k - 1), WordOf(outputs - k + 1)>>]

\* and then to add up the products and show the sum;
Summing ==
  /\ Working /\ data.ready /\ data.state = "stop" /\ data.WE = {} /\ late = 0
  /\ data.validNum = IF outputs < Tape_Num THEN outputs + 1 ELSE Tape_Num
  /\ \A i \in 0 .. Tape_Num - 1 : Holds(i)
  /\ \/ calc.state = "stop" /\ ~calc.ready
     \/ calc.state = "stop" /\ calc.ready /\ calc.sum = Golden(outputs)
     \/ /\ calc.state # "stop" /\ ~calc.ready /\ calc.idx < data.validNum
        /\ calc.sum = FirstProducts(calc.idx)
        /\ calc.state = "read_wait" => data.A = calc.idx /\ tap.A = calc.idx /\ tap.EN
        /\ calc.state = "calculate" =>
             tap.Do = WordOf(calc.idx) /\ data.Do = WordOf(outputs - calc.idx)

\* and after the last output.
Over == /\ AllSeen /\ step = Started /\ ap.idle /\ ap.done /\ ~ap.start /\ late = 0
        /\ calc.state = "stop" /\ ~calc.ready

\* A run is in one of its phases.
Filtering == Resting \/ Starting \/ Shifting \/ Summing \/ Over

\* The invariant of the run.
Lab3Inv == FilterTypes /\ BenchTypes /\ Access /\ TapsWritten /\ TapsRead /\ StatusRead /\ Filtering
-----------------------------------------------------------------------------
(* Steps. *)

\* The constants are numbers.
LEMMA Numbers ==
  /\ Tape_Num \in Nat /\ Tape_Num >= 2 /\ Tape_Num <= 15
  /\ RunLength \in Nat /\ RunLength >= 1 /\ RunLength <= 1023
  /\ MaxLate \in Nat /\ MaxLate <= 6 * Tape_Num + 1
  /\ Start = 2 * Tape_Num + 2 /\ Started = 2 * Tape_Num + 3
  BY RunAssumption DEF Start, Started

\* What the access of a number is for.
LEMMA Numbered ==
  ASSUME NEW s \in 0 .. Started
  PROVE  /\ WritesIn(s) \in BOOLEAN /\ ReadsBack(s) \in BOOLEAN
         /\ ~(WritesIn(s) /\ ReadsBack(s))
         /\ ~WritesIn(Started) /\ ~ReadsBack(Started)
         /\ s # Started => s + 1 \in 0 .. Started
         /\ s \in 1 .. Tape_Num => WritesIn(s) /\ CoefficientOf(s) = s - 1
         /\ ReadsBack(s) => CoefficientOf(s) = s - 1 - Tape_Num
         /\ AddressOf(s) \in Address /\ DataOf(s) \in Int
         /\ IsTap(AddressOf(s)) <=> s \in 1 .. 2 * Tape_Num
         /\ IsTap(AddressOf(s)) => AddressOf(s).n = CoefficientOf(s)
         /\ AddressOf(s).reg = "data_length" <=> s = 0
         /\ AddressOf(s).reg = "ap_state" <=> s > 2 * Tape_Num
         /\ s = 0 => DataOf(s) = RunLength
         /\ s \in 1 .. Tape_Num => DataOf(s) = s - 1
<1> USE Numbers
<1>1. /\ s \in 1 .. Tape_Num => CoefficientOf(s) = s - 1
      /\ ReadsBack(s) => CoefficientOf(s) = s - 1 - Tape_Num
  <2>1. ASSUME s \in 1 .. Tape_Num
        PROVE  CoefficientOf(s) = s - 1
    BY <2>1 DEF CoefficientOf
  <2>2. ASSUME ReadsBack(s)
        PROVE  CoefficientOf(s) = s - 1 - Tape_Num
    <3>1. PICK m \in 0 .. Tape_Num - 1 : s - 1 = Tape_Num + m
      <4>1. s - 1 - Tape_Num \in 0 .. Tape_Num - 1
        BY <2>2 DEF ReadsBack
      <4>2. QED
        BY <4>1
    <3>2. (s - 1) % Tape_Num = m
      BY <3>1
    <3>3. QED
      BY <3>1, <3>2 DEF CoefficientOf
  <2>3. QED
    BY <2>1, <2>2
<1>2. s \in 1 .. 2 * Tape_Num => CoefficientOf(s) \in 0 .. Tape_Num - 1
  BY <1>1 DEF ReadsBack
<1>3. s \in 1 .. 2 * Tape_Num => AddressOf(s) = [reg |-> "tap", n |-> CoefficientOf(s)]
  BY DEF AddressOf
<1>4. s \notin 1 .. 2 * Tape_Num =>
        AddressOf(s) = [reg |-> IF s = 0 THEN "data_length" ELSE "ap_state", n |-> 0]
  BY DEF AddressOf
<1>5. AddressOf(s) \in Address
  BY <1>2, <1>3, <1>4 DEF Address, Index
<1>6. /\ IsTap(AddressOf(s)) <=> s \in 1 .. 2 * Tape_Num
      /\ IsTap(AddressOf(s)) => AddressOf(s).n = CoefficientOf(s)
      /\ AddressOf(s).reg = "data_length" <=> s = 0
      /\ AddressOf(s).reg = "ap_state" <=> s > 2 * Tape_Num
  BY <1>3, <1>4 DEF IsTap
<1>7. /\ DataOf(s) \in Int
      /\ s = 0 => DataOf(s) = RunLength
      /\ s \in 1 .. Tape_Num => DataOf(s) = s - 1
  BY <1>1 DEF DataOf
<1>8. /\ WritesIn(s) \in BOOLEAN /\ ReadsBack(s) \in BOOLEAN
      /\ ~(WritesIn(s) /\ ReadsBack(s))
      /\ ~WritesIn(Started) /\ ~ReadsBack(Started)
      /\ s # Started => s + 1 \in 0 .. Started
      /\ s \in 1 .. Tape_Num => WritesIn(s)
  BY DEF WritesIn, ReadsBack
<1>9. QED
  BY <1>1, <1>5, <1>6, <1>7, <1>8

\* The blocks that move at an edge.
LEMMA Lab3Edge ==
  ASSUME BenchNext
  PROVE  LiteProcess /\ ss /\ sm /\ LiteClock /\ ApClock /\ DataClock /\ TapClock /\ CalcClock
  BY DEF BenchNext, FilterClock

-----------------------------------------------------------------------------
(* The AXI-lite channels. *)

\* A channel is used in its own phase only.
LEMMA Phases ==
  ASSUME FilterTypes, BenchTypes, Access
  PROVE  /\ \A b \in BOOLEAN : WriteAddress(b) <=> axi.awvalid /\ lite.awready = b
         /\ \A b \in BOOLEAN : WriteData(b) <=> axi.wvalid /\ lite.wready = b
         /\ \A b \in BOOLEAN : ReadAddress(b) <=> axi.arvalid /\ lite.arready = b
         /\ \A b \in BOOLEAN : ReadData(b) <=> axi.rready /\ lite.rvalid = b
<1>1. /\ axi.awvalid => ~axi.wvalid /\ ~axi.arvalid /\ ~axi.rready
      /\ axi.wvalid => ~axi.arvalid /\ ~axi.rready
      /\ axi.arvalid => ~axi.rready
      /\ (lite.awready => axi.awvalid) /\ (lite.wready => axi.wvalid)
      /\ (lite.arready => axi.arvalid) /\ (lite.rvalid => axi.rready)
  BY DEF Access
<1>2. QED
  BY <1>1 DEF WriteAddress, WriteData, ReadAddress, ReadData

\* The handshakes of the filter.
LEMMA LiteMoves ==
  ASSUME FilterTypes, BenchTypes, Access, BenchNext
  PROVE  /\ lite'.awready <=> axi.awvalid /\ ~lite.awready
         /\ lite'.wready <=>
              /\ axi.wvalid /\ ~lite.wready
              /\ IF tap.EN THEN LastLane(tap.WE) ELSE tap.WE = {}
         /\ lite'.arready <=> axi.arvalid /\ ~lite.arready
         /\ lite'.rvalid <=> axi.rready /\ ~lite.rvalid
         /\ lite'.isTap <=> IF axi.arvalid /\ ~lite.arready THEN IsTap(axi.araddr)
                            ELSE lite.isTap /\ ~(axi.rready /\ ~lite.rvalid)
<1>1. /\ lite.awready \in BOOLEAN /\ lite.wready \in BOOLEAN /\ lite.arready \in BOOLEAN
      /\ lite.rvalid \in BOOLEAN /\ lite.isTap \in BOOLEAN
  BY DEF FilterTypes
<1>2. /\ lite.awready => axi.awvalid
      /\ lite.wready => axi.wvalid
      /\ lite.arready => axi.arvalid
      /\ lite.rvalid => axi.rready
  BY DEF Access
<1>3. LiteClock
  BY Lab3Edge
<1>4. lite'.awready <=> WriteAddress(FALSE) \/ (lite.awready /\ ~WriteAddress(TRUE))
  BY <1>3 DEF LiteClock
<1>5. lite'.wready <=> \/ WriteData(FALSE) /\ (IF tap.EN THEN LastLane(tap.WE) ELSE tap.WE = {})
                       \/ lite.wready /\ ~WriteData(TRUE)
  BY <1>3 DEF LiteClock
<1>6. lite'.arready <=> ReadAddress(FALSE) \/ (lite.arready /\ ~ReadAddress(TRUE))
  BY <1>3 DEF LiteClock
<1>7. lite'.rvalid <=> ReadData(FALSE) \/ (lite.rvalid /\ ~ReadData(TRUE))
  BY <1>3 DEF LiteClock
<1>8. lite'.isTap <=> IF ReadAddress(FALSE) THEN IsTap(axi.araddr)
                      ELSE lite.isTap /\ ~ReadData(FALSE)
  BY <1>3 DEF LiteClock
<1>9. QED
  BY <1>1, <1>2, <1>4, <1>5, <1>6, <1>7, <1>8, Phases

\* What the testbench does in a cycle: it waits in its phase, goes from the
\* address to the data, ends the access, or reads the status.
LiteWaits == UNCHANGED <<axi, step, final>>
OffersData == /\ axi.awvalid /\ lite.awready
              /\ axi' = [axi EXCEPT !.awvalid = FALSE, !.wvalid = TRUE, !.wdata = DataOf(step)]
              /\ UNCHANGED <<step, final>>
AwaitsData == /\ axi.arvalid /\ lite.arready
              /\ axi' = [axi EXCEPT !.arvalid = FALSE, !.rready = TRUE]
              /\ UNCHANGED <<step, final>>
Complete == /\ \/ axi.wvalid /\ lite.wready /\ final' = final
               \/ axi.rready /\ lite.rvalid
                  /\ final' = [begun |-> FALSE,
                               ended |-> IF final.begun THEN final.ended + 1 ELSE final.ended]
               \/ Free /\ step < Started /\ final' = final
            /\ Ends

\* What a step of the AXI-lite process comes to.
LEMMA BenchMoves ==
  ASSUME FilterTypes, BenchTypes, Access, BenchNext
  PROVE  \/ LiteWaits /\ ~(axi.awvalid /\ lite.awready) /\ ~(axi.wvalid /\ lite.wready)
                  /\ ~(axi.arvalid /\ lite.arready) /\ ~(axi.rready /\ lite.rvalid)
         \/ OffersData \/ AwaitsData \/ Complete \/ ReadStatus
<1>1. /\ axi.awvalid => ~axi.wvalid /\ ~axi.arvalid /\ ~axi.rready
      /\ axi.wvalid => ~axi.arvalid /\ ~axi.rready
      /\ axi.arvalid => ~axi.rready
  BY DEF Access
<1>2. LiteProcess
  BY Lab3Edge
<1>3. CASE WriteAddressPhase
  BY <1>1, <1>3 DEF WriteAddressPhase, Continues, LiteWaits, OffersData
<1>4. CASE WriteDataPhase
  BY <1>1, <1>4 DEF WriteDataPhase, Continues, LiteWaits, Complete
<1>5. CASE ReadAddressPhase
  BY <1>1, <1>5 DEF ReadAddressPhase, Continues, LiteWaits, AwaitsData
<1>6. CASE ReadDataPhase
  BY <1>1, <1>6 DEF ReadDataPhase, Continues, LiteWaits, Complete
<1>7. CASE FreeCycle
  BY <1>7 DEF FreeCycle, Complete
<1>8. CASE Idles
  BY <1>8 DEF Idles, Continues, Free, LiteWaits
<1>9. QED
  BY <1>2, <1>3, <1>4, <1>5, <1>6, <1>7, <1>8 DEF LiteProcess

\* The lines of the access that begins.
LEMMA BeginMoves ==
  ASSUME FilterTypes, BenchTypes, Access, BenchNext, Complete
  PROVE  /\ step' \in 0 .. Started
         /\ step < Started => step' = step + 1
         /\ step = Started => step' = step
         /\ axi' = Begun(step')
         /\ axi'.awvalid <=> WritesIn(step')
         /\ axi'.arvalid <=> ReadsBack(step')
         /\ ~axi'.wvalid /\ ~axi'.rready
         /\ axi'.awaddr = AddressOf(step') /\ axi'.araddr = AddressOf(step')
         /\ ~lite'.awready /\ ~lite'.wready /\ ~lite'.arready /\ ~lite'.rvalid
<1>1. step' = (IF step < Started THEN step + 1 ELSE step) /\ axi' = Begun(step')
  BY DEF Complete, Ends
<1>2. step \in 0 .. Started
  BY DEF BenchTypes
<1>3. /\ step' \in 0 .. Started
      /\ step < Started => step' = step + 1
      /\ step = Started => step' = step
  BY <1>1, <1>2, Numbers
<1>4. /\ axi'.awvalid <=> WritesIn(step')
      /\ axi'.arvalid <=> ReadsBack(step')
      /\ ~axi'.wvalid /\ ~axi'.rready
      /\ axi'.awaddr = AddressOf(step') /\ axi'.araddr = AddressOf(step')
  BY <1>1 DEF Begun
<1>5. /\ axi.awvalid => ~axi.wvalid /\ ~axi.rready
      /\ axi.arvalid => ~axi.rready /\ ~axi.wvalid
      /\ axi.wvalid => lite.wready
      /\ axi.rready => lite.rvalid
      /\ ~axi.awvalid /\ ~axi.arvalid
  BY DEF Complete, Access, Free
<1>6. ~lite'.awready /\ ~lite'.wready /\ ~lite'.arready /\ ~lite'.rvalid
  BY <1>5, LiteMoves
<1>7. QED
  BY <1>1, <1>3, <1>4, <1>6

\* The channels stay in one phase of one access.
LEMMA AccessStep ==
  ASSUME FilterTypes, BenchTypes, Access, BenchNext
  PROVE  Access'
<1>1. /\ lite'.awready => axi.awvalid /\ ~lite.awready
      /\ lite'.wready => axi.wvalid /\ ~lite.wready
      /\ lite'.arready => axi.arvalid /\ ~lite.arready
      /\ lite'.rvalid => axi.rready /\ ~lite.rvalid
  BY LiteMoves
<1>2. step \in 0 .. Started /\ WritesIn(step) \in BOOLEAN /\ ReadsBack(step) \in BOOLEAN
      /\ ~(WritesIn(step) /\ ReadsBack(step)) /\ ~WritesIn(Started) /\ ~ReadsBack(Started)
  BY Numbered DEF BenchTypes
<1>3. CASE LiteWaits /\ ~(axi.awvalid /\ lite.awready) /\ ~(axi.wvalid /\ lite.wready)
                 /\ ~(axi.arvalid /\ lite.arready) /\ ~(axi.rready /\ lite.rvalid)
  BY <1>1, <1>3 DEF Access, LiteWaits, Free, WritesIn, ReadsBack, AddressOf, DataOf, CoefficientOf,
     Started, Start
<1>4. CASE OffersData
  <2>1. /\ ~axi'.awvalid /\ axi'.wvalid /\ axi'.wdata = DataOf(step)
        /\ axi'.arvalid = axi.arvalid /\ axi'.rready = axi.rready
        /\ axi'.awaddr = axi.awaddr /\ axi'.araddr = axi.araddr /\ step' = step
    BY <1>4 DEF OffersData, BenchTypes
  <2>2. ~axi.arvalid /\ ~axi.rready /\ ~axi.wvalid /\ lite.awready /\ axi.awvalid
        /\ WritesIn(step)
    BY <1>4 DEF OffersData, Access
  <2>3. QED
    BY <1>1, <1>2, <2>1, <2>2
       DEF Access, Free
<1>5. CASE AwaitsData
  <2>1. /\ ~axi'.arvalid /\ axi'.rready
        /\ axi'.awvalid = axi.awvalid /\ axi'.wvalid = axi.wvalid
        /\ axi'.awaddr = axi.awaddr /\ axi'.araddr = axi.araddr /\ step' = step
    BY <1>5 DEF AwaitsData, BenchTypes
  <2>2. ~axi.awvalid /\ ~axi.rready /\ ~axi.wvalid /\ lite.arready /\ axi.arvalid
        /\ (ReadsBack(step) \/ step = Started)
    BY <1>5 DEF AwaitsData, Access
  <2>3. QED
    BY <1>1, <1>2, <2>1, <2>2
       DEF Access, Free
<1>6. CASE Complete
  <2>1. /\ axi'.awvalid <=> WritesIn(step')
        /\ axi'.arvalid <=> ReadsBack(step')
        /\ ~axi'.wvalid /\ ~axi'.rready
        /\ axi'.awaddr = AddressOf(step') /\ axi'.araddr = AddressOf(step')
        /\ ~lite'.awready /\ ~lite'.wready /\ ~lite'.arready /\ ~lite'.rvalid
        /\ step' \in 0 .. Started
    BY <1>6, BeginMoves
  <2>2. ~(WritesIn(step') /\ ReadsBack(step'))
    BY <2>1, Numbered
  <2>3. QED
    BY <2>1, <2>2 DEF Access, Free
<1>7. CASE ReadStatus
  <2>1. /\ axi'.arvalid /\ axi'.awvalid = axi.awvalid /\ axi'.wvalid = axi.wvalid
        /\ axi'.rready = axi.rready
        /\ axi'.awaddr = axi.awaddr /\ axi'.araddr = axi.araddr /\ step' = step
    BY <1>7 DEF ReadStatus, BenchTypes
  <2>2. Free /\ step = Started
    BY <1>7 DEF ReadStatus
  <2>3. QED
    BY <1>1, <1>2, <2>1, <2>2
       DEF Access, Free
<1>8. QED
  BY <1>3, <1>4, <1>5, <1>6, <1>7, BenchMoves

-----------------------------------------------------------------------------
(* The RAMs and the state machines. *)

\* The word of a number has it in every lane, and no other word has.
LEMMA Whole ==
  ASSUME NEW x \in Int
  PROVE  /\ WordOf(x) \in Words
         /\ \A l \in Lane : WordOf(x)[l] = x
         /\ \A w \in Words : (\A l \in Lane : w[l] = x) => w = WordOf(x)
  BY DEF WordOf, Words

\* A write changes the enabled lanes of one word.
LEMMA Written ==
  ASSUME NEW ram \in [Index -> Words], NEW a \in Index, NEW we, NEW di \in Words
  PROVE  /\ BramWrite(ram, a, we, di) \in [Index -> Words]
         /\ \A i \in Index : i # a => BramWrite(ram, a, we, di)[i] = ram[i]
         /\ \A l \in Lane : BramWrite(ram, a, we, di)[a][l] =
                              IF l \in we THEN di[l] ELSE ram[a][l]
         /\ we = {} => BramWrite(ram, a, we, di) = ram
<1> DEFINE word == [l \in Lane |-> IF l \in we THEN di[l] ELSE ram[a][l]]
<1>1. BramWrite(ram, a, we, di) = [ram EXCEPT ![a] = word]
  BY DEF BramWrite
<1>2. word \in Words
  BY DEF Words
<1>3. we = {} => word = ram[a]
  BY DEF Words
<1>4. \A l \in Lane : word[l] = IF l \in we THEN di[l] ELSE ram[a][l]
  OBVIOUS
<1> HIDE DEF word
<1>5. QED
  BY <1>1, <1>2, <1>3, <1>4

\* A word written lane by lane: lane l goes with the write that enables it, and
\* the word is complete with the last.
LEMMA LaneWritten ==
  ASSUME NEW ram \in [Index -> Words], NEW a \in Index, NEW x \in Int, NEW l \in Lane,
         \A j \in Lane : j < l => ram[a][j] = x
  PROVE  LET written == BramWrite(ram, a, {l}, WordOf(x))
         IN /\ \A j \in Lane : j <= l => written[a][j] = x
            /\ l = 3 => written[a] = WordOf(x)
<1> DEFINE written == BramWrite(ram, a, {l}, WordOf(x))
<1>1. /\ WordOf(x) \in Words
      /\ \A j \in Lane : WordOf(x)[j] = x
      /\ \A w \in Words : (\A j \in Lane : w[j] = x) => w = WordOf(x)
  BY Whole
<1>2. written \in [Index -> Words]
      /\ \A j \in Lane : written[a][j] = IF j \in {l} THEN WordOf(x)[j] ELSE ram[a][j]
  BY <1>1, Written
<1> HIDE DEF written
<1>3. \A j \in Lane : j <= l => written[a][j] = x
  BY <1>1, <1>2 DEF Lane
<1>4. l = 3 => written[a] = WordOf(x)
  BY <1>1, <1>2, <1>3 DEF Lane
<1>5. QED
  BY <1>3, <1>4 DEF written

\* The lane after a lane.
LEMMA NextLane ==
  ASSUME NEW l \in Lane
  PROVE  /\ LastLane({l}) <=> l = 3
         /\ l = 3 => ShiftLeft({l}) = {}
         /\ l # 3 => ShiftLeft({l}) = {l + 1} /\ l + 1 \in Lane
         /\ ShiftLeft({}) = {}
         /\ {l} # {} /\ ~LastLane({})
<1>1. LastLane({l}) <=> l = 3
  BY DEF LastLane
<1>2. ShiftLeft({}) = {}
  BY DEF ShiftLeft
<1>3. l = 3 => {l} \ {3} = {}
  OBVIOUS
<1>4. l # 3 => {l} \ {3} = {l} /\ l + 1 \in Lane
  BY DEF Lane
<1>5. l = 3 => ShiftLeft({l}) = {}
  BY <1>3 DEF ShiftLeft
<1>6. l # 3 => ShiftLeft({l}) = {l + 1}
  BY <1>4 DEF ShiftLeft
<1>7. {l} # {} /\ ~LastLane({})
  BY DEF LastLane
<1>8. QED
  BY <1>1, <1>2, <1>4, <1>5, <1>6, <1>7

\* The samples and their RAM at an edge, state by state.
LEMMA DataPort ==
  ASSUME FilterTypes, BenchNext
  PROVE  /\ data'.RAM = BramWrite(data.RAM, data.A, data.WE, data.Di)
         /\ data'.Do = data.RAM[data.A]
         /\ data'.state = DataNext.state /\ data'.n = DataNext.n /\ data'.Di = DataNext.Di
         /\ data'.ready = DataNext.ready /\ data'.validNum = DataNext.validNum
         /\ calc.state = "read" => data'.WE = {} /\ data'.A = calc.idx
         /\ calc.state # "read" => data'.WE = DataNext.WE /\ data'.A = DataNext.A
<1>1. data \in [state : {"stop", "read", "read_wait", "write"}, WE : SUBSET Lane, Di : Words,
               A : Index, n : Index, ready : BOOLEAN, validNum : Index,
               RAM : [Index -> Words], Do : Words]
  BY DEF FilterTypes
<1> DEFINE Fields == {"state", "WE", "Di", "A", "n", "ready", "validNum", "RAM", "Do"}
<1>2. DOMAIN data = Fields
  BY <1>1
<1>3. DOMAIN DataNext = Fields
  <2>1. DOMAIN DataStop = Fields /\ DOMAIN [DataStop EXCEPT !.state = "read"] = Fields
    BY <1>2 DEF DataStop
  <2>2. DOMAIN DataReadWait = Fields
    BY <1>2 DEF DataReadWait
  <2>3. LastLane(data.WE) => data.n = 0 \/ data.n > 0
    BY <1>1 DEF Index
  <2>4. DOMAIN DataWrite = Fields
    BY <1>2, <2>3 DEF DataWrite
  <2>5. DOMAIN [data EXCEPT !.state = "read_wait"] = Fields
    BY <1>2
  <2>6. data.state \in {"stop", "read", "read_wait", "write"}
    BY <1>1
  <2> HIDE DEF Fields
  <2>7. QED
    BY <2>1, <2>2, <2>4, <2>5, <2>6 DEF DataNext
<1>4. data' = [(IF calc.state = "read" THEN [DataNext EXCEPT !.WE = {}, !.A = calc.idx] ELSE DataNext)
     EXCEPT !.RAM = BramWrite(data.RAM, data.A, data.WE, data.Di),
            !.Do = BramRead(TRUE, data.RAM, data.A)]
  BY Lab3Edge DEF DataClock
<1> HIDE DEF Fields
<1>5. QED
  BY <1>3, <1>4 DEF Fields, BramRead

\* With the shift at rest: it begins when a sample is to be taken.
LEMMA StopMoves ==
  ASSUME FilterTypes, BenchNext, data.state = "stop"
  PROVE  /\ Starts => data'.state = "read"
         /\ ~Starts => data'.state = "stop"
         /\ ss_tready => data'.n = Tape_Num /\ data'.ready = FALSE
         /\ ~ss_tready => data'.n = data.n /\ data'.ready = data.ready
         /\ data'.Di = data.Di /\ data'.validNum = data.validNum
         /\ data.WE = {} => data'.WE = {}
         /\ calc.state # "read" => data'.A = IF ss_tready THEN Tape_Num - 2 ELSE data.A
<1>1. DataNext = IF Starts THEN [DataStop EXCEPT !.state = "read"] ELSE DataStop
  BY DEF DataNext
<1>2. DataStop = IF ss_tready
        THEN [data EXCEPT !.WE = {}, !.A = Tape_Num - 2, !.n = Tape_Num, !.ready = FALSE]
        ELSE data
  BY DEF DataStop
<1>3. QED
  BY <1>1, <1>2, DataPort DEF FilterTypes

\* A word is addressed; the computation, which would have the last word on the
\* port, rests.
LEMMA ReadMoves ==
  ASSUME FilterTypes, BenchNext, data.state = "read"
  PROVE  /\ data'.state = "read_wait" /\ data'.n = data.n /\ data'.ready = data.ready
         /\ data'.Di = data.Di /\ data'.validNum = data.validNum
         /\ calc.state # "read" => data'.WE = data.WE /\ data'.A = data.A
<1>1. DataNext = [data EXCEPT !.state = "read_wait"]
  BY DEF DataNext
<1>2. QED
  BY <1>1, DataPort DEF FilterTypes

\* The word is there; it is written one place up, or the sample at the bottom.
LEMMA ReadWaitMoves ==
  ASSUME FilterTypes, BenchNext, data.state = "read_wait"
  PROVE  /\ data'.state = "write" /\ data'.n = data.n /\ data'.ready = data.ready
         /\ data'.Di = (IF data.n = 0 THEN WordOf(stream.ss_tdata) ELSE data.Do)
         /\ data'.validNum = data.validNum
         /\ calc.state # "read" => data'.WE = {0} /\ data'.A = data.n
<1>1. DataNext = [data EXCEPT !.WE = {0}, !.A = data.n, !.state = "write",
               !.Di = IF data.n = 0 THEN WordOf(stream.ss_tdata) ELSE data.Do]
  BY DEF DataNext, DataReadWait
<1>2. QED
  BY <1>1, DataPort DEF FilterTypes

\* A lane is written; after the last one the next word is read, or the shift
\* ends.
LEMMA WriteMoves ==
  ASSUME FilterTypes, BenchNext, data.state = "write"
  PROVE  /\ data'.Di = data.Di
         /\ ~LastLane(data.WE) =>
              /\ data'.state = "write" /\ data'.n = data.n /\ data'.ready = data.ready
              /\ data'.validNum = data.validNum
              /\ calc.state # "read" => data'.WE = ShiftLeft(data.WE) /\ data'.A = data.A
         /\ LastLane(data.WE) /\ data.n = 0 =>
              /\ data'.state = "stop" /\ data'.n = data.n /\ data'.ready = TRUE
              /\ data'.validNum = IF data.validNum < Tape_Num THEN data.validNum + 1
                                  ELSE data.validNum
              /\ data'.WE = {}
              /\ calc.state # "read" => data'.A = data.A
         /\ LastLane(data.WE) /\ data.n > 0 =>
              /\ data'.state = "read" /\ data'.n = data.n - 1 /\ data'.ready = data.ready
              /\ data'.validNum = data.validNum
              /\ data'.WE = {}
              /\ calc.state # "read" => data'.A = IF data.n > 1 THEN data.n - 2 ELSE 0
<1>1. DataNext = DataWrite
  BY DEF DataNext
<1>2. ~LastLane(data.WE) => DataNext = [data EXCEPT !.WE = ShiftLeft(@)]
  BY <1>1 DEF DataWrite
<1>3. LastLane(data.WE) /\ data.n = 0 =>
        DataNext = [data EXCEPT !.WE = {}, !.ready = TRUE, !.state = "stop",
                      !.validNum = IF @ < Tape_Num THEN @ + 1 ELSE @]
  BY <1>1 DEF DataWrite
<1>4. LastLane(data.WE) /\ data.n > 0 =>
        DataNext = [data EXCEPT !.WE = {}, !.A = IF data.n > 1 THEN data.n - 2 ELSE 0,
                      !.n = @ - 1, !.state = "read"]
  BY <1>1 DEF DataWrite
<1>5. QED
  <2>1. data'.Di = data.Di
    <3>1. data \in [state : {"stop", "read", "read_wait", "write"}, WE : SUBSET Lane, Di : Words,
               A : Index, n : Index, ready : BOOLEAN, validNum : Index,
               RAM : [Index -> Words], Do : Words]
      BY DEF FilterTypes
    <3>2. data.n = 0 \/ data.n > 0
      BY <3>1 DEF Index
    <3>3. DataNext.Di = data.Di
      BY <1>2, <1>3, <1>4, <3>1, <3>2
    <3>4. QED
      BY <3>3, DataPort
  <2>2. ASSUME ~LastLane(data.WE)
        PROVE  /\ data'.state = "write" /\ data'.n = data.n /\ data'.ready = data.ready
               /\ data'.validNum = data.validNum
               /\ calc.state # "read" => data'.WE = ShiftLeft(data.WE) /\ data'.A = data.A
    BY <1>2, <2>2, DataPort DEF FilterTypes
  <2>3. ASSUME LastLane(data.WE), data.n = 0
        PROVE  /\ data'.state = "stop" /\ data'.n = data.n /\ data'.ready = TRUE
               /\ data'.validNum = IF data.validNum < Tape_Num THEN data.validNum + 1
                                   ELSE data.validNum
               /\ data'.WE = {}
               /\ calc.state # "read" => data'.A = data.A
    BY <1>3, <2>3, DataPort, SMTT(30) DEF FilterTypes
  <2>4. ASSUME LastLane(data.WE), data.n > 0
        PROVE  /\ data'.state = "read" /\ data'.n = data.n - 1 /\ data'.ready = data.ready
               /\ data'.validNum = data.validNum
               /\ data'.WE = {}
               /\ calc.state # "read" => data'.A = IF data.n > 1 THEN data.n - 2 ELSE 0
    <3>1. data \in [state : {"stop", "read", "read_wait", "write"}, WE : SUBSET Lane, Di : Words,
               A : Index, n : Index, ready : BOOLEAN, validNum : Index,
               RAM : [Index -> Words], Do : Words]
      BY DEF FilterTypes
    <3>2. DataNext = [data EXCEPT !.WE = {}, !.A = IF data.n > 1 THEN data.n - 2 ELSE 0,
                        !.n = @ - 1, !.state = "read"]
      BY <1>4, <2>4
    <3>3. /\ DataNext.state = "read" /\ DataNext.n = data.n - 1 /\ DataNext.ready = data.ready
          /\ DataNext.validNum = data.validNum /\ DataNext.WE = {}
          /\ DataNext.A = IF data.n > 1 THEN data.n - 2 ELSE 0
      BY <3>1, <3>2
    <3>4. calc.state = "read" => data'.WE = {}
      BY DataPort
    <3>5. QED
      BY <3>3, <3>4, DataPort
  <2>5. QED
    BY <2>1, <2>2, <2>3, <2>4

\* The port of the taps at an edge.
LEMMA TapMoves ==
  ASSUME FilterTypes, BenchTypes, Access, BenchNext
  PROVE  /\ tap'.RAM = IF tap.EN THEN BramWrite(tap.RAM, tap.A, tap.WE, tap.Di) ELSE tap.RAM
         /\ tap'.Do = IF tap.EN THEN tap.RAM[tap.A] ELSE WordOf(0)
         /\ tap'.Di = IF axi.wvalid /\ ~lite.wready /\ tap.EN /\ tap.WE = {}
                        THEN WordOf(axi.wdata) ELSE tap.Di
         /\ calc.state = "read" => tap'.EN = TRUE /\ tap'.WE = {} /\ tap'.A = calc.idx
         /\ calc.state # "read" =>
              /\ tap'.WE = IF axi.wvalid /\ ~lite.wready /\ tap.EN
                             THEN IF tap.WE = {} THEN {0} ELSE ShiftLeft(tap.WE) ELSE tap.WE
              /\ tap'.EN <=> \/ axi.awvalid /\ lite.awready /\ IsTap(axi.awaddr)
                             \/ axi.arvalid /\ ~lite.arready
                             \/ /\ tap.EN /\ ~(axi.wvalid /\ lite.wready)
                                /\ ~(axi.rready /\ lite.rvalid)
              /\ tap'.A = CASE axi.awvalid /\ ~lite.awready /\ IsTap(axi.awaddr) -> axi.awaddr.n
                            [] axi.arvalid /\ ~lite.arready /\ IsTap(axi.araddr) -> axi.araddr.n
                            [] OTHER -> tap.A
<1>1. tap \in [WE : SUBSET Lane, EN : BOOLEAN, Di : Words, A : Index, RAM : [Index -> Words],
              Do : Words]
  BY DEF FilterTypes
<1> DEFINE Fields == {"WE", "EN", "Di", "A", "RAM", "Do"}
           wa == axi.awvalid /\ ~lite.awready
           wb == axi.awvalid /\ lite.awready
           wc == axi.wvalid /\ ~lite.wready
           wd == axi.wvalid /\ lite.wready
           ra == axi.arvalid /\ ~lite.arready
           rb == axi.rready /\ lite.rvalid
<1>2. /\ WriteAddress(FALSE) <=> wa
      /\ WriteAddress(TRUE) <=> wb
      /\ WriteData(FALSE) <=> wc
      /\ WriteData(TRUE) <=> wd
      /\ ReadAddress(FALSE) <=> ra
      /\ ReadData(TRUE) <=> rb
  <2>1. /\ lite.awready \in BOOLEAN /\ lite.wready \in BOOLEAN /\ lite.arready \in BOOLEAN
        /\ lite.rvalid \in BOOLEAN
    BY DEF FilterTypes
  <2>2. QED
    BY <2>1, Phases
<1>3. /\ wa => ~wb /\ ~wc /\ ~wd /\ ~ra /\ ~rb
      /\ wb => ~wc /\ ~wd /\ ~ra /\ ~rb
      /\ wc => ~wd /\ ~ra /\ ~rb
      /\ wd => ~ra /\ ~rb
      /\ ra => ~rb
  BY DEF Access
<1> HIDE DEF wa, wb, wc, wd, ra, rb
<1>4. /\ wa /\ IsTap(axi.awaddr) => TapWrites = [tap EXCEPT !.A = axi.awaddr.n]
      /\ wb /\ IsTap(axi.awaddr) => TapWrites = [tap EXCEPT !.EN = TRUE]
      /\ wc /\ tap.EN /\ tap.WE = {} => TapWrites = [tap EXCEPT !.WE = {0}, !.Di = WordOf(axi.wdata)]
      /\ wc /\ tap.EN /\ tap.WE # {} => TapWrites = [tap EXCEPT !.WE = ShiftLeft(@)]
      /\ wd => TapWrites = [tap EXCEPT !.EN = FALSE]
      /\ ~(wa /\ IsTap(axi.awaddr)) /\ ~(wb /\ IsTap(axi.awaddr)) /\ ~(wc /\ tap.EN) /\ ~wd
           => TapWrites = tap
  BY <1>2, <1>3 DEF TapWrites
<1>5. /\ DOMAIN TapWrites = Fields
      /\ TapWrites.Di = IF wc /\ tap.EN /\ tap.WE = {} THEN WordOf(axi.wdata) ELSE tap.Di
      /\ TapWrites.WE = IF wc /\ tap.EN THEN IF tap.WE = {} THEN {0} ELSE ShiftLeft(tap.WE)
                        ELSE tap.WE
      /\ TapWrites.EN <=> (wb /\ IsTap(axi.awaddr)) \/ (tap.EN /\ ~wd)
      /\ TapWrites.A = IF wa /\ IsTap(axi.awaddr) THEN axi.awaddr.n ELSE tap.A
  <2>1. CASE wa /\ IsTap(axi.awaddr)
    BY <1>1, <1>3, <1>4, <2>1
  <2>2. CASE wb /\ IsTap(axi.awaddr)
    BY <1>1, <1>3, <1>4, <2>2
  <2>3. CASE wc /\ tap.EN /\ tap.WE = {}
    BY <1>1, <1>3, <1>4, <2>3
  <2>4. CASE wc /\ tap.EN /\ tap.WE # {}
    BY <1>1, <1>3, <1>4, <2>4
  <2>5. CASE wd
    BY <1>1, <1>3, <1>4, <2>5
  <2>6. CASE ~(wa /\ IsTap(axi.awaddr)) /\ ~(wb /\ IsTap(axi.awaddr)) /\ ~(wc /\ tap.EN) /\ ~wd
    BY <1>1, <1>4, <2>6
  <2>7. QED
    BY <2>1, <2>2, <2>3, <2>4, <2>5, <2>6
<1>6. /\ ra => TapReads =
           [TapWrites EXCEPT !.EN = TRUE, !.A = IF IsTap(axi.araddr) THEN axi.araddr.n ELSE @]
      /\ rb => TapReads = [TapWrites EXCEPT !.EN = FALSE]
      /\ ~ra /\ ~rb => TapReads = TapWrites
  BY <1>2, <1>3 DEF TapReads
<1>7. /\ DOMAIN TapReads = Fields
      /\ TapReads.Di = TapWrites.Di
      /\ TapReads.WE = TapWrites.WE
      /\ TapReads.EN <=> ra \/ (TapWrites.EN /\ ~rb)
      /\ TapReads.A = IF ra /\ IsTap(axi.araddr) THEN axi.araddr.n ELSE TapWrites.A
  <2>1. CASE ra
    BY <1>3, <1>5, <1>6, <2>1
  <2>2. CASE rb
    BY <1>3, <1>5, <1>6, <2>2
  <2>3. CASE ~ra /\ ~rb
    BY <1>5, <1>6, <2>3
  <2>4. QED
    BY <2>1, <2>2, <2>3
<1>8. tap' = [TapNext EXCEPT
     !.RAM = IF tap.EN THEN BramWrite(tap.RAM, tap.A, tap.WE, tap.Di) ELSE tap.RAM,
     !.Do = BramRead(tap.EN, tap.RAM, tap.A)]
  BY Lab3Edge DEF TapClock
<1>9. /\ DOMAIN TapNext = Fields
      /\ calc.state = "read" =>
           TapNext.EN = TRUE /\ TapNext.WE = {} /\ TapNext.A = calc.idx /\ TapNext.Di = TapReads.Di
      /\ calc.state # "read" => TapNext = TapReads
  BY <1>7 DEF TapNext
<1>10. /\ tap'.RAM = IF tap.EN THEN BramWrite(tap.RAM, tap.A, tap.WE, tap.Di) ELSE tap.RAM
       /\ tap'.Do = IF tap.EN THEN tap.RAM[tap.A] ELSE WordOf(0)
       /\ tap'.Di = TapNext.Di /\ tap'.WE = TapNext.WE /\ tap'.EN = TapNext.EN /\ tap'.A = TapNext.A
  BY <1>8, <1>9 DEF BramRead
<1>11. tap'.Di = IF axi.wvalid /\ ~lite.wready /\ tap.EN /\ tap.WE = {}
                   THEN WordOf(axi.wdata) ELSE tap.Di
  <2>1. tap'.Di = TapWrites.Di
    BY <1>7, <1>9, <1>10
  <2>2. QED
    BY <1>5, <2>1 DEF wc
<1>12. ASSUME calc.state # "read"
       PROVE  tap'.A = CASE wa /\ IsTap(axi.awaddr) -> axi.awaddr.n
                         [] ra /\ IsTap(axi.araddr) -> axi.araddr.n
                         [] OTHER -> tap.A
  <2>1. tap'.A = TapReads.A
    BY <1>9, <1>10, <1>12
  <2>2. QED
    BY <1>3, <1>5, <1>7, <2>1
<1>13. ASSUME calc.state # "read"
       PROVE  tap'.EN <=> (wb /\ IsTap(axi.awaddr)) \/ ra \/ (tap.EN /\ ~wd /\ ~rb)
  <2>1. tap'.EN = TapReads.EN
    BY <1>9, <1>10, <1>13
  <2>2. QED
    BY <1>3, <1>5, <1>7, <2>1
<1>14. ASSUME calc.state # "read"
       PROVE  tap'.WE = IF wc /\ tap.EN
                          THEN IF tap.WE = {} THEN {0} ELSE ShiftLeft(tap.WE) ELSE tap.WE
  <2>1. tap'.WE = TapWrites.WE
    BY <1>7, <1>9, <1>10, <1>14
  <2>2. QED
    BY <1>5, <2>1
<1>15. QED
  BY <1>9, <1>10, <1>11, <1>12, <1>13, <1>14 DEF wa, wb, wc, wd, ra, rb

\* The computation at an edge, state by state.
LEMMA CalcMoves ==
  ASSUME FilterTypes, BenchTypes, BenchNext
  PROVE  /\ calc.state = "stop" =>
              /\ calc'.idx = 0 /\ calc'.sum = <<>> /\ calc'.ready = FALSE
              /\ ~ap.idle /\ data.ready /\ ~calc.ready => calc'.state = "read"
              /\ ~(~ap.idle /\ data.ready /\ ~calc.ready) => calc'.state = "stop"
         /\ calc.state = "read" =>
              /\ calc'.state = "read_wait" /\ calc'.idx = calc.idx /\ calc'.sum = calc.sum
              /\ calc'.ready = calc.ready
         /\ calc.state = "read_wait" =>
              /\ calc'.state = "calculate" /\ calc'.idx = calc.idx /\ calc'.sum = calc.sum
              /\ calc'.ready = calc.ready
         /\ calc.state = "calculate" =>
              /\ calc'.idx = (calc.idx + 1) % 16
              /\ calc'.sum = Append(calc.sum, <<tap.Do, data.Do>>)
              /\ calc.idx = data.validNum - 1 => calc'.state = "stop" /\ calc'.ready = TRUE
              /\ calc.idx # data.validNum - 1 => calc'.state = "read" /\ calc'.ready = FALSE
<1>1. CalcClock
  BY Lab3Edge
<1>2. stream.sm_tready = TRUE
  BY DEF BenchTypes
<1>3. CASE calc.state = "stop"
  <2>1. calc' = [state |-> IF ~ap.idle /\ data.ready /\ ~calc.ready THEN "read" ELSE "stop",
                 idx |-> 0, sum |-> <<>>, ready |-> FALSE]
    BY <1>1, <1>2, <1>3 DEF CalcClock, CalcStop, CalcRead, CalcReadWait, Calculate
  <2>2. QED
    BY <1>3, <2>1
<1>4. CASE calc.state = "read"
  BY <1>1, <1>4 DEF CalcClock, CalcStop, CalcRead, CalcReadWait, Calculate, FilterTypes
<1>5. CASE calc.state = "read_wait"
  BY <1>1, <1>5 DEF CalcClock, CalcStop, CalcRead, CalcReadWait, Calculate, FilterTypes
<1>6. CASE calc.state = "calculate"
  <2> DEFINE last == calc.idx = data.validNum - 1
  <2>1. calc' = [state |-> IF last THEN "stop" ELSE "read", idx |-> (calc.idx + 1) % 16,
                 sum |-> Append(calc.sum, <<tap.Do, data.Do>>), ready |-> last]
    BY <1>1, <1>6 DEF CalcClock, CalcStop, CalcRead, CalcReadWait, Calculate
  <2>2. last \in BOOLEAN
    OBVIOUS
  <2> HIDE DEF last
  <2>3. /\ calc'.idx = (calc.idx + 1) % 16
        /\ calc'.sum = Append(calc.sum, <<tap.Do, data.Do>>)
        /\ last => calc'.state = "stop" /\ calc'.ready = TRUE
        /\ ~last => calc'.state = "read" /\ calc'.ready = FALSE
    BY <2>1, <2>2
  <2>4. QED
    BY <1>6, <2>3 DEF last
<1>7. QED
  BY <1>3, <1>4, <1>5, <1>6

\* The control register and the length at an edge.
LEMMA ApMoves ==
  ASSUME FilterTypes, BenchTypes, Access, BenchNext
  PROVE  /\ Writes("ap_state") <=> axi.wvalid /\ ~lite.wready /\ step = Start
         /\ Writes("data_length") <=> axi.wvalid /\ ~lite.wready /\ step = 0
         /\ ap'.start <=> ap.idle /\ (Writes("ap_state") \/ ap.start)
         /\ ap'.done <=> ap.done \/ (calc.ready /\ ap.length = 1)
         /\ ap'.idle <=> (calc.ready /\ ap.length = 1) \/ (ap.idle /\ ~Writes("ap_state"))
         /\ calc.ready => ap'.length = (ap.length - 1) % 1024
         /\ ~calc.ready /\ Writes("data_length") => ap'.length = RunLength
         /\ ~calc.ready /\ ~Writes("data_length") => ap'.length = ap.length
<1>1. WriteData(FALSE) <=> axi.wvalid /\ ~lite.wready
  <2>1. lite.wready \in BOOLEAN
    BY DEF FilterTypes
  <2>2. QED
    BY <2>1, Phases
<1>2. axi.wvalid => WritesIn(step) /\ axi.wdata = DataOf(step) /\ axi.awaddr = AddressOf(step)
  BY DEF Access
<1>3. /\ axi.wvalid /\ axi.awaddr.reg = "ap_state" <=> axi.wvalid /\ step = Start
      /\ axi.wvalid /\ axi.awaddr.reg = "data_length" <=> axi.wvalid /\ step = 0
      /\ axi.wvalid /\ step = 0 => axi.wdata = RunLength
  <2>1. step \in 0 .. Started
    BY DEF BenchTypes
  <2>2. WritesIn(step) => (step > 2 * Tape_Num <=> step = Start)
    BY <2>1, Numbers DEF WritesIn
  <2>3. /\ AddressOf(step).reg = "data_length" <=> step = 0
        /\ AddressOf(step).reg = "ap_state" <=> step > 2 * Tape_Num
        /\ step = 0 => DataOf(step) = RunLength
    BY <2>1, Numbered
  <2>4. QED
    BY <1>2, <2>2, <2>3
<1>4. /\ Writes("ap_state") <=> axi.wvalid /\ ~lite.wready /\ step = Start
      /\ Writes("data_length") <=> axi.wvalid /\ ~lite.wready /\ step = 0
  BY <1>1, <1>3 DEF Writes
<1>5. ApClock
  BY Lab3Edge
<1>6. ap'.start <=> ap.idle /\ (Writes("ap_state") \/ ap.start)
  BY <1>5 DEF ApClock
<1>7. ap'.done <=> ap.done \/ (calc.ready /\ ap.length = 1)
  BY <1>5 DEF ApClock, sm_tlast
<1>8. ap'.idle <=> (calc.ready /\ ap.length = 1) \/ (ap.idle /\ ~Writes("ap_state"))
  BY <1>5 DEF ApClock, sm_tlast
<1>9. ap'.length = CASE calc.ready -> (ap.length - 1) % 1024
                     [] ~calc.ready /\ Writes("data_length") -> axi.wdata
                     [] OTHER -> ap.length
  BY <1>5 DEF ApClock
<1>10. Writes("data_length") => axi.wdata = RunLength
  BY <1>3, <1>4
<1>11. QED
  BY <1>4, <1>6, <1>7, <1>8, <1>9, <1>10

-----------------------------------------------------------------------------
(* The types. *)

\* The numbers that the registers hold.
LEMMA Ranges ==
  ASSUME FilterTypes
  PROVE  /\ data.n \in Nat /\ data.n <= Tape_Num
         /\ data.validNum \in Nat /\ data.validNum <= Tape_Num
         /\ data.A \in Index /\ tap.A \in Index
         /\ calc.idx \in 0 .. 15
         /\ calc.idx < data.validNum => calc.idx \in Index
         /\ ap.length \in 0 .. 1023
<1>1. data.n \in 0 .. Tape_Num /\ data.validNum \in 0 .. Tape_Num
  BY DEF FilterTypes, Index
<1>2. calc.idx \in 0 .. 15
  BY DEF FilterTypes
<1>3. ap.length \in 0 .. 1023
  BY DEF FilterTypes
<1>4. data.A \in Index /\ tap.A \in Index
  BY DEF FilterTypes
<1>5. calc.idx < data.validNum => calc.idx \in Index
  BY <1>1, <1>2, Numbers DEF Index
<1>6. QED
  BY <1>1, <1>2, <1>3, <1>4, <1>5, Numbers

\* The computation reads words that are there.
IndexInUse == calc.state \in {"read", "read_wait"} => calc.idx < data.validNum

\* The registers of the shift and the RAM of samples keep their types.
LEMMA DataTypesStep ==
  ASSUME FilterTypes, BenchTypes, IndexInUse, BenchNext
  PROVE  data' \in [state : {"stop", "read", "read_wait", "write"}, WE : SUBSET Lane, Di : Words,
                    A : Index, n : Index, ready : BOOLEAN, validNum : Index,
                    RAM : [Index -> Words], Do : Words]
<1> DEFINE Fields == [state : {"stop", "read", "read_wait", "write"}, WE : SUBSET Lane, Di : Words,
                      A : Index, n : Index, ready : BOOLEAN, validNum : Index,
                      RAM : [Index -> Words], Do : Words]
<1>1. data \in Fields
  BY DEF FilterTypes
<1>2. /\ Tape_Num \in Nat /\ Tape_Num >= 2 /\ 0 \in Index /\ Tape_Num \in Index
      /\ Tape_Num - 2 \in Index
  BY Numbers DEF Index
<1>3. DataStop \in Fields /\ [DataStop EXCEPT !.state = "read"] \in Fields
  BY <1>1, <1>2 DEF DataStop
<1>4. [data EXCEPT !.state = "read_wait"] \in Fields
  BY <1>1
<1>5. DataReadWait \in Fields
  <2>1. WordOf(stream.ss_tdata) \in Words
    BY Whole DEF BenchTypes
  <2>2. {0} \in SUBSET Lane
    BY DEF Lane
  <2>3. (IF data.n = 0 THEN WordOf(stream.ss_tdata) ELSE data.Do) \in Words
    BY <1>1, <2>1
  <2>4. QED
    BY <1>1, <2>2, <2>3 DEF DataReadWait
<1>6. DataWrite \in Fields
  <2>1. data.n \in Nat /\ data.n <= Tape_Num /\ data.validNum \in Nat /\ data.validNum <= Tape_Num
    BY <1>1, <1>2 DEF Index
  <2>2. CASE ~LastLane(data.WE)
    <3>1. ShiftLeft(data.WE) \in SUBSET Lane
      BY <1>1 DEF ShiftLeft, Lane
    <3>2. DataWrite = [data EXCEPT !.WE = ShiftLeft(data.WE)]
      BY <2>2 DEF DataWrite
    <3>3. QED
      BY <1>1, <3>1, <3>2
  <2>3. CASE LastLane(data.WE) /\ data.n = 0
    <3> DEFINE valid == IF data.validNum < Tape_Num THEN data.validNum + 1 ELSE data.validNum
    <3>1. valid \in Index
      BY <1>2, <2>1 DEF Index
    <3>2. DataWrite = [data EXCEPT !.WE = {}, !.ready = TRUE, !.state = "stop", !.validNum = valid]
      BY <2>3 DEF DataWrite
    <3> HIDE DEF valid
    <3>3. QED
      BY <1>1, <3>1, <3>2
  <2>4. CASE LastLane(data.WE) /\ data.n > 0
    <3> DEFINE a == IF data.n > 1 THEN data.n - 2 ELSE 0
               below == data.n - 1
    <3>1. a \in Index /\ below \in Index
      BY <1>2, <2>1, <2>4 DEF Index
    <3>2. DataWrite = [data EXCEPT !.WE = {}, !.A = a, !.n = below, !.state = "read"]
      BY <2>1, <2>4 DEF DataWrite
    <3> HIDE DEF a, below
    <3>3. QED
      BY <1>1, <3>1, <3>2
  <2>5. QED
    BY <2>1, <2>2, <2>3, <2>4
<1>7. DataNext \in Fields
  <2>1. data.state \in {"stop", "read", "read_wait", "write"}
    BY <1>1
  <2> HIDE DEF Fields
  <2>2. QED
    BY <2>1, <1>3, <1>4, <1>5, <1>6 DEF DataNext
<1>8. (IF calc.state = "read" THEN [DataNext EXCEPT !.WE = {}, !.A = calc.idx] ELSE DataNext)
        \in Fields
  <2>1. calc.state = "read" => calc.idx \in Index
    BY Ranges DEF IndexInUse
  <2>2. QED
    BY <1>7, <2>1
<1>9. data' = [(IF calc.state = "read" THEN [DataNext EXCEPT !.WE = {}, !.A = calc.idx] ELSE DataNext)
     EXCEPT !.RAM = BramWrite(data.RAM, data.A, data.WE, data.Di),
            !.Do = BramRead(TRUE, data.RAM, data.A)]
  BY Lab3Edge DEF DataClock
<1>10. BramWrite(data.RAM, data.A, data.WE, data.Di) \in [Index -> Words]
       /\ BramRead(TRUE, data.RAM, data.A) \in Words
  BY <1>1, Written DEF BramRead
<1>11. QED
  BY <1>8, <1>9, <1>10

\* The port of the taps and their RAM keep their types.
LEMMA TapTypesStep ==
  ASSUME FilterTypes, BenchTypes, Access, IndexInUse, BenchNext
  PROVE  tap' \in [WE : SUBSET Lane, EN : BOOLEAN, Di : Words, A : Index, RAM : [Index -> Words],
                   Do : Words]
<1> DEFINE Fields == [WE : SUBSET Lane, EN : BOOLEAN, Di : Words, A : Index, RAM : [Index -> Words],
                      Do : Words]
<1>1. tap \in Fields
  BY DEF FilterTypes
<1>2. axi.awaddr.n \in Index /\ axi.araddr.n \in Index /\ WordOf(axi.wdata) \in Words
      /\ WordOf(0) \in Words
  BY Whole DEF BenchTypes, Address
<1>3. ShiftLeft(tap.WE) \in SUBSET Lane /\ {0} \in SUBSET Lane
  BY <1>1 DEF ShiftLeft, Lane
<1>4. TapWrites \in Fields
  BY <1>1, <1>2, <1>3 DEF TapWrites
<1>5. TapReads \in Fields
  <2> DEFINE W == TapWrites
             a == IF IsTap(axi.araddr) THEN axi.araddr.n ELSE W.A
  <2>1. W \in Fields
    BY <1>4
  <2>2. TapReads = [W EXCEPT !.EN = TRUE, !.A = a] \/ TapReads = [W EXCEPT !.EN = FALSE]
        \/ TapReads = W
    BY DEF TapReads
  <2>3. a \in Index
    BY <1>2, <2>1
  <2> HIDE DEF W, a
  <2>4. QED
    BY <2>1, <2>2, <2>3
<1>6. TapNext \in Fields
  <2>1. calc.state = "read" => calc.idx \in Index
    BY Ranges DEF IndexInUse
  <2>2. QED
    BY <1>5, <2>1 DEF TapNext
<1>7. tap' = [TapNext EXCEPT
     !.RAM = IF tap.EN THEN BramWrite(tap.RAM, tap.A, tap.WE, tap.Di) ELSE tap.RAM,
     !.Do = BramRead(tap.EN, tap.RAM, tap.A)]
  BY Lab3Edge DEF TapClock
<1>8. (IF tap.EN THEN BramWrite(tap.RAM, tap.A, tap.WE, tap.Di) ELSE tap.RAM) \in [Index -> Words]
      /\ BramRead(tap.EN, tap.RAM, tap.A) \in Words
  BY <1>1, <1>2, Written DEF BramRead
<1>9. QED
  BY <1>6, <1>7, <1>8

\* Every register of the filter keeps its type.
LEMMA FilterTypesStep ==
  ASSUME FilterTypes, BenchTypes, Access, IndexInUse, BenchNext
  PROVE  FilterTypes'
<1>1. calc' \in [state : {"stop", "read", "read_wait", "calculate"}, idx : 0 .. 15,
                 sum : Seq(Words \X Words), ready : BOOLEAN]
  <2>1. calc \in [state : {"stop", "read", "read_wait", "calculate"}, idx : 0 .. 15,
                  sum : Seq(Words \X Words), ready : BOOLEAN]
        /\ tap.Do \in Words /\ data.Do \in Words
    BY DEF FilterTypes
  <2>2. CalcClock
    BY Lab3Edge
  <2>3. CASE CalcStop
    <3>1. <<>> \in Seq(Words \X Words) /\ 0 \in 0 .. 15
      OBVIOUS
    <3> DEFINE begins == ~ap.idle /\ data.ready /\ ~calc.ready /\ stream.sm_tready
    <3>2. calc' = [state |-> IF begins THEN "read" ELSE "stop", idx |-> 0, sum |-> <<>>,
                   ready |-> FALSE]
      BY <2>3 DEF CalcStop
    <3> HIDE DEF begins
    <3>3. QED
      BY <3>1, <3>2
  <2>4. CASE CalcRead
    BY <2>1, <2>4 DEF CalcRead
  <2>5. CASE CalcReadWait
    BY <2>1, <2>5 DEF CalcReadWait
  <2>6. CASE Calculate
    <3> DEFINE last == calc.idx = data.validNum - 1
               next == (calc.idx + 1) % 16
               longer == Append(calc.sum, <<tap.Do, data.Do>>)
    <3>1. next \in 0 .. 15 /\ last \in BOOLEAN
      BY <2>1
    <3>2. longer \in Seq(Words \X Words)
      <4>1. <<tap.Do, data.Do>> \in Words \X Words
        BY <2>1
      <4>2. QED
        BY <2>1, <4>1
    <3>3. calc' = [state |-> IF last THEN "stop" ELSE "read", idx |-> next,
                   sum |-> longer, ready |-> last]
      BY <2>6 DEF Calculate
    <3> HIDE DEF last, next, longer
    <3>4. QED
      BY <3>1, <3>2, <3>3
  <2>7. QED
    BY <2>2, <2>3, <2>4, <2>5, <2>6 DEF CalcClock
<1>2. lite' \in [awready : BOOLEAN, wready : BOOLEAN, arready : BOOLEAN, rvalid : BOOLEAN,
             rdata : [start : BOOLEAN, done : BOOLEAN, idle : BOOLEAN, tap : Words],
             isTap : BOOLEAN]
  <2> DEFINE rdata == CASE ReadData(FALSE) /\ lite.isTap -> [lite.rdata EXCEPT !.tap = tap.Do]
               [] ReadData(FALSE) /\ ~lite.isTap ->
                    [lite.rdata EXCEPT !.start = ap.start, !.done = ap.done, !.idle = ap.idle]
               [] OTHER -> lite.rdata
             aw == WriteAddress(FALSE) \/ (lite.awready /\ ~WriteAddress(TRUE))
             w == \/ WriteData(FALSE) /\ (IF tap.EN THEN LastLane(tap.WE) ELSE tap.WE = {})
                  \/ lite.wready /\ ~WriteData(TRUE)
             ar == ReadAddress(FALSE) \/ (lite.arready /\ ~ReadAddress(TRUE))
             r == ReadData(FALSE) \/ (lite.rvalid /\ ~ReadData(TRUE))
             t == IF ReadAddress(FALSE) THEN IsTap(axi.araddr) ELSE lite.isTap /\ ~ReadData(FALSE)
  <2>1. rdata \in [start : BOOLEAN, done : BOOLEAN, idle : BOOLEAN, tap : Words]
    <3>1. /\ lite.rdata \in [start : BOOLEAN, done : BOOLEAN, idle : BOOLEAN, tap : Words]
          /\ tap.Do \in Words /\ ap.start \in BOOLEAN /\ ap.done \in BOOLEAN /\ ap.idle \in BOOLEAN
      BY DEF FilterTypes
    <3>2. rdata \in {lite.rdata, [lite.rdata EXCEPT !.tap = tap.Do],
                     [lite.rdata EXCEPT !.start = ap.start, !.done = ap.done, !.idle = ap.idle]}
      OBVIOUS
    <3> HIDE DEF rdata
    <3>3. QED
      BY <3>1, <3>2
  <2>2. aw \in BOOLEAN /\ w \in BOOLEAN /\ ar \in BOOLEAN /\ r \in BOOLEAN
    OBVIOUS
  <2>3. t \in BOOLEAN
    BY DEF IsTap
  <2>4. lite' = [awready |-> aw, wready |-> w, arready |-> ar, rvalid |-> r, rdata |-> rdata,
                 isTap |-> t]
    BY Lab3Edge DEF LiteClock
  <2> HIDE DEF rdata, aw, w, ar, r, t
  <2>5. QED
    BY <2>1, <2>2, <2>3, <2>4
<1>3. ap' \in [start : BOOLEAN, done : BOOLEAN, idle : BOOLEAN, length : 0 .. 1023]
  <2> DEFINE length == CASE calc.ready -> (ap.length - 1) % 1024
                         [] ~calc.ready /\ Writes("data_length") -> axi.wdata
                         [] OTHER -> ap.length
             start == ap.idle /\ (Writes("ap_state") \/ ap.start)
             done == ap.done \/ sm_tlast
             idle == sm_tlast \/ (ap.idle /\ ~Writes("ap_state"))
  <2>1. start \in BOOLEAN /\ done \in BOOLEAN /\ idle \in BOOLEAN
    OBVIOUS
  <2>2. ap' = [start |-> start, done |-> done, idle |-> idle, length |-> length]
    BY Lab3Edge DEF ApClock
  <2>3. length \in 0 .. 1023
    <3>1. ap.length \in 0 .. 1023 /\ (ap.length - 1) % 1024 \in 0 .. 1023
      BY Ranges
    <3>2. ap'.length = length
      BY <2>2
    <3>3. calc.ready \in BOOLEAN
      BY DEF FilterTypes
    <3> HIDE DEF length
    <3>4. QED
      BY <3>1, <3>2, <3>3, ApMoves, Numbers
  <2> HIDE DEF start, done, idle, length
  <2>4. QED
    BY <2>1, <2>2, <2>3
<1>4. QED
  BY <1>1, <1>2, <1>3, DataTypesStep, TapTypesStep DEF FilterTypes

\* The lines of the testbench keep their types.
LEMMA LinesTypesStep ==
  ASSUME FilterTypes, BenchTypes, Access, BenchNext
  PROVE  /\ axi' \in [awvalid : BOOLEAN, awaddr : Address, wvalid : BOOLEAN, wdata : Int,
                      arvalid : BOOLEAN, araddr : Address, rready : BOOLEAN]
         /\ step' \in 0 .. Started
         /\ final' \in [begun : BOOLEAN, ended : Nat]
<1>1. /\ axi \in [awvalid : BOOLEAN, awaddr : Address, wvalid : BOOLEAN, wdata : Int,
                  arvalid : BOOLEAN, araddr : Address, rready : BOOLEAN]
      /\ step \in 0 .. Started
      /\ final \in [begun : BOOLEAN, ended : Nat]
  BY DEF BenchTypes
<1>2. CASE LiteWaits
  BY <1>1, <1>2 DEF LiteWaits
<1>3. CASE OffersData
  <2>1. DataOf(step) \in Int
    BY <1>1, Numbered
  <2>2. QED
    BY <1>1, <1>3, <2>1 DEF OffersData
<1>4. CASE AwaitsData
  BY <1>1, <1>4 DEF AwaitsData
<1>5. CASE Complete
  <2>1. step' \in 0 .. Started /\ axi' = Begun(step')
    BY <1>5, BeginMoves
  <2>2. /\ WritesIn(step') \in BOOLEAN /\ ReadsBack(step') \in BOOLEAN
        /\ AddressOf(step') \in Address
    BY <2>1, Numbered
  <2>3. axi.wdata \in Int
    BY <1>1
  <2>4. axi' \in [awvalid : BOOLEAN, awaddr : Address, wvalid : BOOLEAN, wdata : Int,
                  arvalid : BOOLEAN, araddr : Address, rready : BOOLEAN]
    BY <2>1, <2>2, <2>3 DEF Begun
  <2>5. final' \in [begun : BOOLEAN, ended : Nat]
    <3>1. CASE final' = final
      BY <1>1, <3>1
    <3>2. CASE final' = [begun |-> FALSE,
                         ended |-> IF final.begun THEN final.ended + 1 ELSE final.ended]
      <4>1. (IF final.begun THEN final.ended + 1 ELSE final.ended) \in Nat
        BY <1>1
      <4>2. QED
        BY <3>2, <4>1
    <3>3. QED
      BY <1>5, <3>1, <3>2 DEF Complete
  <2>6. QED
    BY <2>1, <2>4, <2>5
<1>6. CASE ReadStatus
  <2>1. AllSeen \in BOOLEAN
    BY DEF AllSeen
  <2>2. QED
    BY <1>1, <1>6, <2>1 DEF ReadStatus
<1>7. QED
  BY <1>2, <1>3, <1>4, <1>5, <1>6, BenchMoves

\* The streams at an edge: an output is taken with a sample, or not.
StreamTypes == /\ stream \in [ss_tvalid : BOOLEAN, ss_tdata : Nat, sm_tready : {TRUE}]
               /\ late \in 0 .. MaxLate

\* Outputs and samples are numbers.
LEMMA Counted ==
  ASSUME BenchTypes
  PROVE  outputs \in Nat /\ outputs <= RunLength /\ accepted = outputs
         /\ late \in Nat /\ late <= MaxLate /\ StreamTypes
<1>1. outputs \in 0 .. RunLength /\ accepted = outputs /\ late \in 0 .. MaxLate
  BY DEF BenchTypes
<1>2. StreamTypes
  BY DEF BenchTypes, StreamTypes
<1>3. QED
  BY <1>1, <1>2, Numbers

\* A sample is shown, or the old one is left in place.
LEMMA ShownOrLeft ==
  ASSUME StreamTypes, Present \/ Leave, accepted' \in Nat
  PROVE  /\ StreamTypes' /\ stream'.ss_tvalid = stream.ss_tvalid
         /\ (late' = 0 /\ stream'.ss_tdata = accepted') \/ late' = late + 1
<1>1. CASE Present
  <2>1. late' = 0 /\ stream' = [stream EXCEPT !.ss_tdata = accepted']
    BY <1>1 DEF Present
  <2>2. late' \in 0 .. MaxLate
    BY <2>1, Numbers
  <2>3. stream' \in [ss_tvalid : BOOLEAN, ss_tdata : Nat, sm_tready : {TRUE}]
        /\ stream'.ss_tdata = accepted' /\ stream'.ss_tvalid = stream.ss_tvalid
    BY <2>1 DEF StreamTypes
  <2>4. QED
    BY <2>1, <2>2, <2>3 DEF StreamTypes
<1>2. CASE Leave
  <2>1. late \in 0 .. MaxLate /\ late < MaxLate /\ late' = late + 1 /\ stream' = stream
    BY <1>2 DEF Leave, StreamTypes
  <2>2. late' \in 0 .. MaxLate
    BY <2>1, Numbers
  <2>3. stream' \in [ss_tvalid : BOOLEAN, ss_tdata : Nat, sm_tready : {TRUE}]
    BY <2>1 DEF StreamTypes
  <2>4. QED
    BY <2>1, <2>2, <2>3 DEF StreamTypes
<1>3. QED
  BY <1>1, <1>2

\* The edge of an output counts it and accepts a sample.
LEMMA OutputTaken ==
  ASSUME BenchTypes, BenchNext, calc.ready, stream.ss_tvalid
  PROVE  /\ StreamTypes' /\ outputs' = outputs + 1 /\ accepted' = outputs'
         /\ stream'.ss_tvalid
         /\ outputs' < RunLength => \/ late' = 0 /\ stream'.ss_tdata = outputs'
                                    \/ late' = late + 1
         /\ outputs' >= RunLength => late' = late
<1>1. outputs' = outputs + 1 /\ accepted' = accepted + 1
  BY Lab3Edge DEF ss, ss_tready, sm, sm_tvalid
<1>2. accepted' = outputs' /\ accepted' \in Nat
  BY <1>1, Counted
<1>3. IF accepted' < RunLength THEN Present \/ Leave ELSE UNCHANGED <<stream, late>>
  BY Lab3Edge DEF ss, ss_tready
<1>4. CASE accepted' < RunLength
  <2>1. /\ StreamTypes' /\ stream'.ss_tvalid = stream.ss_tvalid
        /\ (late' = 0 /\ stream'.ss_tdata = accepted') \/ late' = late + 1
    BY <1>2, <1>3, <1>4, ShownOrLeft, Counted
  <2>2. ~(outputs' >= RunLength)
    BY <1>2, <1>4, Numbers
  <2>3. QED
    BY <1>1, <1>2, <2>1, <2>2
<1>5. CASE ~(accepted' < RunLength)
  <2>1. stream' = stream /\ late' = late
    BY <1>3, <1>5
  <2>2. StreamTypes' /\ stream'.ss_tvalid
    BY <2>1, Counted DEF StreamTypes
  <2>3. QED
    BY <1>1, <1>2, <1>5, <2>1, <2>2
<1>6. QED
  BY <1>4, <1>5

\* An edge without an output counts nothing.
LEMMA NoOutput ==
  ASSUME BenchTypes, BenchNext, ~calc.ready
  PROVE  /\ StreamTypes' /\ outputs' = outputs /\ accepted' = accepted
         /\ late = 0 => /\ late' = 0 /\ stream'.ss_tdata = stream.ss_tdata
                        /\ outputs < RunLength => stream'.ss_tvalid
         /\ late > 0 => /\ stream'.ss_tvalid = stream.ss_tvalid
                        /\ (late' = 0 /\ stream'.ss_tdata = outputs) \/ late' = late + 1
<1>0. /\ ss /\ ~ss_tready /\ outputs' = outputs
      /\ late > 0 \/ late = 0
      /\ late > 0 => late # 0
  <2>1. ss /\ sm
    BY Lab3Edge
  <2>2. ~ss_tready
    BY DEF ss_tready
  <2>3. QED
    BY <2>1, <2>2, Counted DEF sm, sm_tvalid
<1>1. outputs' = outputs /\ accepted' = accepted
  BY <1>0, Zenon DEF ss
<1>2. accepted = outputs /\ accepted' \in Nat
  BY <1>1, Counted
<1>3. CASE late > 0
  <2>1. Present \/ Leave
    BY <1>0, <1>3, Zenon DEF ss
  <2>2. /\ StreamTypes' /\ stream'.ss_tvalid = stream.ss_tvalid
        /\ (late' = 0 /\ stream'.ss_tdata = accepted') \/ late' = late + 1
    BY <1>2, <2>1, ShownOrLeft, Counted
  <2>3. late # 0
    BY <1>3
  <2>4. QED
    BY <1>1, <1>2, <2>2, <2>3
<1>4. CASE late = 0
  <2> DEFINE more == accepted < RunLength
  <2>1. stream' = [stream EXCEPT !.ss_tvalid = more] /\ late' = late
    BY <1>0, <1>4, Zenon DEF ss
  <2>2. more \in BOOLEAN
    OBVIOUS
  <2>3. outputs < RunLength => more
    BY <1>2
  <2>4. late' \in 0 .. MaxLate /\ ~(late > 0)
    BY <1>4, <2>1, Numbers
  <2> HIDE DEF more
  <2>5. stream' \in [ss_tvalid : BOOLEAN, ss_tdata : Nat, sm_tready : {TRUE}]
    BY <2>1, <2>2, Counted DEF StreamTypes
  <2>6. stream'.ss_tdata = stream.ss_tdata
    BY <2>1, Counted DEF StreamTypes
  <2>7. more => stream'.ss_tvalid
    <3>1. stream \in [ss_tvalid : BOOLEAN, ss_tdata : Nat, sm_tready : {TRUE}]
      BY Counted DEF StreamTypes
    <3>2. stream'.ss_tvalid = more
      BY <2>1, <2>2, <3>1
    <3>3. QED
      BY <3>2
  <2>8. StreamTypes'
    BY <2>4, <2>5 DEF StreamTypes
  <2>9. QED
    BY <1>1, <1>4, <2>1, <2>3, <2>4, <2>6, <2>7, <2>8
<1>5. QED
  <2>1. late > 0 \/ late = 0
    BY Counted
  <2>2. QED
    BY <2>1, <1>3, <1>4

-----------------------------------------------------------------------------
(* The coefficients and the status. *)

\* What the phases of the filter have in common.
LEMMA InPhase ==
  ASSUME FilterTypes, BenchTypes, Filtering
  PROVE  /\ step # Started => calc.state = "stop" /\ ~calc.ready
         /\ IndexInUse
         /\ step = Started => /\ ~ap.start
                              /\ ap.done \/ ap.idle => AllSeen
                              /\ AllSeen => ap.done /\ ap.idle
<1>1. Start # Started
  BY Numbers
<1>2. ~(Started <= Start)
  BY Numbers
<1>3. CASE Resting
  BY <1>2, <1>3 DEF Resting, Unstarted, Rests, IndexInUse
<1>4. CASE Starting
  BY <1>1, <1>4 DEF Starting, Unstarted, Rests, IndexInUse
<1>5. Working => step = Started /\ ~ap.start /\ ~ap.idle /\ ~ap.done /\ ~AllSeen
  BY Counted, Numbers DEF Working, AllSeen
<1>6. CASE Shifting
  BY <1>5, <1>6 DEF Shifting, IndexInUse
<1>7. CASE Summing
  BY <1>5, <1>7 DEF Summing, IndexInUse
<1>8. CASE Over
  BY <1>8 DEF Over, IndexInUse
<1>9. QED
  BY <1>3, <1>4, <1>6, <1>7, <1>8 DEF Filtering

\* While the coefficients are written or read the computation rests.
LEMMA TapPort ==
  ASSUME FilterTypes, BenchTypes, Access, Filtering, BenchNext, step # Started
  PROVE  /\ tap'.WE = IF axi.wvalid /\ ~lite.wready /\ tap.EN
                        THEN IF tap.WE = {} THEN {0} ELSE ShiftLeft(tap.WE) ELSE tap.WE
         /\ tap'.EN <=> \/ axi.awvalid /\ lite.awready /\ IsTap(axi.awaddr)
                        \/ axi.arvalid /\ ~lite.arready
                        \/ /\ tap.EN /\ ~(axi.wvalid /\ lite.wready)
                           /\ ~(axi.rready /\ lite.rvalid)
         /\ tap'.A = CASE axi.awvalid /\ ~lite.awready /\ IsTap(axi.awaddr) -> axi.awaddr.n
                       [] axi.arvalid /\ ~lite.arready /\ IsTap(axi.araddr) -> axi.araddr.n
                       [] OTHER -> tap.A
<1>1. calc.state # "read"
  BY InPhase
<1>2. QED
  BY <1>1, TapMoves

\* A coefficient is written lane by lane.
LEMMA LaneStep ==
  ASSUME FilterTypes, BenchTypes, Access, TapsWritten, Filtering, BenchNext,
         WritesTap, axi.wvalid, ~lite.wready
  PROVE  TapsWritten'
<1>1. /\ step \in 1 .. Tape_Num /\ step # Started /\ step - 1 \in Index /\ step - 1 \in Int
      /\ step \in 0 .. Started /\ step \in Int
  BY Numbers DEF WritesTap, Index
<1>2. tap.EN /\ tap.A = step - 1
  BY DEF TapsWritten
<1>3. LiteWaits
  <2>1. ~axi.awvalid /\ ~axi.arvalid /\ ~axi.rready
    BY DEF Access
  <2>2. QED
    BY <2>1, BenchMoves DEF OffersData, AwaitsData, Complete, ReadStatus, Free
<1>4. axi' = axi /\ step' = step
  BY <1>3 DEF LiteWaits
<1>5. axi.wdata = step - 1
  <2>1. axi.wdata = DataOf(step)
    BY DEF Access
  <2>2. QED
    BY <1>1, <2>1, Numbered
<1>6. tap'.RAM = BramWrite(tap.RAM, step - 1, tap.WE, tap.Di) /\ tap'.A = step - 1 /\ tap'.EN
  <2>1. ~axi.awvalid /\ ~axi.arvalid /\ ~axi.rready
    BY DEF Access
  <2>2. tap'.RAM = BramWrite(tap.RAM, step - 1, tap.WE, tap.Di)
    BY <1>2, TapMoves
  <2>3. tap'.A = step - 1
    BY <1>1, <1>2, <2>1, TapPort
  <2>4. tap'.EN
    BY <1>1, <1>2, <2>1, TapPort
  <2>5. QED
    BY <2>2, <2>3, <2>4
<1>7. /\ lite'.wready <=> LastLane(tap.WE)
      /\ ~lite'.arready
  <2>1. ~axi.arvalid
    BY DEF Access
  <2>2. QED
    BY <1>2, <2>1, LiteMoves
<1>8. tap.RAM \in [Index -> Words] /\ tap.Di \in Words
  BY DEF FilterTypes
<1>9. \A i \in 0 .. step - 2 : tap'.RAM[i] = WordOf(i)
  <2>1. \A i \in 0 .. step - 2 : i \in Index /\ i # step - 1
    BY <1>1, Numbers DEF Index
  <2>2. \A i \in 0 .. step - 2 : tap.RAM[i] = WordOf(i)
    <3>1. Coefficients(step - 1)
      BY <1>1, Numbers DEF TapsWritten
    <3>2. QED
      BY <1>1, <3>1 DEF Coefficients
  <2>3. QED
    BY <1>1, <1>6, <1>8, <2>1, <2>2, Written
<1>10. Coefficients(step - 1)'
  BY <1>1, <1>4, <1>9 DEF Coefficients
<1>11. Coefficients(IF step <= Tape_Num THEN step - 1 ELSE Tape_Num)'
  BY <1>1, <1>4, <1>10 DEF WritesTap
<1>12. CASE tap.WE = {}
  <2>1. tap'.WE = {0} /\ tap'.Di = WordOf(step - 1) /\ ~lite'.wready
    <3>1. ~LastLane(tap.WE)
      BY <1>12 DEF LastLane
    <3>2. tap'.Di = WordOf(step - 1)
      BY <1>2, <1>5, <1>12, TapMoves
    <3>3. tap'.WE = {0}
      BY <1>1, <1>2, <1>12, TapPort
    <3>4. QED
      BY <1>7, <3>1, <3>2, <3>3
  <2>2. 0 \in Lane /\ \A j \in Lane : ~(j < 0)
    BY DEF Lane
  <2>3. \E l \in Lane : TapLane(l)'
    BY <1>4, <2>1, <2>2 DEF TapLane
  <2>4. QED
    BY <1>4, <1>6, <1>11, <2>1, <2>3 DEF TapsWritten, WritesTap
<1>13. CASE tap.WE # {}
  <2>1. PICK l \in Lane : TapLane(l)
    BY <1>13 DEF TapsWritten
  <2>2. tap.WE = {l} /\ tap.Di = WordOf(step - 1) /\ (\A j \in Lane : j < l => tap.RAM[step - 1][j] = step - 1)
    BY <2>1 DEF TapLane
  <2>3. tap'.WE = ShiftLeft({l}) /\ tap'.Di = WordOf(step - 1)
    BY <1>1, <1>2, <1>13, <2>2, TapMoves, TapPort
  <2>4. /\ \A j \in Lane : j <= l => tap'.RAM[step - 1][j] = step - 1
        /\ l = 3 => tap'.RAM[step - 1] = WordOf(step - 1)
    BY <1>1, <1>6, <1>8, <2>2, LaneWritten
  <2>5. CASE l = 3
    <3>1. tap'.WE = {} /\ tap'.RAM[step - 1] = WordOf(step - 1)
      BY <2>3, <2>4, <2>5, NextLane
    <3>2. QED
      BY <1>4, <1>6, <1>11, <3>1 DEF TapsWritten, WritesTap
  <2>6. CASE l # 3
    <3>1. tap'.WE = {l + 1} /\ l + 1 \in Lane /\ ~lite'.wready
      BY <1>7, <2>2, <2>3, <2>6, NextLane
    <3>2. \A j \in Lane : j < l + 1 => tap'.RAM[step - 1][j] = step - 1
      BY <2>4 DEF Lane
    <3>3. \E m \in Lane : TapLane(m)'
      BY <1>4, <2>3, <3>1, <3>2 DEF TapLane
    <3>4. QED
      BY <1>4, <1>6, <1>11, <3>1, <3>3 DEF TapsWritten, WritesTap
  <2>7. QED
    BY <2>5, <2>6
<1>14. QED
  BY <1>12, <1>13

\* An edge of another phase, or of another access, leaves the coefficients.
LEMMA TapsWrittenStep ==
  ASSUME FilterTypes, BenchTypes, Access, TapsWritten, Filtering, BenchNext
  PROVE  TapsWritten'
<1>1. CASE WritesTap /\ axi.wvalid /\ ~lite.wready
  BY <1>1, LaneStep
<1>2. CASE ~(WritesTap /\ axi.wvalid /\ ~lite.wready)
  <2>1. tap.WE = {} /\ tap'.RAM = tap.RAM
    <3>1. tap.WE = {}
      BY <1>2 DEF TapsWritten
    <3>2. tap.RAM \in [Index -> Words] /\ tap.Di \in Words /\ tap.A \in Index
      BY DEF FilterTypes
    <3>3. QED
      BY <3>1, <3>2, TapMoves, Written
  <2>2. step \in 0 .. Started
    BY DEF BenchTypes
  <2>3. ~WritesTap /\ axi.wvalid /\ ~lite.wready => ~tap.EN
    <3>1. axi.wvalid => ~axi.arvalid /\ ~axi.rready /\ step # Started
      BY <2>2, Numbered DEF Access
    <3>2. axi.wvalid => ~lite.arready /\ step < Started
      BY <2>2, <3>1, Numbers DEF Access
    <3>3. QED
      BY <3>1, <3>2 DEF TapsWritten
  <2>4. tap'.WE = {}
    <3>1. CASE step = Started
      <4>1. ~axi.wvalid
        BY <2>2, <3>1, Numbered DEF Access
      <4>2. QED
        BY <2>1, <4>1, TapMoves
    <3>2. CASE step # Started
      BY <1>2, <2>1, <2>3, <3>2, TapPort
    <3>3. QED
      BY <3>1, <3>2
  <2>5. /\ step' \in 0 .. Started /\ (step' = step \/ (Complete /\ step < Started /\ step' = step + 1))
    <3>1. CASE Complete
      BY <2>2, <3>1, BeginMoves, Numbers
    <3>2. CASE ~Complete
      BY <2>2, <3>2, BenchMoves DEF LiteWaits, OffersData, AwaitsData, ReadStatus
    <3>3. QED
      BY <3>1, <3>2
  <2>6. WritesTap /\ Complete => tap.RAM[step - 1] = WordOf(step - 1)
    <3>1. WritesTap => WritesIn(step) /\ ~ReadsBack(step) /\ step # Started
      BY <2>2, Numbers DEF WritesTap, WritesIn, ReadsBack
    <3>2. WritesTap /\ Complete => lite.wready
      BY <3>1 DEF Complete, Access
    <3>3. QED
      BY <3>2 DEF TapsWritten
  <2>7. Coefficients(IF step <= Tape_Num THEN step - 1 ELSE Tape_Num)'
    <3>1. Coefficients(IF step <= Tape_Num THEN step - 1 ELSE Tape_Num)
      BY DEF TapsWritten
    <3>2. CASE step' = step
      BY <2>1, <3>1, <3>2 DEF Coefficients
    <3>3. CASE Complete /\ step < Started /\ step' = step + 1
      <4>1. \A i \in 0 .. (IF step <= Tape_Num THEN step - 1 ELSE Tape_Num) - 1 :
               tap.RAM[i] = WordOf(i)
        BY <3>1 DEF Coefficients
      <4>2. \A i \in 0 .. (IF step + 1 <= Tape_Num THEN step ELSE Tape_Num) - 1 :
               tap.RAM[i] = WordOf(i)
        <5>1. CASE WritesTap
          BY <2>6, <3>3, <4>1, <5>1, Numbers DEF WritesTap
        <5>2. CASE ~WritesTap
          BY <2>2, <4>1, <5>2, Numbers DEF WritesTap
        <5>3. QED
          BY <5>1, <5>2
      <4>3. \A i \in 0 .. (IF step' <= Tape_Num THEN step' - 1 ELSE Tape_Num) - 1 :
               tap'.RAM[i] = WordOf(i)
        BY <2>1, <2>2, <3>3, <4>2, Numbers
      <4>4. QED
        BY <4>3 DEF Coefficients
    <3>4. QED
      BY <2>5, <3>2, <3>3
  <2>8. CASE Complete
    <3>1. ~lite'.awready /\ ~lite'.wready /\ ~lite'.arready /\ ~axi'.wvalid /\ ~axi'.rready
      BY <2>8, BeginMoves
    <3>2. step' < Started => ~tap'.EN
      <4>1. ~axi.awvalid /\ ~axi.arvalid
        BY <2>8 DEF Complete, Access, Free
      <4>2. /\ axi.wvalid => lite.wready
            /\ axi.rready => lite.rvalid
            /\ axi.wvalid \/ axi.rready \/ Free
        BY <2>8 DEF Complete, Access, Free
      <4>3. step < Started /\ Free => ~tap.EN
        BY DEF TapsWritten, Access, Free
      <4>4. step' < Started => step # Started /\ step < Started
        BY <2>2, <2>5, Numbers
      <4>5. QED
        BY <4>1, <4>2, <4>3, <4>4, TapPort
    <3>3. QED
      BY <2>4, <2>7, <3>1, <3>2 DEF TapsWritten
  <2>9. CASE ~Complete
    <3>1. step' = step
      BY <2>5, <2>9
    <3>2. ~lite'.wready \/ ~WritesTap
      BY <1>2, LiteMoves
    <3>3. WritesTap => /\ step # Started /\ axi.awaddr.n = step - 1 /\ IsTap(axi.awaddr)
                       /\ ~axi.arvalid /\ ~axi.rready
      <4>1. WritesTap => step # Started /\ WritesIn(step) /\ ~ReadsBack(step)
        BY <2>2, Numbers DEF WritesTap, WritesIn, ReadsBack
      <4>2. WritesTap => AddressOf(step).n = step - 1 /\ IsTap(AddressOf(step))
        <5>1. WritesTap => step \in 1 .. Tape_Num /\ step \in 1 .. 2 * Tape_Num
          BY Numbers DEF WritesTap
        <5>2. QED
          BY <2>2, <5>1, Numbered
      <4>3. QED
        BY <4>1, <4>2 DEF Access
    <3>4. axi'.wvalid /\ WritesTap => (axi.awvalid /\ lite.awready) \/ axi.wvalid
      BY <2>9, BenchMoves DEF LiteWaits, OffersData, AwaitsData, ReadStatus, BenchTypes
    <3>5. ~(WritesTap /\ axi.wvalid)
      <4>1. WritesTap /\ axi.wvalid => lite.wready
        BY <1>2
      <4>2. WritesTap /\ axi.wvalid /\ lite.wready => Complete
        <5>1. axi.wvalid => ~axi.awvalid /\ ~axi.arvalid /\ ~axi.rready
          BY DEF Access
        <5>2. axi.wvalid => ~Free
          BY DEF Free
        <5>3. QED
          BY <5>1, <5>2, BenchMoves DEF LiteWaits, OffersData, AwaitsData, ReadStatus
      <4>3. QED
        BY <2>9, <4>1, <4>2
    <3>6. WritesTap /\ (lite'.awready \/ axi'.wvalid) => tap'.A = step - 1
      <4>1. lite'.awready => axi.awvalid /\ ~lite.awready
        BY LiteMoves
      <4>2. WritesTap /\ axi.awvalid /\ ~lite.awready => tap'.A = step - 1
        BY <3>3, TapPort
      <4>3. WritesTap /\ axi.awvalid /\ lite.awready => tap'.A = step - 1
        BY <3>3, TapPort DEF TapsWritten
      <4>4. QED
        BY <3>4, <3>5, <4>1, <4>2, <4>3
    <3>7. WritesTap /\ axi'.wvalid => tap'.EN
      BY <3>3, <3>4, <3>5, TapPort
    <3>8. tap'.EN /\ step < Started => (WritesTap /\ axi'.wvalid) \/ lite'.arready \/ axi'.rready
      <4>1. ASSUME tap'.EN, step < Started
            PROVE  (WritesTap /\ axi'.wvalid) \/ lite'.arready \/ axi'.rready
        <5>1. step # Started
          BY <2>2, <4>1, Numbers
        <5>2. \/ axi.awvalid /\ lite.awready /\ IsTap(axi.awaddr)
              \/ axi.arvalid /\ ~lite.arready
              \/ /\ tap.EN /\ ~(axi.wvalid /\ lite.wready)
                 /\ ~(axi.rready /\ lite.rvalid)
          BY <4>1, <5>1, TapPort
        <5>3. CASE axi.awvalid /\ lite.awready /\ IsTap(axi.awaddr)
          <6>1. WritesTap
            <7>1. WritesIn(step) /\ step \in 1 .. 2 * Tape_Num
              BY <2>2, <5>3, Numbered DEF Access
            <7>2. QED
              BY <2>2, <7>1, Numbers DEF WritesIn, WritesTap
          <6>2. axi'.wvalid
            <7>1. ~axi.wvalid /\ ~axi.arvalid /\ ~axi.rready
              BY <5>3 DEF Access
            <7>2. OffersData
              BY <2>9, <5>3, <7>1, BenchMoves DEF LiteWaits, AwaitsData, ReadStatus, Free
            <7>3. QED
              BY <7>2 DEF OffersData, BenchTypes
          <6>3. QED
            BY <6>1, <6>2
        <5>4. CASE axi.arvalid /\ ~lite.arready
          BY <5>4, LiteMoves
        <5>5. CASE tap.EN /\ ~(axi.rready /\ lite.rvalid)
          <6>1. lite.arready \/ axi.rready
            BY <3>5, <4>1, <5>5 DEF TapsWritten
          <6>2. CASE axi.rready
            <7>1. ~axi.awvalid /\ ~axi.wvalid /\ ~axi.arvalid
              BY <6>2 DEF Access
            <7>2. LiteWaits
              BY <2>9, <6>2, <7>1, BenchMoves DEF OffersData, AwaitsData, ReadStatus, Free
            <7>3. QED
              BY <6>2, <7>2 DEF LiteWaits
          <6>3. CASE lite.arready
            <7>1. ~axi.awvalid /\ ~axi.wvalid /\ axi.arvalid
              BY <6>3 DEF Access
            <7>2. AwaitsData
              BY <2>9, <6>3, <7>1, BenchMoves DEF OffersData, ReadStatus, Free
            <7>3. QED
              BY <7>2 DEF AwaitsData, BenchTypes
          <6>4. QED
            BY <6>1, <6>2, <6>3
        <5>6. QED
          BY <5>2, <5>3, <5>4, <5>5
      <4>2. QED
        BY <4>1
    <3>9. QED
      BY <2>4, <2>7, <3>1, <3>2, <3>6, <3>7, <3>8 DEF TapsWritten, WritesTap
  <2>10. QED
    BY <2>8, <2>9
<1>3. QED
  BY <1>1, <1>2

\* What is read at an edge.
LEMMA ReadMovesRdata ==
  ASSUME FilterTypes, BenchTypes, Access, BenchNext
  PROVE  /\ axi.rready /\ ~lite.rvalid /\ lite.isTap => lite'.rdata.tap = tap.Do
         /\ axi.rready /\ ~lite.rvalid /\ ~lite.isTap =>
              /\ lite'.rdata.start = ap.start /\ lite'.rdata.done = ap.done
              /\ lite'.rdata.idle = ap.idle
<1>1. ReadData(FALSE) <=> axi.rready /\ ~lite.rvalid
  <2>1. lite.rvalid \in BOOLEAN
    BY DEF FilterTypes
  <2>2. QED
    BY <2>1, Phases
<1> DEFINE rdata ==
        CASE ReadData(FALSE) /\ lite.isTap -> [lite.rdata EXCEPT !.tap = tap.Do]
          [] ReadData(FALSE) /\ ~lite.isTap ->
               [lite.rdata EXCEPT !.start = ap.start, !.done = ap.done, !.idle = ap.idle]
          [] OTHER -> lite.rdata
           aw == WriteAddress(FALSE) \/ (lite.awready /\ ~WriteAddress(TRUE))
           w == \/ WriteData(FALSE) /\ (IF tap.EN THEN LastLane(tap.WE) ELSE tap.WE = {})
                \/ lite.wready /\ ~WriteData(TRUE)
           ar == ReadAddress(FALSE) \/ (lite.arready /\ ~ReadAddress(TRUE))
           r == ReadData(FALSE) \/ (lite.rvalid /\ ~ReadData(TRUE))
           t == IF ReadAddress(FALSE) THEN IsTap(axi.araddr) ELSE lite.isTap /\ ~ReadData(FALSE)
<1>2. lite'.rdata = rdata
  <2>1. lite' = [awready |-> aw, wready |-> w, arready |-> ar, rvalid |-> r, rdata |-> rdata,
                 isTap |-> t]
    BY Lab3Edge DEF LiteClock
  <2> HIDE DEF rdata, aw, w, ar, r, t
  <2>2. QED
    BY <2>1
<1>3. lite.rdata \in [start : BOOLEAN, done : BOOLEAN, idle : BOOLEAN, tap : Words]
  BY DEF FilterTypes
<1>4. ReadData(FALSE) /\ lite.isTap => lite'.rdata = [lite.rdata EXCEPT !.tap = tap.Do]
  BY <1>2
<1>5. ReadData(FALSE) /\ ~lite.isTap =>
        lite'.rdata = [lite.rdata EXCEPT !.start = ap.start, !.done = ap.done, !.idle = ap.idle]
  BY <1>2
<1>6. QED
  BY <1>1, <1>3, <1>4, <1>5

\* A read ends its address phase, waits for the data or is answered; what it
\* is for does not change meanwhile.
LEMMA ReadsOn ==
  ASSUME FilterTypes, BenchTypes, Access, BenchNext
  PROVE  \/ ~lite'.arready /\ ~axi'.rready
         \/ /\ step' = step /\ final' = final /\ ~axi'.rready
            /\ axi.arvalid /\ ~lite.arready
         \/ /\ step' = step /\ final' = final /\ ~lite'.arready /\ ~lite'.rvalid
            /\ axi.arvalid /\ lite.arready
         \/ /\ step' = step /\ final' = final /\ ~lite'.arready /\ lite'.rvalid
            /\ axi.rready /\ ~lite.rvalid
<1>1. /\ lite'.arready <=> axi.arvalid /\ ~lite.arready
      /\ lite'.rvalid <=> axi.rready /\ ~lite.rvalid
      /\ axi.rready => ~axi.arvalid /\ ~axi.awvalid /\ ~axi.wvalid
      /\ axi.arvalid => ~axi.rready /\ ~axi.awvalid /\ ~axi.wvalid
  BY LiteMoves DEF Access
<1>2. CASE LiteWaits /\ ~(axi.awvalid /\ lite.awready) /\ ~(axi.wvalid /\ lite.wready)
                 /\ ~(axi.arvalid /\ lite.arready) /\ ~(axi.rready /\ lite.rvalid)
  BY <1>1, <1>2 DEF LiteWaits
<1>3. CASE OffersData
  <2>1. axi'.rready = axi.rready /\ axi.awvalid
    BY <1>3 DEF OffersData, BenchTypes
  <2>2. QED
    BY <1>1, <2>1
<1>4. CASE AwaitsData
  BY <1>1, <1>4 DEF AwaitsData
<1>5. CASE Complete
  BY <1>5, BeginMoves
<1>6. CASE ReadStatus
  <2>1. axi'.rready = axi.rready
    BY <1>6 DEF ReadStatus, BenchTypes
  <2>2. QED
    BY <1>1, <1>6, <2>1 DEF ReadStatus, Free
<1>7. QED
  BY <1>2, <1>3, <1>4, <1>5, <1>6, BenchMoves

\* A coefficient is read from its word.
LEMMA TapsReadStep ==
  ASSUME FilterTypes, BenchTypes, Access, TapsWritten, TapsRead, Filtering, BenchNext
  PROVE  TapsRead'
<1>1. CASE ~lite'.arready /\ ~axi'.rready
  BY <1>1 DEF TapsRead
<1>2. SUFFICES ASSUME ReadsBack(step), step' = step, ~(~lite'.arready /\ ~axi'.rready)
               PROVE  TapsRead'
  <2>1. CASE step' # step
    BY <1>1, <2>1, ReadsOn
  <2>2. CASE step' = step /\ ~ReadsBack(step)
    BY <2>2 DEF TapsRead, ReadsBack
  <2>3. QED
    BY <1>1, <1>2, <2>1, <2>2
<1> DEFINE k == step - 1 - Tape_Num
<1>3. step \in 0 .. Started /\ step # Started /\ k \in 0 .. Tape_Num - 1 /\ k \in Index
      /\ step \in Tape_Num + 1 .. 2 * Tape_Num /\ step \in 1 .. 2 * Tape_Num
  <2>1. step \in 0 .. Started
    BY DEF BenchTypes
  <2>2. QED
    BY <1>2, <2>1, Numbers DEF ReadsBack, Index
<1>4. IsTap(axi.araddr) /\ axi.araddr.n = k
  BY <1>2, <1>3, Numbered DEF Access
<1>5. ReadsBack(step)'
  BY <1>2 DEF ReadsBack
<1>6. k' = k
  BY <1>2
<1>7. /\ lite.arready => tap.EN /\ tap.A = k /\ lite.isTap
      /\ axi.rready /\ ~lite.rvalid => tap.Do = WordOf(k) /\ lite.isTap
  BY <1>2 DEF TapsRead
<1>8. tap.RAM[k] = WordOf(k)
  <2>1. Coefficients(Tape_Num)
    BY <1>3, Numbers DEF TapsWritten
  <2>2. QED
    BY <1>3, <2>1 DEF Coefficients
<1> HIDE DEF k
<1>9. CASE axi.arvalid /\ ~lite.arready /\ ~axi'.rready
  <2>1. ~axi.awvalid /\ ~axi.wvalid /\ ~axi.rready
    BY <1>9 DEF Access
  <2>2. tap'.EN /\ tap'.A = k
    BY <1>3, <1>4, <1>9, <2>1, TapPort
  <2>3. lite'.isTap
    BY <1>4, <1>9, LiteMoves
  <2>4. QED
    BY <1>2, <1>5, <1>6, <1>9, <2>2, <2>3 DEF TapsRead, k
<1>10. CASE axi.arvalid /\ lite.arready /\ ~lite'.arready /\ ~lite'.rvalid
  <2>1. tap'.Do = WordOf(k)
    BY <1>7, <1>8, <1>10, TapMoves
  <2>2. ~axi.rready
    BY <1>10 DEF Access
  <2>3. lite'.isTap
    BY <1>7, <1>10, <2>2, LiteMoves
  <2>4. QED
    BY <1>2, <1>5, <1>6, <1>10, <2>1, <2>3 DEF TapsRead, k
<1>11. CASE axi.rready /\ ~lite.rvalid /\ ~lite'.arready /\ lite'.rvalid
  <2>1. lite'.rdata.tap = WordOf(k)
    BY <1>7, <1>11, ReadMovesRdata
  <2>2. QED
    BY <1>2, <1>5, <1>6, <1>11, <2>1 DEF TapsRead, k
<1>12. QED
  BY <1>2, <1>9, <1>10, <1>11, ReadsOn

\* The status that is read is that of a cycle after its read has begun.
LEMMA StatusReadStep ==
  ASSUME FilterTypes, BenchTypes, Access, StatusRead, Filtering, BenchNext,
         AllSeen => AllSeen'
  PROVE  StatusRead'
<1>1. /\ step = Started => /\ ~ap.start
                           /\ ap.done \/ ap.idle => AllSeen
                           /\ AllSeen => ap.done /\ ap.idle
  BY InPhase
<1>2. step \in 0 .. Started
  BY DEF BenchTypes
<1>3. final'.begun => AllSeen'
  <2>1. final.begun => AllSeen
    BY DEF StatusRead
  <2>2. CASE final' = final
    BY <2>1, <2>2
  <2>3. CASE Complete
    BY <2>1, <2>3 DEF Complete
  <2>4. CASE ReadStatus
    <3>1. final'.begun => AllSeen
      BY <2>4 DEF ReadStatus, BenchTypes
    <3>2. QED
      BY <3>1
  <2>5. QED
    BY <2>2, <2>3, <2>4, BenchMoves DEF LiteWaits, OffersData, AwaitsData
<1>4. CASE ~lite'.arready /\ ~axi'.rready
  BY <1>3, <1>4 DEF StatusRead
<1>5. CASE step' = step /\ step # Started
  BY <1>3, <1>5 DEF StatusRead, Started, Start
<1>6. CASE step' = step /\ step = Started /\ ~(~lite'.arready /\ ~axi'.rready)
  <2>1. step' = Started'
    BY <1>6 DEF Started, Start
  <2>2. ~IsTap(axi.araddr)
    BY <1>2, <1>6, Numbered, Numbers DEF Access
  <2>3. /\ lite.arready \/ (axi.rready /\ ~lite.rvalid) => ~lite.isTap
        /\ final.begun => AllSeen
    BY <1>6 DEF StatusRead
  <2>4. CASE axi.arvalid /\ ~lite.arready /\ ~axi'.rready
    <3>1. ~lite'.isTap
      BY <2>2, <2>4, LiteMoves
    <3>2. QED
      BY <1>3, <2>4, <3>1 DEF StatusRead
  <2>5. CASE axi.arvalid /\ lite.arready /\ ~lite'.arready /\ ~lite'.rvalid
    <3>1. ~lite'.isTap
      BY <2>3, <2>5, LiteMoves
    <3>2. QED
      BY <1>3, <2>5, <3>1 DEF StatusRead
  <2>6. CASE axi.rready /\ ~lite.rvalid /\ ~lite'.arready /\ lite'.rvalid /\ final' = final
    <3>1. /\ lite'.rdata.start = ap.start /\ lite'.rdata.done = ap.done
          /\ lite'.rdata.idle = ap.idle
      BY <2>3, <2>6, ReadMovesRdata
    <3>2. /\ ~lite'.rdata.start
          /\ lite'.rdata.done \/ lite'.rdata.idle => AllSeen'
          /\ final'.begun => lite'.rdata.done /\ lite'.rdata.idle
      BY <1>1, <1>6, <2>3, <2>6, <3>1
    <3>3. QED
      BY <1>3, <2>6, <3>2 DEF StatusRead
  <2>7. QED
    BY <1>6, <2>4, <2>5, <2>6, ReadsOn
<1>7. QED
  BY <1>4, <1>5, <1>6, ReadsOn

\* No read is wrong, and no output.
LEMMA NothingWrong ==
  ASSUME FilterTypes, BenchTypes, Access, TapsRead, StatusRead, Filtering
  PROVE  ~ReadIsWrong /\ ~OutputIsWrong
<1>1. step \in 0 .. Started
  BY DEF BenchTypes
<1>2. ~ReadIsWrong
  <2>1. SUFFICES ASSUME axi.rready, lite.rvalid
                 PROVE  ~ReadIsWrong
    BY DEF ReadIsWrong
  <2>2. ReadsBack(step) \/ step = Started
    BY <2>1 DEF Access
  <2>3. CASE ReadsBack(step)
    <3>1. step < Started
      BY <2>3, <1>1, Numbers DEF ReadsBack
    <3>2. lite.rdata.tap = WordOf(CoefficientOf(step))
      BY <1>1, <2>1, <2>3, Numbered DEF TapsRead
    <3>3. QED
      BY <3>1, <3>2 DEF ReadIsWrong
  <2>4. CASE step = Started
    <3>1. ~(step < Started)
      BY <2>4, Numbers
    <3>2. /\ ~lite.rdata.start /\ (lite.rdata.done \/ lite.rdata.idle => AllSeen)
          /\ final.begun => lite.rdata.done /\ lite.rdata.idle
      BY <2>1, <2>4 DEF StatusRead
    <3>3. QED
      BY <3>1, <3>2 DEF ReadIsWrong
  <2>5. QED
    BY <2>2, <2>3, <2>4
<1>3. ~OutputIsWrong
  <2>1. SUFFICES ASSUME calc.ready
                 PROVE  calc.sum = Golden(outputs)
    BY DEF OutputIsWrong, sm_tvalid
  <2>2. Summing
    BY <2>1 DEF Filtering, Resting, Starting, Unstarted, Rests, Shifting, Over
  <2>3. QED
    BY <2>1, <2>2 DEF Summing
<1>4. QED
  BY <1>2, <1>3

-----------------------------------------------------------------------------
(* The phases of the filter. *)

\* Without an output the count stays as it is.
LEMMA SameCount ==
  ASSUME BenchTypes, BenchNext, ~calc.ready
  PROVE  /\ StreamTypes' /\ outputs' = outputs /\ accepted' = outputs'
         /\ outputs' \in 0 .. RunLength
<1>1. outputs \in 0 .. RunLength /\ accepted = outputs
  BY DEF BenchTypes
<1>2. QED
  BY <1>1, NoOutput

\* Once the filter is started nothing is written.
LEMMA NoMoreWrites ==
  ASSUME FilterTypes, BenchTypes, Access, BenchNext, step = Started
  PROVE  /\ step' = Started /\ ~axi.wvalid
         /\ ap'.start <=> ap.idle /\ ap.start
         /\ ap'.done <=> ap.done \/ (calc.ready /\ ap.length = 1)
         /\ ap'.idle <=> (calc.ready /\ ap.length = 1) \/ ap.idle
         /\ calc.ready => ap'.length = (ap.length - 1) % 1024
         /\ ~calc.ready => ap'.length = ap.length
<1>1. ~axi.wvalid
  <2>1. step \in 0 .. Started
    BY DEF BenchTypes
  <2>2. QED
    BY <2>1, Numbered DEF Access
<1>2. step' = Started
  <2>1. CASE Complete
    BY <2>1, BeginMoves
  <2>2. QED
    BY <2>1, BenchMoves DEF LiteWaits, OffersData, AwaitsData, ReadStatus
<1>3. ~Writes("ap_state") /\ ~Writes("data_length")
  BY <1>1, ApMoves
<1>4. QED
  BY <1>1, <1>2, <1>3, ApMoves

\* Before the start, nothing moves but the length that is written.
LEMMA RestingStep ==
  ASSUME FilterTypes, BenchTypes, Access, TapsWritten, Resting, BenchNext
  PROVE  Resting' \/ Starting'
<1>1. /\ data.state = "stop" /\ data.WE = {} /\ calc.state = "stop" /\ ~calc.ready
      /\ ~data.ready /\ data.n = Tape_Num /\ data.validNum = 0
      /\ outputs = 0 /\ late = 0 /\ stream.ss_tvalid /\ stream.ss_tdata = 0 /\ ~ap.done
      /\ step <= Start /\ (step = Start => ~lite.wready)
      /\ ap.idle /\ ~ap.start
      /\ step > 0 \/ lite.wready => ap.length = RunLength
  BY DEF Resting, Unstarted, Rests
<1>2. step \in 0 .. Started
  BY DEF BenchTypes
<1>3. ~Starts /\ ~ss_tready
  BY <1>1 DEF Starts, ss_tready
<1>4. /\ data'.state = "stop" /\ data'.n = Tape_Num /\ ~data'.ready /\ data'.validNum = 0
      /\ data'.WE = {}
  BY <1>1, <1>3, StopMoves
<1>5. calc'.state = "stop" /\ ~calc'.ready
  BY <1>1, CalcMoves
<1>6. outputs' = 0 /\ late' = 0 /\ stream'.ss_tvalid /\ stream'.ss_tdata = 0
  BY <1>1, NoOutput, Numbers
<1>7. ~ap'.done /\ ~(calc.ready /\ ap.length = 1)
  BY <1>1, ApMoves
<1>8. Unstarted'
  BY <1>4, <1>5, <1>6, <1>7 DEF Unstarted, Rests
<1>9. lite'.wready => axi.wvalid /\ ~lite.wready
  BY LiteMoves
<1>10. CASE Writes("ap_state")
  <2>1. axi.wvalid /\ ~lite.wready /\ step = Start
    BY <1>10, ApMoves
  <2>2. ~tap.EN /\ tap.WE = {}
    <3>1. ~axi.awvalid /\ ~axi.arvalid /\ ~axi.rready /\ ~lite.arready
      BY <2>1 DEF Access
    <3>2. ~WritesTap /\ step < Started
      BY <2>1, Numbers DEF WritesTap
    <3>3. QED
      BY <3>1, <3>2 DEF TapsWritten
  <2>3. lite'.wready
    BY <2>1, <2>2, LiteMoves
  <2>4. ap'.start /\ ~ap'.idle
    BY <1>1, <1>7, <1>10, ApMoves
  <2>5. ap'.length = RunLength
    <3>1. ~Writes("data_length") /\ step > 0
      BY <2>1, ApMoves, Numbers
    <3>2. QED
      BY <1>1, <3>1, ApMoves
  <2>6. step' = step
    <3>1. ~axi.awvalid /\ ~axi.arvalid /\ ~axi.rready /\ ~Free
      BY <2>1 DEF Access, Free
    <3>2. QED
      BY <2>1, <3>1, BenchMoves DEF LiteWaits, OffersData, AwaitsData, Complete, ReadStatus
  <2>7. QED
    BY <1>8, <2>1, <2>3, <2>4, <2>5, <2>6 DEF Starting, Start
<1>11. CASE ~Writes("ap_state")
  <2>1. ap'.idle /\ ~ap'.start
    BY <1>1, <1>11, ApMoves
  <2>2. step = Start => ~lite'.wready
    BY <1>9, <1>11, ApMoves
  <2>3. Complete => step < Start
    <3>1. CASE axi.wvalid /\ lite.wready
      BY <1>1, <1>2, <3>1, Numbers
    <3>2. CASE axi.rready
      <4>1. ReadsBack(step) \/ step = Started
        BY <3>2 DEF Access
      <4>2. step # Started
        BY <1>1, <1>2, Numbers
      <4>3. QED
        BY <4>1, <4>2, <1>2, Numbers DEF ReadsBack
    <3>3. CASE Free
      <4>1. ~WritesIn(step)
        BY <3>3 DEF Access
      <4>2. QED
        BY <1>1, <1>2, <4>1, Numbers DEF WritesIn
    <3>4. QED
      BY <3>1, <3>2, <3>3 DEF Complete
  <2>4. step' = step \/ (Complete /\ step' = step + 1 /\ ~lite'.wready)
    <3>1. CASE Complete
      <4>1. step < Started
        BY <1>2, <2>3, <3>1, Numbers
      <4>2. QED
        BY <3>1, <4>1, BeginMoves
    <3>2. QED
      BY <3>1, BenchMoves DEF LiteWaits, OffersData, AwaitsData, ReadStatus
  <2>5. step' <= Start /\ (step' = Start => ~lite'.wready)
    BY <1>1, <1>2, <2>2, <2>3, <2>4, Numbers
  <2>6. step > 0 => ap'.length = RunLength
    <3>1. step > 0 => ~Writes("data_length")
      BY ApMoves
    <3>2. QED
      BY <1>1, <3>1, ApMoves
  <2>7. step = 0 /\ Complete => lite.wready
    <3>1. step = 0 => WritesIn(step) /\ ~ReadsBack(step) /\ step # Started
      BY Numbers DEF WritesIn, ReadsBack
    <3>2. QED
      BY <3>1 DEF Complete, Access
  <2>8. step' > 0 \/ lite'.wready => ap'.length = RunLength
    <3>1. CASE step > 0
      BY <2>6, <3>1
    <3>2. CASE step = 0 /\ Complete
      <4>1. ap.length = RunLength /\ ~Writes("data_length")
        BY <1>1, <2>7, <3>2, ApMoves
      <4>2. QED
        BY <1>1, <4>1, ApMoves
    <3>3. CASE step = 0 /\ ~Complete
      <4>1. step' = 0
        BY <2>4, <3>3
      <4>2. lite'.wready => Writes("data_length")
        BY <1>9, <3>3, ApMoves
      <4>3. QED
        BY <1>1, <4>1, <4>2, ApMoves
    <3>4. QED
      BY <1>2, <3>1, <3>2, <3>3
  <2>9. QED
    BY <1>8, <2>1, <2>5, <2>8 DEF Resting, Start
<1>12. QED
  BY <1>10, <1>11

\* The first sample is taken.
LEMMA StartingStep ==
  ASSUME FilterTypes, BenchTypes, Access, Starting, BenchNext
  PROVE  Shifting'
<1>1. /\ data.state = "stop" /\ data.WE = {} /\ calc.state = "stop" /\ ~calc.ready
      /\ ~data.ready /\ data.n = Tape_Num /\ data.validNum = 0
      /\ outputs = 0 /\ late = 0 /\ stream.ss_tvalid /\ stream.ss_tdata = 0 /\ ~ap.done
      /\ step = Start /\ lite.wready /\ ap.start /\ ~ap.idle /\ ap.length = RunLength
  BY DEF Starting, Unstarted, Rests
<1>2. Starts /\ ~ss_tready
  BY <1>1 DEF Starts, ss_tready
<1>3. axi.wvalid /\ ~axi.awvalid /\ ~axi.arvalid /\ ~axi.rready
  BY <1>1 DEF Access
<1>4. step' = Started
  <2>1. Complete
    BY <1>1, <1>3, BenchMoves DEF OffersData, AwaitsData, Complete, ReadStatus, Free
  <2>2. step < Started /\ step + 1 = Started
    BY <1>1, Numbers
  <2>3. QED
    BY <2>1, <2>2, BeginMoves
<1>5. /\ data'.state = "read" /\ data'.n = Tape_Num /\ ~data'.ready /\ data'.validNum = 0
      /\ data'.WE = {}
  BY <1>1, <1>2, StopMoves
<1>6. calc'.state = "stop" /\ ~calc'.ready
  BY <1>1, CalcMoves
<1>7. outputs' = 0 /\ late' = 0 /\ stream'.ss_tvalid /\ stream'.ss_tdata = 0
  BY <1>1, NoOutput, Numbers
<1>8. ~ap'.start /\ ~ap'.idle /\ ~ap'.done /\ ap'.length = RunLength
  <2>1. ~Writes("ap_state") /\ ~Writes("data_length")
    BY <1>1, ApMoves
  <2>2. QED
    BY <1>1, <2>1, ApMoves
<1>9. Working'
  BY <1>4, <1>7, <1>8, Numbers DEF Working, Started, Start
<1>10. data'.validNum = IF outputs' < Tape_Num THEN outputs' ELSE Tape_Num
  BY <1>5, <1>7, Numbers
<1>11. /\ \A i \in data'.n + 1 .. Tape_Num - 1 : Holds(i)'
       /\ \A i \in 0 .. data'.n - 1 : i < Tape_Num => Held(i)'
  <2>1. \A i \in data'.n + 1 .. Tape_Num - 1 : FALSE
    BY <1>5, Numbers
  <2>2. \A i \in 0 .. data'.n - 1 : Held(i)'
    BY <1>5, <1>7, Numbers DEF Held
  <2>3. QED
    BY <2>1, <2>2
<1>12. InTime(1)'
  BY <1>7 DEF InTime
<1>13. ~(data'.n \in 1 .. Tape_Num - 1)
  BY <1>5, Numbers
<1>14. QED
  BY <1>5, <1>6, <1>9, <1>10, <1>11, <1>12, <1>13 DEF Shifting

\* What every edge of a shift keeps, and how late the sample is after it.
LEMMA ShiftEdge ==
  ASSUME FilterTypes, BenchTypes, Access, Shifting, BenchNext
  PROVE  /\ Working' /\ outputs' = outputs
         /\ calc'.state = "stop" /\ ~calc'.ready /\ calc.state # "read" /\ ~calc.ready
         /\ data.n \in Nat /\ data.n <= Tape_Num /\ outputs \in Nat /\ outputs < RunLength
         /\ data.validNum = IF outputs < Tape_Num THEN outputs ELSE Tape_Num
         /\ \A offset \in 1 .. 6 : InTime(offset) =>
              \/ late' = 0 /\ stream'.ss_tdata = outputs
              \/ late' > 0 /\ late' = 6 * (Tape_Num - data.n) + offset + 1
<1>1. /\ step = Started /\ ~ap.start /\ ~ap.idle /\ ~ap.done /\ ap.length = RunLength - outputs
      /\ outputs < RunLength /\ stream.ss_tvalid
      /\ calc.state = "stop" /\ ~calc.ready /\ ~data.ready
      /\ data.validNum = IF outputs < Tape_Num THEN outputs ELSE Tape_Num
  BY DEF Shifting, Working
<1>2. calc'.state = "stop" /\ ~calc'.ready
  BY <1>1, CalcMoves
<1>3. /\ step' = Started /\ ~ap'.start /\ ~ap'.idle /\ ~ap'.done
      /\ ap'.length = RunLength - outputs
  BY <1>1, NoMoreWrites
<1>4. outputs \in Nat /\ late \in Nat
  BY Counted
<1>5. outputs' = outputs
  BY <1>1, NoOutput
<1>6. /\ late = 0 => late' = 0 /\ stream'.ss_tdata = stream.ss_tdata /\ stream'.ss_tvalid
      /\ late > 0 => stream'.ss_tvalid = stream.ss_tvalid
      /\ late > 0 => (late' = 0 /\ stream'.ss_tdata = outputs) \/ late' = late + 1
  BY <1>1, NoOutput
<1>7. stream'.ss_tvalid
  <2>1. late = 0 \/ late > 0
    BY <1>4
  <2>2. QED
    BY <1>1, <1>6, <2>1
<1>8. Working'
  BY <1>1, <1>3, <1>5, <1>7 DEF Working, Started, Start
<1>9. data.n \in Nat /\ data.n <= Tape_Num
  BY Ranges
<1>10. ASSUME NEW offset \in 1 .. 6, InTime(offset)
       PROVE  \/ late' = 0 /\ stream'.ss_tdata = outputs
              \/ late' > 0 /\ late' = 6 * (Tape_Num - data.n) + offset + 1
  <2>1. CASE late = 0 /\ stream.ss_tdata = outputs
    BY <1>6, <2>1
  <2>2. CASE late > 0 /\ late = 6 * (Tape_Num - data.n) + offset
    <3>1. CASE late' = 0
      BY <1>6, <2>2, <3>1
    <3>2. CASE late' = late + 1
      BY <1>4, <1>9, <2>2, <3>2, Numbers
    <3>3. QED
      BY <1>6, <2>2, <3>1, <3>2
  <2>3. QED
    BY <1>10, <2>1, <2>2 DEF InTime
<1>11. QED
  BY <1>1, <1>2, <1>4, <1>5, <1>8, <1>9, <1>10

\* A word is read, waits, and is written a lane at a time.
ShiftReads == data.state = "read" /\ data.WE = {} /\ InTime(1)
              /\ (data.n \in 1 .. Tape_Num - 1 => data.A = data.n - 1)
ShiftWaits == /\ data.state = "read_wait" /\ data.WE = {} /\ InTime(2)
              /\ data.n \in 1 .. Tape_Num - 1 /\ data.n <= outputs =>
                   data.Do = WordOf(outputs - data.n)
ShiftWrites(l) ==
  /\ data.state = "write" /\ data.A = data.n
  /\ data.WE = {l} /\ InTime(3 + l)
  /\ data.n < Tape_Num /\ data.n <= outputs =>
       /\ data.Di = WordOf(outputs - data.n)
       /\ \A j \in Lane : j < l => data.RAM[data.n][j] = outputs - data.n

\* The shift, by its state.
LEMMA ShiftingIs ==
  ASSUME Shifting
  PROVE  ShiftReads \/ ShiftWaits \/ \E l \in Lane : ShiftWrites(l)
  BY DEF Shifting, ShiftReads, ShiftWaits, ShiftWrites

\* The words above the one that is moved hold the new samples, those below the
\* old ones.
Moved(k) == /\ \A i \in k + 1 .. Tape_Num - 1 : Holds(i)
            /\ \A i \in 0 .. k - 1 : i < Tape_Num => Held(i)

\* And back: each state with what has moved is a shift.
LEMMA ShiftingIf ==
  ASSUME /\ Working' /\ outputs' = outputs /\ calc'.state = "stop" /\ ~calc'.ready
         /\ ~data'.ready
         /\ data'.validNum = IF outputs < Tape_Num THEN outputs ELSE Tape_Num,
         Moved(data.n)',
         ShiftReads' \/ ShiftWaits' \/ \E l \in Lane : ShiftWrites(l)'
  PROVE  Shifting'
<1>1. data'.validNum = IF outputs' < Tape_Num THEN outputs' ELSE Tape_Num
  OBVIOUS
<1>2. CASE ShiftReads'
  BY <1>1, <1>2 DEF Shifting, Moved, ShiftReads
<1>3. CASE ShiftWaits'
  BY <1>1, <1>3 DEF Shifting, Moved, ShiftWaits
<1>4. CASE \E l \in Lane : ShiftWrites(l)'
  BY <1>1, <1>4 DEF Shifting, Moved, ShiftWrites
<1>5. QED
  BY <1>2, <1>3, <1>4

\* An edge that writes no sample.
LEMMA ShiftReadStep ==
  ASSUME FilterTypes, BenchTypes, Access, Shifting, BenchNext,
         ShiftReads \/ ShiftWaits
  PROVE  Shifting'
<1>1. data.WE = {} /\ Moved(data.n) /\ ~data.ready
  BY DEF ShiftReads, ShiftWaits, Shifting, Moved
<1>2. data'.RAM = data.RAM /\ data'.Do = data.RAM[data.A]
  <2>1. data.RAM \in [Index -> Words] /\ data.Di \in Words /\ data.A \in Index
    BY DEF FilterTypes
  <2>2. QED
    BY <1>1, <2>1, DataPort, Written
<1>3. /\ Working' /\ outputs' = outputs
      /\ calc'.state = "stop" /\ ~calc'.ready /\ calc.state # "read"
      /\ data.n \in Nat /\ data.n <= Tape_Num /\ outputs \in Nat
      /\ data.validNum = IF outputs < Tape_Num THEN outputs ELSE Tape_Num
  BY ShiftEdge
<1>4. data'.n = data.n /\ ~data'.ready /\ data'.validNum = data.validNum
  BY <1>1, ReadMoves, ReadWaitMoves DEF ShiftReads, ShiftWaits
<1>5. Moved(data.n)'
  BY <1>1, <1>2, <1>3, <1>4 DEF Moved, Holds, Held
<1>6. CASE ShiftReads
  <2>1. data'.state = "read_wait" /\ data'.WE = {}
    BY <1>1, <1>3, <1>6, ReadMoves DEF ShiftReads
  <2>2. InTime(2)'
    <3>1. \/ late' = 0 /\ stream'.ss_tdata = outputs
          \/ late' > 0 /\ late' = 6 * (Tape_Num - data.n) + 1 + 1
      BY <1>6, ShiftEdge DEF ShiftReads
    <3>2. 6 * (Tape_Num - data.n) + 1 + 1 = 6 * (Tape_Num - data.n) + 2
      BY <1>3, Numbers
    <3>3. QED
      BY <1>3, <1>4, <3>1, <3>2 DEF InTime
  <2>3. data.n \in 1 .. Tape_Num - 1 /\ data.n <= outputs => data'.Do = WordOf(outputs - data.n)
    <3>1. SUFFICES ASSUME data.n \in 1 .. Tape_Num - 1, data.n <= outputs
                   PROVE  data'.Do = WordOf(outputs - data.n)
      OBVIOUS
    <3>2. data.A = data.n - 1 /\ data.n - 1 \in 0 .. data.n - 1 /\ data.n - 1 < Tape_Num
      BY <1>3, <1>6, <3>1, Numbers DEF ShiftReads
    <3>3. Held(data.n - 1)
      BY <1>1, <3>2 DEF Moved
    <3>4. data.n - 1 < outputs /\ outputs - 1 - (data.n - 1) = outputs - data.n
      BY <1>3, <3>1
    <3>5. QED
      BY <1>2, <3>2, <3>3, <3>4 DEF Held
  <2>4. ShiftWaits'
    BY <1>3, <1>4, <2>1, <2>2, <2>3 DEF ShiftWaits
  <2>5. QED
    BY <1>3, <1>4, <1>5, <2>4, ShiftingIf
<1>7. CASE ShiftWaits
  <2>1. /\ data'.state = "write" /\ data'.WE = {0} /\ data'.A = data.n
        /\ data'.Di = IF data.n = 0 THEN WordOf(stream.ss_tdata) ELSE data.Do
    BY <1>3, <1>7, ReadWaitMoves DEF ShiftWaits
  <2>2. InTime(3)'
    <3>1. \/ late' = 0 /\ stream'.ss_tdata = outputs
          \/ late' > 0 /\ late' = 6 * (Tape_Num - data.n) + 2 + 1
      BY <1>7, ShiftEdge DEF ShiftWaits
    <3>2. 6 * (Tape_Num - data.n) + 2 + 1 = 6 * (Tape_Num - data.n) + 3
      BY <1>3, Numbers
    <3>3. QED
      BY <1>3, <1>4, <3>1, <3>2 DEF InTime
  <2>3. data.n < Tape_Num /\ data.n <= outputs => data'.Di = WordOf(outputs - data.n)
    <3>1. CASE data.n = 0
      \* The sample is there by now.
      <4>1. InTime(2)
        BY <1>7 DEF ShiftWaits
      <4>2. ~(late > 0 /\ late = 6 * (Tape_Num - data.n) + 2)
        BY <3>1, Numbers, Counted
      <4>3. stream.ss_tdata = outputs
        BY <4>1, <4>2 DEF InTime
      <4>4. outputs - data.n = outputs
        BY <1>3, <3>1
      <4>5. QED
        BY <2>1, <3>1, <4>3, <4>4
    <3>2. CASE data.n # 0
      <4>1. data.n < Tape_Num => data.n \in 1 .. Tape_Num - 1
        BY <1>3, <3>2, Numbers
      <4>2. QED
        BY <1>7, <2>1, <3>2, <4>1 DEF ShiftWaits
    <3>3. QED
      BY <3>1, <3>2
  <2>4. 0 \in Lane /\ 3 + 0 = 3 /\ \A j \in Lane : ~(j < 0)
    BY DEF Lane
  <2>5. ShiftWrites(0)'
    BY <1>3, <1>4, <2>1, <2>2, <2>3, <2>4 DEF ShiftWrites
  <2>6. QED
    BY <1>3, <1>4, <1>5, <2>4, <2>5, ShiftingIf
<1>8. QED
  BY <1>6, <1>7

\* A lane of a word is written; with the last one the next word is read, or the
\* samples are complete.
LEMMA ShiftWriteStep ==
  ASSUME FilterTypes, BenchTypes, Access, Shifting, BenchNext,
         NEW l \in Lane, ShiftWrites(l)
  PROVE  Shifting' \/ Summing'
<1>1. /\ data.state = "write" /\ data.A = data.n /\ data.WE = {l} /\ InTime(3 + l)
      /\ data.n < Tape_Num /\ data.n <= outputs =>
           /\ data.Di = WordOf(outputs - data.n)
           /\ \A j \in Lane : j < l => data.RAM[data.n][j] = outputs - data.n
  BY DEF ShiftWrites
<1>2. Moved(data.n) /\ ~data.ready
  BY DEF Shifting, Moved
<1>3. /\ Working' /\ outputs' = outputs
      /\ calc'.state = "stop" /\ ~calc'.ready /\ calc.state # "read"
      /\ data.n \in Nat /\ data.n <= Tape_Num /\ outputs \in Nat
      /\ data.validNum = IF outputs < Tape_Num THEN outputs ELSE Tape_Num
  BY ShiftEdge
<1>4. data.n \in Index /\ data.RAM \in [Index -> Words] /\ data.Di \in Words
  BY DEF FilterTypes
<1>5. data'.RAM = BramWrite(data.RAM, data.n, {l}, data.Di)
  BY <1>1, DataPort
<1>6. \A i \in Index : i # data.n => data'.RAM[i] = data.RAM[i]
  BY <1>4, <1>5, Written
<1>7. data.n < Tape_Num /\ data.n <= outputs =>
        /\ \A j \in Lane : j <= l => data'.RAM[data.n][j] = outputs - data.n
        /\ l = 3 => data'.RAM[data.n] = WordOf(outputs - data.n)
  <2>1. outputs - data.n \in Int
    BY <1>3
  <2>2. QED
    BY <1>1, <1>4, <1>5, <2>1, LaneWritten
<1>8. /\ \A i \in data.n + 1 .. Tape_Num - 1 : Holds(i)'
      /\ \A i \in 0 .. data.n - 1 : i < Tape_Num => Held(i)'
  <2>1. \A i \in data.n + 1 .. Tape_Num - 1 : i \in Index /\ i # data.n
    BY <1>3, Numbers DEF Index
  <2>2. \A i \in 0 .. data.n - 1 : i \in Index /\ i # data.n
    BY <1>3, Numbers DEF Index
  <2>3. QED
    BY <1>2, <1>3, <1>6, <2>1, <2>2 DEF Moved, Holds, Held
<1>9. /\ \/ late' = 0 /\ stream'.ss_tdata = outputs
         \/ late' > 0 /\ late' = 6 * (Tape_Num - data.n) + (3 + l) + 1
  <2>1. 3 + l \in 1 .. 6
    BY DEF Lane
  <2>2. QED
    BY <1>1, <2>1, ShiftEdge
<1>10. CASE l # 3
  <2>1. ~LastLane(data.WE) /\ ShiftLeft(data.WE) = {l + 1} /\ l + 1 \in Lane
    BY <1>1, <1>10, NextLane
  <2>2. /\ data'.state = "write" /\ data'.n = data.n /\ ~data'.ready /\ data'.Di = data.Di
        /\ data'.validNum = data.validNum /\ data'.WE = {l + 1} /\ data'.A = data.n
    BY <1>1, <1>2, <1>3, <2>1, WriteMoves
  <2>3. Moved(data.n)'
    BY <1>8, <2>2 DEF Moved
  <2>4. InTime(3 + (l + 1))'
    <3>1. 6 * (Tape_Num - data.n) + (3 + l) + 1 = 6 * (Tape_Num - data.n) + (3 + (l + 1))
      BY <1>3, Numbers DEF Lane
    <3>2. QED
      BY <1>3, <1>9, <2>2, <3>1 DEF InTime
  <2>5. data.n < Tape_Num /\ data.n <= outputs =>
          \A j \in Lane : j < l + 1 => data'.RAM[data.n][j] = outputs - data.n
    BY <1>7 DEF Lane
  <2>6. ShiftWrites(l + 1)'
    BY <1>1, <1>3, <2>2, <2>4, <2>5 DEF ShiftWrites
  <2>7. QED
    BY <1>3, <2>1, <2>2, <2>3, <2>6, ShiftingIf
<1>11. CASE l = 3 /\ data.n > 0
  <2>1. LastLane(data.WE)
    BY <1>1, <1>11, NextLane
  <2>2. /\ data'.state = "read" /\ data'.n = data.n - 1 /\ ~data'.ready
        /\ data'.validNum = data.validNum /\ data'.WE = {}
        /\ data'.A = IF data.n > 1 THEN data.n - 2 ELSE 0
    BY <1>1, <1>2, <1>3, <1>11, <2>1, WriteMoves
  <2>3. Moved(data.n)'
    <3>1. \A i \in data'.n + 1 .. Tape_Num - 1 :
             (i = data.n /\ data.n < Tape_Num) \/ i \in data.n + 1 .. Tape_Num - 1
      BY <1>3, <2>2, Numbers
    <3>2. \A i : i = data.n /\ data.n < Tape_Num => Holds(i)'
      BY <1>3, <1>7, <1>11 DEF Holds
    <3>3. \A i \in data'.n + 1 .. Tape_Num - 1 : Holds(i)'
      BY <1>8, <3>1, <3>2
    <3>4. \A i \in 0 .. data'.n - 1 : i \in 0 .. data.n - 1
      BY <1>3, <2>2
    <3>5. QED
      BY <1>8, <3>3, <3>4 DEF Moved
  <2>4. InTime(1)'
    <3>1. 6 * (Tape_Num - data.n) + (3 + l) + 1 = 6 * (Tape_Num - (data.n - 1)) + 1
      BY <1>3, <1>11, Numbers
    <3>2. QED
      BY <1>3, <1>9, <2>2, <3>1 DEF InTime
  <2>5. data'.n \in 1 .. Tape_Num - 1 => data'.A = data'.n - 1
    BY <1>3, <2>2
  <2>6. ShiftReads'
    BY <2>2, <2>4, <2>5 DEF ShiftReads
  <2>7. QED
    BY <1>3, <2>2, <2>3, <2>6, ShiftingIf
<1>12. CASE l = 3 /\ data.n = 0
  <2>1. LastLane(data.WE)
    BY <1>1, <1>12, NextLane
  <2>2. /\ data'.state = "stop" /\ data'.ready /\ data'.WE = {}
        /\ data'.validNum = IF data.validNum < Tape_Num THEN data.validNum + 1 ELSE data.validNum
    BY <1>1, <1>12, <2>1, WriteMoves
  <2>3. data'.validNum = IF outputs' < Tape_Num THEN outputs' + 1 ELSE Tape_Num
    BY <1>3, <2>2, Numbers
  <2>4. late' = 0
    <3>1. InTime(6)
      BY <1>1, <1>12
    <3>2. ~(late > 0 /\ late = 6 * (Tape_Num - data.n) + 6)
      BY <1>12, Numbers, Counted
    <3>3. late = 0 /\ ~calc.ready
      BY <3>1, <3>2, ShiftEdge DEF InTime
    <3>4. QED
      BY <3>3, NoOutput
  <2>5. \A i \in 0 .. Tape_Num - 1 : Holds(i)'
    <3>1. Holds(0)'
      BY <1>3, <1>7, <1>12, Numbers DEF Holds
    <3>2. \A i \in 0 .. Tape_Num - 1 : i = 0 \/ i \in data.n + 1 .. Tape_Num - 1
      BY <1>12, Numbers
    <3>3. QED
      BY <1>8, <3>1, <3>2
  <2>6. QED
    BY <1>3, <2>2, <2>3, <2>4, <2>5 DEF Summing
<1>13. QED
  BY <1>3, <1>10, <1>11, <1>12

\* The next product is that of the next coefficient and the next older sample.
LEMMA NextProduct ==
  ASSUME NEW m \in Nat, outputs \in Int
  PROVE  /\ FirstProducts(0) = <<>>
         /\ Append(FirstProducts(m), <<WordOf(m), WordOf(outputs - m)>>) = FirstProducts(m + 1)
<1>1. FirstProducts(0) = <<>>
  BY DEF FirstProducts
<1> DEFINE S == [k \in 1 .. m |-> <<WordOf(k - 1), WordOf(outputs - k + 1)>>]
           T == [k \in 1 .. m + 1 |-> <<WordOf(k - 1), WordOf(outputs - k + 1)>>]
           e == <<WordOf(m), WordOf(outputs - m)>>
<1>2. Append(S, e) = T
  <2>1. Len(S) = m /\ DOMAIN S = 1 .. m
    OBVIOUS
  <2>2. Append(S, e) = [k \in 1 .. m + 1 |-> IF k \in 1 .. m THEN S[k] ELSE e]
    BY <2>1
  <2>3. \A k \in 1 .. m + 1 : (IF k \in 1 .. m THEN S[k] ELSE e) = T[k]
    <3>1. (m + 1) - 1 = m /\ outputs - (m + 1) + 1 = outputs - m
      OBVIOUS
    <3>2. T[m + 1] = e
      BY <3>1
    <3>3. \A k \in 1 .. m + 1 : k \in 1 .. m \/ k = m + 1
      OBVIOUS
    <3>4. \A k \in 1 .. m : S[k] = T[k]
      OBVIOUS
    <3>5. QED
      BY <3>2, <3>3, <3>4
  <2> HIDE DEF S, e
  <2>4. QED
    BY <2>2, <2>3
<1>3. QED
  BY <1>1, <1>2 DEF FirstProducts

\* What every edge before the output keeps.
LEMMA SumEdge ==
  ASSUME FilterTypes, BenchTypes, Access, Summing, BenchNext, ~calc.ready
  PROVE  /\ Working' /\ outputs' = outputs /\ outputs \in Nat
         /\ data'.ready /\ data'.state = "stop" /\ data'.WE = {} /\ late' = 0
         /\ data'.validNum = data.validNum
         /\ data.validNum = IF outputs < Tape_Num THEN outputs + 1 ELSE Tape_Num
         /\ data'.RAM = data.RAM
         /\ \A i \in 0 .. Tape_Num - 1 : Holds(i) /\ Holds(i)'
<1>1. /\ step = Started /\ ~ap.start /\ ~ap.idle /\ ~ap.done /\ ap.length = RunLength - outputs
      /\ outputs < RunLength /\ stream.ss_tvalid
      /\ data.ready /\ data.state = "stop" /\ data.WE = {} /\ late = 0
      /\ data.validNum = IF outputs < Tape_Num THEN outputs + 1 ELSE Tape_Num
      /\ \A i \in 0 .. Tape_Num - 1 : Holds(i)
  BY DEF Summing, Working
<1>2. /\ step' = Started /\ ~ap'.start /\ ~ap'.idle /\ ~ap'.done
      /\ ap'.length = RunLength - outputs
  BY <1>1, NoMoreWrites
<1>3. outputs' = outputs /\ late' = 0 /\ stream'.ss_tvalid /\ outputs \in Nat
  BY <1>1, NoOutput, Counted
<1>4. Working'
  BY <1>1, <1>2, <1>3 DEF Working, Started, Start
<1>5. ~Starts /\ ~ss_tready
  BY <1>1 DEF Starts, ss_tready
<1>6. /\ data'.state = "stop" /\ data'.ready /\ data'.validNum = data.validNum /\ data'.WE = {}
  BY <1>1, <1>5, StopMoves
<1>7. data'.RAM = data.RAM
  <2>1. data.RAM \in [Index -> Words] /\ data.Di \in Words /\ data.A \in Index
    BY DEF FilterTypes
  <2>2. QED
    BY <1>1, <2>1, DataPort, Written
<1>8. \A i \in 0 .. Tape_Num - 1 : Holds(i)'
  BY <1>1, <1>3, <1>7 DEF Holds
<1>9. QED
  BY <1>1, <1>3, <1>4, <1>6, <1>7, <1>8

\* A product of the sum is read and added.
LEMMA SumStep ==
  ASSUME FilterTypes, BenchTypes, Access, TapsWritten, Summing, BenchNext,
         ~calc.ready
  PROVE  Summing'
<1>1. /\ Working' /\ outputs' = outputs /\ outputs \in Nat
      /\ data'.ready /\ data'.state = "stop" /\ data'.WE = {} /\ late' = 0
      /\ data'.validNum = data.validNum
      /\ data.validNum = IF outputs < Tape_Num THEN outputs + 1 ELSE Tape_Num
      /\ data'.RAM = data.RAM
      /\ \A i \in 0 .. Tape_Num - 1 : Holds(i) /\ Holds(i)'
  BY SumEdge
<1>2. data.validNum \in Nat /\ data.validNum >= 1 /\ data.validNum <= Tape_Num
  BY <1>1, Numbers
<1>3. data.ready /\ ~ap.idle /\ step = Started
  BY DEF Summing, Working
<1>4. SUFFICES ASSUME ~(calc'.state = "stop" /\ ~calc'.ready)
               PROVE  \/ calc'.state = "stop" /\ calc'.ready /\ calc'.sum = Golden(outputs)
                      \/ /\ calc'.state # "stop" /\ ~calc'.ready /\ calc'.idx < data.validNum
                         /\ calc'.sum = FirstProducts(calc'.idx)
                         /\ calc'.state = "read_wait" =>
                              data'.A = calc'.idx /\ tap'.A = calc'.idx /\ tap'.EN
                         /\ calc'.state = "calculate" =>
                              /\ tap'.Do = WordOf(calc'.idx)
                              /\ data'.Do = WordOf(outputs - calc'.idx)
  <2>1. data'.validNum = IF outputs' < Tape_Num THEN outputs' + 1 ELSE Tape_Num
    BY <1>1
  <2>2. Golden(outputs)' = Golden(outputs)
    BY <1>1 DEF Golden
  <2>3. FirstProducts(calc.idx)' = [k \in 1 .. calc'.idx |-> <<WordOf(k - 1), WordOf(outputs - k + 1)>>]
    BY <1>1 DEF FirstProducts
  <2>4. \A i \in 0 .. Tape_Num - 1 : Holds(i)'
    BY <1>1
  <2>5. CASE calc'.state = "stop" /\ ~calc'.ready
    BY <1>1, <2>1, <2>4, <2>5 DEF Summing
  <2>6. CASE calc'.state = "stop" /\ calc'.ready /\ calc'.sum = Golden(outputs)
    BY <1>1, <2>1, <2>2, <2>4, <2>6 DEF Summing
  <2>7. CASE /\ calc'.state # "stop" /\ ~calc'.ready /\ calc'.idx < data.validNum
             /\ calc'.sum = FirstProducts(calc'.idx)
             /\ calc'.state = "read_wait" =>
                  data'.A = calc'.idx /\ tap'.A = calc'.idx /\ tap'.EN
             /\ calc'.state = "calculate" =>
                  /\ tap'.Do = WordOf(calc'.idx)
                  /\ data'.Do = WordOf(outputs - calc'.idx)
    <3>1. calc'.sum = FirstProducts(calc.idx)'
      BY <2>3, <2>7 DEF FirstProducts
    <3>2. QED
      BY <1>1, <2>1, <2>4, <2>7, <3>1 DEF Summing
  <2>8. QED
    BY <1>4, <2>5, <2>6, <2>7
<1>5. calc.state # "stop" =>
        /\ calc.idx < data.validNum /\ calc.sum = FirstProducts(calc.idx)
        /\ calc.state = "read_wait" => data.A = calc.idx /\ tap.A = calc.idx /\ tap.EN
        /\ calc.state = "calculate" =>
             tap.Do = WordOf(calc.idx) /\ data.Do = WordOf(outputs - calc.idx)
  BY DEF Summing
<1>6. calc.idx \in 0 .. 15
  BY Ranges
<1>7. CASE calc.state = "stop"
  <2>1. calc'.state = "read" /\ calc'.idx = 0 /\ calc'.sum = <<>> /\ ~calc'.ready
    BY <1>3, <1>7, CalcMoves
  <2>2. FirstProducts(0) = <<>>
    BY <1>1, NextProduct
  <2>3. QED
    BY <1>2, <2>1, <2>2
<1>8. CASE calc.state = "read"
  <2>1. calc'.state = "read_wait" /\ calc'.idx = calc.idx /\ calc'.sum = calc.sum /\ ~calc'.ready
    BY <1>8, CalcMoves
  <2>2. data'.A = calc.idx
    BY <1>8, DataPort
  <2>3. tap'.EN /\ tap'.A = calc.idx
    BY <1>8, TapMoves
  <2>4. QED
    BY <1>5, <1>8, <2>1, <2>2, <2>3
<1>9. CASE calc.state = "read_wait"
  <2>1. calc'.state = "calculate" /\ calc'.idx = calc.idx /\ calc'.sum = calc.sum /\ ~calc'.ready
    BY <1>9, CalcMoves
  <2>2. calc.idx < data.validNum /\ data.A = calc.idx /\ tap.A = calc.idx /\ tap.EN
    BY <1>5, <1>9
  <2>3. calc.idx \in 0 .. Tape_Num - 1 /\ calc.idx <= outputs
    BY <1>1, <1>2, <1>6, <2>2, Numbers
  <2>4. data'.Do = WordOf(outputs - calc.idx)
    <3>1. data'.Do = data.RAM[calc.idx]
      BY <2>2, DataPort
    <3>2. QED
      BY <1>1, <2>3, <3>1 DEF Holds
  <2>5. tap'.Do = WordOf(calc.idx)
    <3>1. tap'.Do = tap.RAM[calc.idx]
      BY <2>2, TapMoves
    <3>2. Coefficients(Tape_Num)
      BY <1>3, Numbers DEF TapsWritten
    <3>3. QED
      BY <2>3, <3>1, <3>2 DEF Coefficients
  <2>6. QED
    BY <1>5, <1>9, <2>1, <2>4, <2>5
<1>10. CASE calc.state = "calculate"
  <2>1. calc.idx < data.validNum /\ calc.sum = FirstProducts(calc.idx)
        /\ tap.Do = WordOf(calc.idx) /\ data.Do = WordOf(outputs - calc.idx)
    BY <1>5, <1>10
  <2>2. calc'.sum = FirstProducts(calc.idx + 1)
    <3>1. calc'.sum = Append(calc.sum, <<tap.Do, data.Do>>)
      BY <1>10, CalcMoves
    <3>2. calc.idx \in Nat
      BY <1>6
    <3>3. outputs \in Int
      BY <1>1
    <3>4. Append(FirstProducts(calc.idx), <<WordOf(calc.idx), WordOf(outputs - calc.idx)>>)
            = FirstProducts(calc.idx + 1)
      BY <3>2, <3>3, NextProduct
    <3>5. QED
      BY <2>1, <3>1, <3>4
  <2>3. CASE calc.idx = data.validNum - 1
    <3>1. calc'.state = "stop" /\ calc'.ready
      BY <1>10, <2>3, CalcMoves
    <3>2. calc.idx + 1 = IF outputs < Tape_Num THEN outputs + 1 ELSE Tape_Num
      BY <1>1, <1>2, <2>3
    <3>3. Golden(outputs) = FirstProducts(calc.idx + 1)
      BY <3>2 DEF Golden, FirstProducts
    <3>4. QED
      BY <2>2, <3>1, <3>3
  <2>4. CASE calc.idx # data.validNum - 1
    <3>1. calc'.state = "read" /\ ~calc'.ready /\ calc'.idx = (calc.idx + 1) % 16
      BY <1>10, <2>4, CalcMoves
    <3>2. calc.idx + 1 < data.validNum /\ (calc.idx + 1) % 16 = calc.idx + 1
      BY <1>2, <1>6, <2>1, <2>4, Numbers
    <3>3. QED
      BY <2>2, <3>1, <3>2
  <2>5. QED
    BY <2>3, <2>4
<1>11. QED
  <2>1. calc.state \in {"stop", "read", "read_wait", "calculate"}
    BY DEF FilterTypes
  <2>2. QED
    BY <2>1, <1>7, <1>8, <1>9, <1>10

\* An output is taken: the next sample is shifted in, or the run is over.
LEMMA OutputStep ==
  ASSUME FilterTypes, BenchTypes, Access, Summing, BenchNext, calc.ready
  PROVE  Shifting' \/ Over'
<1>1. /\ step = Started /\ ~ap.start /\ ~ap.idle /\ ~ap.done /\ ap.length = RunLength - outputs
      /\ outputs < RunLength /\ stream.ss_tvalid
      /\ data.ready /\ data.state = "stop" /\ data.WE = {} /\ late = 0
      /\ data.validNum = IF outputs < Tape_Num THEN outputs + 1 ELSE Tape_Num
      /\ \A i \in 0 .. Tape_Num - 1 : Holds(i)
      /\ calc.state = "stop"
  BY DEF Summing, Working
<1>2. outputs \in Nat /\ outputs < RunLength /\ RunLength \in Nat /\ RunLength <= 1023
  BY <1>1, Counted, Numbers
<1>3. outputs' = outputs + 1 /\ stream'.ss_tvalid
      /\ (outputs' < RunLength => \/ late' = 0 /\ stream'.ss_tdata = outputs'
                                  \/ late' = late + 1)
      /\ (outputs' >= RunLength => late' = late)
  BY <1>1, OutputTaken
<1>4. calc'.state = "stop" /\ ~calc'.ready
  BY <1>1, CalcMoves
<1>5. ap'.length = RunLength - outputs' /\ (ap.length = 1 <=> outputs' = RunLength)
  <2>1. ap'.length = (RunLength - outputs - 1) % 1024
    BY <1>1, NoMoreWrites
  <2>2. (RunLength - outputs - 1) % 1024 = RunLength - outputs - 1
    BY <1>2
  <2>3. QED
    BY <1>1, <1>2, <1>3, <2>1, <2>2
<1>6. /\ step' = Started /\ ~ap'.start
      /\ ap'.done <=> ap.length = 1
      /\ ap'.idle <=> ap.length = 1
  BY <1>1, NoMoreWrites
<1>7. CASE outputs' = RunLength
  <2>1. ap'.idle /\ ap'.done
    BY <1>5, <1>6, <1>7
  <2>2. late' = 0
    BY <1>1, <1>2, <1>3, <1>7
  <2>3. QED
    BY <1>4, <1>6, <1>7, <2>1, <2>2 DEF Over, AllSeen, Started, Start
<1>8. CASE outputs' # RunLength
  <2>1. outputs' < RunLength
    BY <1>2, <1>3, <1>8
  <2>2. Working'
    BY <1>3, <1>5, <1>6, <1>8, <2>1 DEF Working, Started, Start
  <2>3. Starts /\ ss_tready
    BY <1>1 DEF Starts, ss_tready
  <2>4. /\ data'.state = "read" /\ data'.n = Tape_Num /\ ~data'.ready
        /\ data'.validNum = data.validNum /\ data'.WE = {}
    BY <1>1, <2>3, StopMoves
  <2>5. data'.validNum = IF outputs' < Tape_Num THEN outputs' ELSE Tape_Num
    BY <1>1, <1>2, <1>3, <2>4, Numbers
  <2>6. data'.RAM = data.RAM
    <3>1. data.RAM \in [Index -> Words] /\ data.Di \in Words /\ data.A \in Index
      BY DEF FilterTypes
    <3>2. QED
      BY <1>1, <3>1, DataPort, Written
  <2>7. \A i \in 0 .. data'.n - 1 : i < Tape_Num => Held(i)'
    <3>1. \A i \in 0 .. Tape_Num - 1 : i < outputs' =>
             i <= outputs /\ outputs' - 1 - i = outputs - i
      BY <1>2, <1>3, Numbers
    <3>2. \A i \in 0 .. Tape_Num - 1 : i < outputs' => data'.RAM[i] = WordOf(outputs' - 1 - i)
      BY <1>1, <2>6, <3>1 DEF Holds
    <3>3. QED
      BY <2>4, <3>2 DEF Held
  <2>8. \A i \in data'.n + 1 .. Tape_Num - 1 : Holds(i)'
    <3>1. \A i \in data'.n + 1 .. Tape_Num - 1 : FALSE
      BY <2>4, Numbers
    <3>2. QED
      BY <3>1
  <2>9. InTime(1)'
    BY <1>1, <1>3, <2>1, <2>4, Numbers DEF InTime
  <2>10. ~(data'.n \in 1 .. Tape_Num - 1)
    BY <2>4, Numbers
  <2>11. QED
    BY <1>4, <2>2, <2>4, <2>5, <2>7, <2>8, <2>9, <2>10 DEF Shifting
<1>9. QED
  BY <1>7, <1>8

\* The run stays over.
LEMMA OverStep ==
  ASSUME FilterTypes, BenchTypes, Access, Over, BenchNext
  PROVE  Over'
<1>1. /\ AllSeen /\ step = Started /\ ap.idle /\ ap.done /\ ~ap.start /\ late = 0
      /\ calc.state = "stop" /\ ~calc.ready
  BY DEF Over
<1>2. calc'.state = "stop" /\ ~calc'.ready
  BY <1>1, CalcMoves
<1>3. outputs' = outputs /\ late' = 0
  BY <1>1, NoOutput
<1>4. step' = Started /\ ap'.idle /\ ap'.done /\ ~ap'.start
  BY <1>1, NoMoreWrites
<1>5. QED
  BY <1>1, <1>2, <1>3, <1>4 DEF Over, AllSeen, Started, Start

\* Every edge leads from a phase to a phase.
LEMMA FilteringStep ==
  ASSUME FilterTypes, BenchTypes, Access, TapsWritten, Filtering, BenchNext
  PROVE  Filtering'
<1>1. CASE Resting
  BY <1>1, RestingStep DEF Filtering
<1>2. CASE Starting
  BY <1>2, StartingStep DEF Filtering
<1>3. CASE Shifting
  <2>1. CASE ShiftReads \/ ShiftWaits
    BY <1>3, <2>1, ShiftReadStep DEF Filtering
  <2>2. ASSUME NEW l \in Lane, ShiftWrites(l)
        PROVE  Filtering'
    BY <1>3, <2>2, ShiftWriteStep DEF Filtering
  <2>3. QED
    BY <1>3, <2>1, <2>2, ShiftingIs
<1>4. CASE Summing
  <2>1. CASE calc.ready
    BY <1>4, <2>1, OutputStep DEF Filtering
  <2>2. CASE ~calc.ready
    BY <1>4, <2>2, SumStep DEF Filtering
  <2>3. QED
    BY <2>1, <2>2
<1>5. CASE Over
  BY <1>5, OverStep DEF Filtering
<1>6. QED
  BY <1>1, <1>2, <1>3, <1>4, <1>5 DEF Filtering

\* An output is taken with a sample and no more of them than there are.
LEMMA CountStep ==
  ASSUME FilterTypes, BenchTypes, Access, Filtering, BenchNext
  PROVE  /\ StreamTypes' /\ outputs' \in 0 .. RunLength /\ accepted' = outputs'
         /\ AllSeen => AllSeen'
<1>1. CASE ~calc.ready
  BY <1>1, SameCount DEF AllSeen
<1>2. CASE calc.ready
  <2>1. Summing
    BY <1>2 DEF Filtering, Resting, Starting, Unstarted, Rests, Shifting, Over
  <2>2. outputs < RunLength /\ stream.ss_tvalid
    BY <2>1 DEF Summing, Working
  <2>3. StreamTypes' /\ outputs' = outputs + 1 /\ accepted' = outputs'
    BY <1>2, <2>2, OutputTaken
  <2>4. outputs' \in 0 .. RunLength /\ ~AllSeen
    BY <2>2, <2>3, Counted, Numbers DEF AllSeen
  <2>5. QED
    BY <2>3, <2>4
<1>3. QED
  BY <1>1, <1>2

-----------------------------------------------------------------------------
(* The invariant. *)

\* Every edge of the clock keeps the invariant.
LEMMA Lab3Step ==
  ASSUME Lab3Inv, BenchNext
  PROVE  Lab3Inv'
<1>1. FilterTypes /\ BenchTypes /\ Access /\ TapsWritten /\ TapsRead /\ StatusRead /\ Filtering
  BY DEF Lab3Inv
<1>2. FilterTypes'
  BY <1>1, InPhase, FilterTypesStep
<1>3. BenchTypes'
  <2>1. /\ axi' \in [awvalid : BOOLEAN, awaddr : Address, wvalid : BOOLEAN, wdata : Int,
                      arvalid : BOOLEAN, araddr : Address, rready : BOOLEAN]
        /\ step' \in 0 .. Started'
        /\ final' \in [begun : BOOLEAN, ended : Nat]
    BY <1>1, LinesTypesStep DEF Started, Start
  <2>2. StreamTypes' /\ outputs' \in 0 .. RunLength /\ accepted' = outputs'
    BY <1>1, CountStep
  <2>3. error' = FALSE
    <3>1. ~ReadIsWrong /\ ~OutputIsWrong
      BY <1>1, NothingWrong
    <3>2. error = FALSE /\ error' = (error \/ ReadIsWrong \/ OutputIsWrong)
      BY <1>1 DEF BenchTypes, BenchNext
    <3>3. QED
      BY <3>1, <3>2
  <2>4. QED
    BY <2>1, <2>2, <2>3 DEF BenchTypes, StreamTypes
<1>4. Access'
  BY <1>1, AccessStep
<1>5. TapsWritten'
  BY <1>1, TapsWrittenStep
<1>6. TapsRead'
  BY <1>1, TapsReadStep
<1>7. StatusRead'
  BY <1>1, CountStep, StatusReadStep
<1>8. Filtering'
  BY <1>1, FilteringStep
<1>9. QED
  BY <1>2, <1>3, <1>4, <1>5, <1>6, <1>7, <1>8 DEF Lab3Inv

\* It holds at the beginning.
LEMMA Lab3Start ==
  ASSUME BenchInit
  PROVE  Lab3Inv
<1> USE DEF BenchInit
<1>1. 0 \in Index /\ Tape_Num \in Index /\ Tape_Num \in Nat /\ Tape_Num >= 2
  BY Numbers DEF Index
<1>2. WordOf(0) \in Words /\ WordOf(Unwritten) \in Words
  BY Whole DEF Unwritten
<1>3. {} \in SUBSET Lane /\ <<>> \in Seq(Words \X Words)
  OBVIOUS
<1>4. FilterTypes
  <2>1. [i \in Index |-> WordOf(Unwritten)] \in [Index -> Words]
    BY <1>2
  <2>2. QED
    BY <1>1, <1>2, <1>3, <2>1 DEF FilterTypes, FilterInit
<1>5. 0 \in 0 .. Started /\ AddressOf(0) \in Address /\ WritesIn(0) /\ ~ReadsBack(0)
      /\ ~(0 \in 1 .. Tape_Num) /\ 0 # Started
  <2>1. 0 \in 0 .. Started
    BY Numbers
  <2>2. QED
    BY <2>1, Numbers, Numbered DEF WritesIn, ReadsBack
<1>6. BenchTypes
  BY <1>5, Numbers DEF BenchTypes
<1>7. Access
  BY <1>5 DEF Access, Free, FilterInit
<1>8. TapsWritten
  BY <1>1, <1>5 DEF TapsWritten, FilterInit, WritesTap, Coefficients
<1>9. TapsRead
  BY <1>5 DEF TapsRead
<1>10. StatusRead
  BY <1>5 DEF StatusRead, AllSeen
<1>11. Filtering
  <2>1. Unstarted
    BY DEF Unstarted, Rests, FilterInit
  <2>2. step <= Start /\ step # Start /\ ~(step > 0)
    BY Numbers
  <2>3. Resting
    BY <2>1, <2>2 DEF Resting, FilterInit
  <2>4. QED
    BY <2>3 DEF Filtering
<1>12. QED
  BY <1>4, <1>6, <1>7, <1>8, <1>9, <1>10, <1>11 DEF Lab3Inv

\* A step that changes nothing keeps it.
LEMMA Lab3Still ==
  ASSUME Lab3Inv, UNCHANGED benchAll
  PROVE  Lab3Inv'
<1>1. UNCHANGED <<axi, stream, lite, ap, data, tap, calc, step, accepted, late, outputs, final, error>>
  BY DEF benchAll, filterVars, benchVars
<1>2. FilterTypes'
  BY <1>1 DEF Lab3Inv, FilterTypes
<1>3. BenchTypes'
  BY <1>1 DEF Lab3Inv, BenchTypes
<1>4. Access'
  BY <1>1 DEF Lab3Inv, Access, Free
<1>5. TapsWritten'
  BY <1>1 DEF Lab3Inv, TapsWritten, WritesTap, TapLane, Coefficients
<1>6. TapsRead'
  BY <1>1 DEF Lab3Inv, TapsRead
<1>7. StatusRead'
  BY <1>1 DEF Lab3Inv, StatusRead, AllSeen
<1>8. Filtering'
  <2>1. Resting => Resting'
    BY <1>1 DEF Resting, Unstarted, Rests
  <2>2. Starting => Starting'
    BY <1>1 DEF Starting, Unstarted, Rests
  <2>3. Shifting => Shifting'
    BY <1>1 DEF Shifting, Working, Holds, Held, InTime
  <2>4. Summing => Summing'
    BY <1>1 DEF Summing, Working, Holds, FirstProducts
  <2>5. Over => Over'
    BY <1>1 DEF Over, AllSeen
  <2>6. QED
    BY <2>1, <2>2, <2>3, <2>4, <2>5 DEF Lab3Inv, Filtering
<1>9. QED
  BY <1>2, <1>3, <1>4, <1>5, <1>6, <1>7, <1>8 DEF Lab3Inv

\* The testbench of lab 3 finds no error and sees no more outputs than samples,
\* for 2 to 15 taps, which four bits can count, every run that the ten bits of
\* the length can count, and however late a sample is
\* shown, as long as it is there when it is taken.
THEOREM Lab3Passes == BenchSpec => []TestbenchPasses
<1>1. BenchInit => Lab3Inv
  BY Lab3Start
<1>2. Lab3Inv /\ [BenchNext]_benchAll => Lab3Inv'
  BY Lab3Step, Lab3Still
<1>3. Lab3Inv => TestbenchPasses
  BY Counted DEF Lab3Inv, BenchTypes, TestbenchPasses
<1>4. QED
  BY <1>1, <1>2, <1>3, PTL DEF BenchSpec
=============================================================================

-------------------------------- MODULE Bram -------------------------------
(***************************************************************************)
(* bram (bram.v): the synchronous RAM of the FIR filter, one write enable  *)
(* per byte lane and a registered output that shows the word as it was     *)
(* before the write of the same edge.                                      *)
(*                                                                         *)
(* A word is kept lane by lane, each lane holding the number its byte      *)
(* comes from: WordOf(n) is the number n in full, a word whose lanes       *)
(* differ is torn, half of one number and half of another.                 *)
(***************************************************************************)
EXTENDS Integers

Lane == 0 .. 3
\* The content of a byte that was never written.
Unwritten == -1
WordOf(n) == [l \in Lane |-> n]

\* The RAM after an edge: the lanes in we of word a take those of di.
BramWrite(ram, a, we, di) ==
  [ram EXCEPT ![a] = [l \in Lane |-> IF l \in we THEN di[l] ELSE @[l]]]

\* Do0 after an edge.
BramRead(en, ram, a) == IF en THEN ram[a] ELSE WordOf(0)
=============================================================================

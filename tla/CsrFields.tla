------------------------------- MODULE CsrFields --------------------------
(***************************************************************************)
(* What the accessors of csr.h promise their callers: the fields the core  *)
(* keeps are variables of their own.  A call names one field of a register *)
(* or all of them; writing gives those fields, and no others, the values   *)
(* of the call, reading returns their values, and nothing else, a restart  *)
(* of the processor included, changes any of them.                         *)
(***************************************************************************)
VARIABLES stored,  \* the fields the core keeps, by register and name
          io       \* the last call: what it did, where, and with which values

\* The value of a field is the set of its one-bits; a field keeps the bits it
\* has room for.
Init ==
  /\ \A g \in DOMAIN stored : stored[g] \subseteq g.room
  /\ io = [op |-> "none"]

Write ==
  /\ io'.op = "write"
  /\ stored' = [g \in DOMAIN stored |->
       IF g.reg = io'.reg /\ g.name \in DOMAIN io'.val
         THEN io'.val[g.name] \cap g.room ELSE stored[g]]

Read ==
  /\ io'.op = "read"
  /\ \A g \in DOMAIN stored :
       g.reg = io'.reg /\ g.name \in DOMAIN io'.val => io'.val[g.name] = stored[g]
  /\ UNCHANGED stored

Next == Write \/ Read
Spec == Init /\ [][Next]_<<stored, io>>
=============================================================================

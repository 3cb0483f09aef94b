----------------------------- MODULE MCFirOpen -----------------------------
(***************************************************************************)
(* FirOpen for TLC: reads and writes of every kind of register, with one   *)
(* coefficient and one number as data.                                     *)
(***************************************************************************)
EXTENDS FirOpen

MCRequests ==
  {ReadOf(a) : a \in {Coefficient(0), Register("y"), Register("hole")}}
    \cup {WriteOf(a, 1) : a \in {Register("ap_state"), Register("data_length"),
                                Coefficient(0), Register("x")}}
=============================================================================

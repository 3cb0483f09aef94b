----------------------------- MODULE EchoChannel ---------------------------
(***************************************************************************)
(* What the UART loopback of lab 6 promises, without any of its parts: the *)
(* peer sends a byte and the same byte comes back, before it sends again.  *)
(***************************************************************************)
CONSTANT Messages

VARIABLES phase,   \* "ready" to send, or "waiting" for the echo
          sent,    \* the byte last sent
          got      \* the byte last received

chanVars == <<phase, sent, got>>

\* got is arbitrary before the first echo.
Init == phase = "ready"

Send ==
  /\ phase = "ready" /\ phase' = "waiting"
  /\ sent' \in Messages
  /\ UNCHANGED got

Echo ==
  /\ phase = "waiting" /\ phase' = "ready"
  /\ got' = sent
  /\ UNCHANGED sent

Next == Send \/ Echo

\* An echo that is due does come back.
Spec == Init /\ [][Next]_chanVars /\ WF_chanVars(Echo)
=============================================================================

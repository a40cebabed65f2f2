---------------------------- MODULE TokenBroker -----------------------------
(***************************************************************************)
(* What a greeter plugin promises the guest agent's credentials server: a  *)
(* token it heard of is given to at most one question of PAM, and never    *)
(* once a newer one has been heard.  Tokens are numbered as announced.     *)
(***************************************************************************)
EXTENDS Naturals

CONSTANT Tokens

VARIABLES
  heard,    \* the newest token heard
  served,   \* the newest token given away
  given     \* answers given with a token

vars == <<heard, served, given>>

Init == heard = 0 /\ served = 0 /\ given = 0

Hear(t) ==
  /\ t > heard
  /\ heard' = t
  /\ UNCHANGED <<served, given>>

Serve ==
  /\ served < heard
  /\ served' = heard
  /\ given' = given + 1
  /\ UNCHANGED heard

Next == Serve \/ \E t \in Tokens : Hear(t)

Spec == Init /\ [][Next]_vars
=============================================================================

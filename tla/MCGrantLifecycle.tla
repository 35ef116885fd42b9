-------------------------- MODULE MCGrantLifecycle --------------------------
(* Instances of GrantLifecycle for TLC. *)
EXTENDS GrantLifecycle

CONSTANTS g1, g2, r1, r2

TwoGrants == {g1, g2}
TwoRequests == {r1, r2}
=============================================================================

---------------------------- MODULE MCSystemEmail ----------------------------
(* Instances of SystemEmail for TLC. *)
EXTENDS SystemEmail, TLC

CONSTANTS p1, p2, p3, b1, m1, m2

(* Two cycles list the first meeting, the second of them another one too.  *)
TwoCycles == (p1 :> m1) @@ (p2 :> m1) @@ (p3 :> m2)
=============================================================================

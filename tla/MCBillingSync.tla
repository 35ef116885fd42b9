--------------------------- MODULE MCBillingSync ---------------------------
(* Instances of BillingSync for TLC.                                       *)
EXTENDS BillingSync, TLC

CONSTANTS s1, s2, h1, h2, pro

(* Five events, or four when both an overlap and a failure happen.         *)
Bound == Len(events) <= 4 \/ overlaps + faults <= 1

Symmetries == Permutations({s1, s2}) \cup Permutations({h1, h2})
=============================================================================

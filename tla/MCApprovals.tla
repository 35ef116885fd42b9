----------------------------- MODULE MCApprovals -----------------------------
(* Instances of Approvals for TLC. *)
EXTENDS Approvals, TLC

CONSTANTS a1, a2, q1, q2, q3

(* Approvals and requests are interchangeable: no property names one.      *)
Interchangeable == Permutations(Approvals) \cup Permutations(Requests)
==============================================================================

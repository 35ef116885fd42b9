--------------------------- MODULE SpendEnvelope ---------------------------
(***************************************************************************)
(* What the daily spend counter promises to the agent runtime, without the *)
(* counter: for every grant and every UTC day there is a set of claims on  *)
(* the grant's envelope.  A claim joins the set only when the envelope     *)
(* still has room for it, leaves it at most once, and the sum of the       *)
(* claims held never exceeds max_unapproved_spend_per_day.                 *)
(*                                                                         *)
(* The implementation (kinetiks_daily_counters and its two functions)      *)
(* keeps one number per grant and day and knows no claim; AgentRuntime     *)
(* shows that the number behaves as if it did.                             *)
(***************************************************************************)
EXTENDS Naturals

CONSTANTS
  Claims,   \* tool invocations that may claim spend
  Grants,   \* authority grants
  Days,     \* UTC calendar days
  DayCap,   \* grant -> max_unapproved_spend_per_day, or NoCap when null
  NoCap,    \* the null cap
  Total     \* set of claims -> the sum of their amounts

VARIABLE holders   \* holders[g][d]: the claims held on grant g for day d

Init == holders = [g \in Grants |-> [d \in Days |-> {}]]

Unheld(c) == \A g \in Grants, d \in Days : c \notin holders[g][d]

(* _kt_reserve_daily_counter granted the claim. *)
Hold(c, g, d) ==
  /\ Unheld(c)
  /\ DayCap[g] # NoCap
  /\ Total[holders[g][d] \cup {c}] <= DayCap[g]
  /\ holders' = [holders EXCEPT ![g][d] = @ \cup {c}]

(* _kt_release_daily_counter returned it. *)
GiveBack(c, g, d) ==
  /\ c \in holders[g][d]
  /\ holders' = [holders EXCEPT ![g][d] = @ \ {c}]

Next == \E c \in Claims, g \in Grants, d \in Days :
          Hold(c, g, d) \/ GiveBack(c, g, d)

Spec == Init /\ [][Next]_holders
=============================================================================

------------------------ MODULE MCOutreachSequences ------------------------
(* Instances of OutreachSequences for TLC.                                 *)
EXTENDS OutreachSequences, TLC

CONSTANTS c1, k1, k2

Email == [type |-> "email"]
Pause == [type |-> "delay", days |-> 1]
Unless(signal, action) ==
  [type |-> "condition", condition |-> signal, action |-> action]

(* A mail and, after a day, a reminder: not for those who answered, who    *)
(* are done, nor for those who opened it, whom the skip takes past it to   *)
(* the delay that ends the sequence.                                       *)
Reminder ==
  (0 :> Email) @@ (1 :> Pause) @@ (2 :> Unless("replied", "stop"))
    @@ (3 :> Unless("opened", "skip")) @@ (4 :> Email) @@ (5 :> Pause)
=============================================================================

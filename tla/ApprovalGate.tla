---------------------------- MODULE ApprovalGate ----------------------------
(***************************************************************************)
(* What the approval queue promises about each action that waits in it,    *)
(* without requests, races or failures: it is submitted once and decided   *)
(* once, a decision is final (only an automatic one can be flagged         *)
(* afterwards), and the action is started at most once, and only after it  *)
(* was approved.                                                           *)
(*                                                                         *)
(* Two components implement it: Approvals, where several requests decide   *)
(* the same row and each carries out what it believes it has approved, and *)
(* AgentRuntime, whose escalated invocations wait in the queue and are     *)
(* started again by it.                                                    *)
(***************************************************************************)
EXTENDS Naturals

CONSTANT Approvals

VARIABLES
  verdict,  \* approval -> its status, "none" before it is submitted
  carried   \* approval -> how often its action was started

Init ==
  /\ verdict = [a \in Approvals |-> "none"]
  /\ carried = [a \in Approvals |-> 0]

Submit(a) ==
  /\ verdict[a] = "none"
  /\ \E v \in {"pending", "auto_approved"} :
       verdict' = [verdict EXCEPT ![a] = v]
  /\ UNCHANGED carried

Decide(a) ==
  /\ verdict[a] = "pending"
  /\ \E v \in {"approved", "rejected", "expired"} :
       verdict' = [verdict EXCEPT ![a] = v]
  /\ UNCHANGED carried

Flag(a) ==
  /\ verdict[a] = "auto_approved"
  /\ verdict' = [verdict EXCEPT ![a] = "flagged"]
  /\ UNCHANGED carried

Carry(a) ==
  /\ verdict[a] \in {"approved", "auto_approved"}
  /\ carried[a] = 0
  /\ carried' = [carried EXCEPT ![a] = 1]
  /\ UNCHANGED verdict

Next == \E a \in Approvals : Submit(a) \/ Decide(a) \/ Flag(a) \/ Carry(a)

Spec == Init /\ [][Next]_<<verdict, carried>>
=============================================================================

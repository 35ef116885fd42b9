---------------------------- MODULE ProposalDesk ----------------------------
(* What the evaluation of proposals promises, whoever evaluates them: a    *)
(* proposal is accepted only when its content has been written into the    *)
(* context layer, a verdict is never taken back, and superseding the       *)
(* accepted ones always leaves one of them standing.                       *)
CONSTANT Proposals

VARIABLES
  verdict,  \* of each proposal
  written   \* the proposals whose payload has been merged

vars == <<verdict, written>>

Init ==
  /\ verdict = [p \in Proposals |-> "unsent"]
  /\ written = {}

Standing == {p \in Proposals : verdict[p] = "accepted"}

Set(S, to) == [p \in Proposals |-> IF p \in S THEN to ELSE verdict[p]]

Open(p) ==
  /\ verdict[p] = "unsent"
  /\ verdict' = Set({p}, "open")
  /\ UNCHANGED written

(* A worker that lost the race merges a proposal that is closed already.   *)
Write(p) ==
  /\ verdict[p] # "unsent"
  /\ written' = written \cup {p}
  /\ UNCHANGED verdict

Accept(p) ==
  /\ verdict[p] = "open" /\ p \in written
  /\ verdict' = Set({p}, "accepted")
  /\ UNCHANGED written

Close(S) ==
  /\ \A p \in S : verdict[p] = "open"
  /\ verdict' = Set(S, "closed")
  /\ UNCHANGED written

Supersede(S) ==
  /\ S \subseteq Standing /\ Standing \ S # {}
  /\ verdict' = Set(S, "superseded")
  /\ UNCHANGED written

Next ==
  \/ \E p \in Proposals : Open(p) \/ Write(p) \/ Accept(p)
  \/ \E S \in SUBSET Proposals : Close(S) \/ Supersede(S)

Spec == Init /\ [][Next]_vars
==============================================================================

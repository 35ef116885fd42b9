------------------------------ MODULE Approvals ------------------------------
(* The approval queue of one account for one action category, and the      *)
(* trust the decisions on it build: the submission pipeline                *)
(* (apps/id/src/lib/approvals/pipeline.ts), the decisions of the customer  *)
(* (learning-loop.ts, with the action, batch and flag routes and Slack),   *)
(* the calibration of the category's threshold (threshold.ts,              *)
(* threshold-math.ts) and the transition trigger of                        *)
(* migrations/00033.  Every await is a step of its own, so requests        *)
(* interleave wherever the code can be preempted.  Grant proposals share   *)
(* the table but not this path: they are in GrantLifecycle.                *)
(*                                                                         *)
(* Time is abstracted: a pending row may be past its expires_at, and a     *)
(* rejection older than the seven days of the window, at any moment.       *)
EXTENDS Integers, FiniteSets

CONSTANTS
  Approvals,    \* ids of the rows of kinetiks_approvals
  Requests,     \* requests of the customer, from any surface; each runs once
  NoApproval,   \* no approval is being processed
  NoRow,        \* the category has no threshold row yet
  Default,      \* DEFAULT_THRESHOLDS of the category
  Ceiling,      \* the highest threshold, 100 in the code
  Milestones,   \* the streaks that expand trust, 20 and 50 in the code
  Gain,         \* points a milestone gives, 5 in the code
  Penalty,      \* points a rejection costs, 10 in the code
  Scores,       \* the confidence scores a submission may get
  MaxFaults     \* bound on infrastructure failures and crashes

ASSUME ApprovalAssumption ==
  IsFiniteSet(Approvals) /\ NoApproval \notin Approvals
ASSUME ThresholdAssumption ==
  /\ Ceiling \in Nat /\ Default \in 0..Ceiling
  /\ Gain \in Nat /\ Penalty \in Nat
  /\ Milestones \subseteq Nat \ {0}
  /\ Scores \subseteq 0..Ceiling
  /\ NoRow \notin [threshold : 0..Ceiling, streak : Nat,
                   approvals : Nat, rejections : Nat]
ASSUME FaultAssumption == MaxFaults \in Nat

VARIABLES
  status,   \* of each approval: "none" before its submission,
            \* "evaluating" while the pipeline runs, then the column status
  type,     \* approval_type of each approval, once classified
  seen,     \* what the pipeline of each approval read of the threshold
  row,      \* the category's threshold row
  rule,     \* its override_rule
  ledger,   \* the approval entries of the Ledger: <<event_type, approval>>
  request,  \* the local state of each request
  carried,  \* history: side effects of each approval's action
  faults

queueVars == <<status, type, seen>>
trustVars == <<row, rule>>
vars == <<queueVars, trustVars, ledger, request, carried, faults>>

Types == {"quick", "review", "strategic"}
Rules == {"always_approve", "always_ask", "confidence_based"}
Statuses == {"none", "evaluating", "pending", "auto_approved", "approved",
             "rejected", "expired", "flagged"}
Operations == {"approve", "approve_with_edits", "approve_batch", "reject",
               "flag"}
Approving == {"approve", "approve_with_edits", "approve_batch"}
ThresholdRow == [threshold : 0..Ceiling, streak : Nat,
                 approvals : Nat, rejections : Nat]

Places == {"idle", "claim", "execute", "flag", "calibrate", "count", "write",
           "log", "log_batch", "done"}
RequestState ==
  [pc : Places, op : Operations,
   todo : SUBSET Approvals,           \* still to decide: one, or a batch
   target : Approvals \cup {NoApproval}, \* the one being processed
   snap : ThresholdRow \cup {NoRow},  \* the threshold row it read
   recent : Nat,                      \* the recent rejections it counted
   listed : SUBSET Approvals]         \* approvedIds of a batch
(* A request before it starts, and after its locals are gone.              *)
Blank(place) ==
  [pc |-> place, op |-> "approve", todo |-> {}, target |-> NoApproval,
   snap |-> NoRow, recent |-> 0, listed |-> {}]

VirtualDefault == [threshold |-> Default, streak |-> 0,
                   approvals |-> 0, rejections |-> 0]
(* What getThreshold returns of a row: itself, or the virtual default.     *)
Threshold(r) == IF r = NoRow THEN VirtualDefault ELSE r

Unseen == [threshold |-> Default, rule |-> "confidence_based"]

Init ==
  /\ status = [a \in Approvals |-> "none"]
  /\ type = [a \in Approvals |-> "quick"]
  /\ seen = [a \in Approvals |-> Unseen]
  /\ row = NoRow
  /\ rule = "confidence_based"
  /\ ledger = {}
  /\ request = [q \in Requests |-> Blank("idle")]
  /\ carried = [a \in Approvals |-> 0]
  /\ faults = 0

Fault ==
  /\ faults < MaxFaults
  /\ faults' = faults + 1

----------------------------------------------------------------------------
(* threshold-math.ts *)

AtMost(n, bound) == IF n > bound THEN bound ELSE n
AtLeast(n, bound) == IF n < bound THEN bound ELSE n

(* The mutant lowers the bar one approval early.                          *)
ApprovedClean_OneEarly(t) ==
  [threshold |-> IF t.streak + 2 \in Milestones
                 THEN AtLeast(t.threshold - Gain, 0) ELSE t.threshold,
   streak |-> t.streak + 1,
   approvals |-> t.approvals + 1,
   rejections |-> t.rejections]
ApprovedClean(t) ==
  [threshold |-> IF t.streak + 1 \in Milestones
                 THEN AtLeast(t.threshold - Gain, 0) ELSE t.threshold,
   streak |-> t.streak + 1,
   approvals |-> t.approvals + 1,
   rejections |-> t.rejections]

ApprovedWithEdits(t) ==
  [threshold |-> t.threshold,
   streak |-> 0,
   approvals |-> t.approvals + 1,
   rejections |-> t.rejections]

(* The mutant forgets the clamp of a double rejection.                     *)
Rejected_NoClamp(t, n) ==
  [threshold |-> IF n >= 3 THEN Ceiling
                 ELSE IF n = 2 THEN t.threshold + 2 * Penalty
                 ELSE AtMost(t.threshold + Penalty, Ceiling),
   streak |-> 0,
   approvals |-> t.approvals,
   rejections |-> t.rejections + 1]
Rejected(t, n) ==
  [threshold |-> IF n >= 3 THEN Ceiling
                 ELSE IF n = 2 THEN AtMost(t.threshold + 2 * Penalty, Ceiling)
                 ELSE AtMost(t.threshold + Penalty, Ceiling),
   streak |-> 0,
   approvals |-> t.approvals,
   rejections |-> t.rejections + 1]

Calibrated(r) ==
  IF r.op \in {"reject", "flag"} THEN Rejected(Threshold(r.snap), r.recent)
  ELSE IF r.op = "approve_with_edits" THEN ApprovedWithEdits(Threshold(r.snap))
  ELSE ApprovedClean(Threshold(r.snap))

(* Strategic approvals always wait, the customer's rule comes before the   *)
(* score, and the score has to reach the threshold.                        *)
ShouldAutoApprove(t, score, kind) ==
  /\ kind # "strategic"
  /\ t.rule # "always_ask"
  /\ t.rule = "always_approve" \/ score >= t.threshold

----------------------------------------------------------------------------
(* processApproval *)

(* Gates and confidence are computed between the read of the threshold     *)
(* and the insert of the row.                                              *)
Evaluate(a) ==
  /\ status[a] = "none"
  /\ status' = [status EXCEPT ![a] = "evaluating"]
  /\ seen' = [seen EXCEPT ![a] = [threshold |-> Threshold(row).threshold,
                                  rule |-> rule]]
  /\ UNCHANGED <<type, trustVars, ledger, request, carried, faults>>

(* `cleared`: both gates passed and the caller did not force the queue.    *)
(* The ledger entry is non-blocking: its failure is logged and dropped.    *)
Submit(a) ==
  /\ status[a] = "evaluating"
  /\ \E kind \in Types, score \in Scores, cleared \in BOOLEAN :
       LET auto == cleared /\ ShouldAutoApprove(seen[a], score, kind)
       IN /\ status' = [status EXCEPT ![a] = IF auto THEN "auto_approved"
                                                     ELSE "pending"]
          /\ type' = [type EXCEPT ![a] = kind]
          /\ \/ /\ ledger' = ledger \cup
                     {<<IF auto THEN "approval_auto_approved"
                                ELSE "approval_created", a>>}
                /\ UNCHANGED faults
             \/ Fault /\ UNCHANGED ledger
  /\ seen' = [seen EXCEPT ![a] = Unseen]
  /\ UNCHANGED <<trustVars, request, carried>>

(* expire-cron section 4. *)
ExpirePending(a) ==
  /\ status[a] = "pending"
  /\ status' = [status EXCEPT ![a] = "expired"]
  /\ \/ /\ ledger' = ledger \cup {<<"approval_expired", a>>}
        /\ UNCHANGED faults
     \/ Fault /\ UNCHANGED ledger
  /\ UNCHANGED <<type, seen, trustVars, request, carried>>

----------------------------------------------------------------------------
(* The routes: read, check, then call the decision *)

Take(q, place, operation, approvals) ==
  /\ request[q].pc = "idle"
  /\ request' = [request EXCEPT
       ![q] = [@ EXCEPT !.pc = place, !.op = operation, !.todo = approvals]]
  /\ UNCHANGED <<queueVars, trustVars, ledger, carried, faults>>

(* POST /api/approvals/action and the Slack card. *)
Decide(q) ==
  \E a \in Approvals, operation \in {"approve", "approve_with_edits",
                                     "reject"} :
    status[a] = "pending" /\ Take(q, "claim", operation, {a})

(* POST /api/approvals/batch: every pending quick approval. *)
DecideBatch(q) ==
  LET quick == {a \in Approvals : status[a] = "pending" /\ type[a] = "quick"}
  IN quick # {} /\ Take(q, "claim", "approve_batch", quick)

(* flagApproval reads the row first. *)
Flag(q) ==
  \E a \in Approvals :
    /\ status[a] \in {"approved", "auto_approved"}
    /\ Take(q, "flag", "flag", {a})

----------------------------------------------------------------------------
(* processApprovalDecision, one approval of the request at a time *)

(* The status filter of the claim.  The mutant claims approved rows again.  *)
Claimable_Unfiltered(a) == status[a] \in {"pending", "approved"}
Claimable(a) == status[a] = "pending"
Decision(r) == IF r.op \in Approving THEN "approved" ELSE "rejected"
Event(r) ==
  IF r.op = "approve_with_edits" THEN "approval_approved_with_edits"
  ELSE IF r.op \in Approving THEN "approval_approved"
  ELSE IF r.op = "reject" THEN "approval_rejected"
  ELSE "approval_flagged"

(* Request r takes approval a of those it has to decide and goes to place. *)
Claimed(r, a) ==
  [r EXCEPT !.todo = @ \ {a}, !.target = a,
            !.pc = IF r.op \in Approving THEN "execute" ELSE "calibrate"]

(* Where a request goes when it is through with approval a, which a batch  *)
(* reports or not: the batch loops, and ends with a ledger entry of its    *)
(* own when it has any approval to report.                                 *)
Resumed(r, a, reported) ==
  LET left == r.todo \ {a}
      batch == r.op = "approve_batch"
      list == IF batch /\ reported THEN r.listed \cup {a} ELSE r.listed
  IN IF left = {} /\ list = {} THEN Blank("done")
     ELSE [Blank(IF left # {} THEN "claim" ELSE "log_batch") EXCEPT
             !.op = r.op, !.todo = left, !.listed = list]

(* The guarded UPDATE won the row. *)
ClaimWon(q, a) ==
  /\ request[q].pc = "claim" /\ a \in request[q].todo
  /\ Claimable(a)
  /\ status' = [status EXCEPT ![a] = Decision(request[q])]
  /\ request' = [request EXCEPT ![q] = Claimed(@, a)]
  /\ UNCHANGED <<type, seen, trustVars, ledger, carried, faults>>

(* Zero rows: decided by somebody else.  It returns without an error, so   *)
(* the batch reports the approval all the same.                            *)
(* The mutant goes on as if it had won.                                    *)
AfterLostClaim_GoesOn(r, a) == Claimed(r, a)
AfterLostClaim(r, a) == Resumed(r, a, TRUE)
ClaimLost(q, a) ==
  /\ request[q].pc = "claim" /\ a \in request[q].todo
  /\ ~Claimable(a)
  /\ request' = [request EXCEPT ![q] = AfterLostClaim(@, a)]
  /\ UNCHANGED <<queueVars, trustVars, ledger, carried, faults>>

(* The UPDATE reports an error, before or after the database applied it.   *)
ClaimThrew(q, a) ==
  /\ request[q].pc = "claim" /\ a \in request[q].todo
  /\ Fault
  /\ \/ UNCHANGED status
     \/ /\ Claimable(a)
        /\ status' = [status EXCEPT ![a] = Decision(request[q])]
  /\ request' = [request EXCEPT ![q] = Resumed(@, a, FALSE)]
  /\ UNCHANGED <<type, seen, trustVars, ledger, carried>>

(* executeApprovedAction or applyContextEditApproval: a failure is         *)
(* reported and swallowed, and a preview of another kind has no effect.    *)
Execute(q) ==
  /\ request[q].pc = "execute"
  /\ \/ carried' = [carried EXCEPT ![request[q].target] = @ + 1]
     \/ UNCHANGED carried
  /\ request' = [request EXCEPT ![q] = [@ EXCEPT !.pc = "calibrate"]]
  /\ UNCHANGED <<queueVars, trustVars, ledger, faults>>

(* flagApproval's UPDATE has no status filter, the trigger admits only     *)
(* auto_approved to flagged, and its error is not looked at.               *)
FlagRow(q) ==
  /\ request[q].pc = "flag"
  /\ \E a \in request[q].todo :
       /\ \/ /\ status' = [status EXCEPT
                             ![a] = IF @ = "auto_approved" THEN "flagged"
                                                           ELSE @]
             /\ UNCHANGED faults
          \/ Fault /\ UNCHANGED status
       /\ request' = [request EXCEPT ![q] = Claimed(@, a)]
  /\ UNCHANGED <<type, seen, trustVars, ledger, carried>>

----------------------------------------------------------------------------
(* calibrateThreshold: read, count, write *)

ReadThreshold(q) ==
  /\ request[q].pc = "calibrate"
  /\ request' = [request EXCEPT
       ![q] = [@ EXCEPT
                 !.snap = row,
                 !.pc = IF request[q].op \in {"reject", "flag"} THEN "count"
                                                               ELSE "write"]]
  /\ UNCHANGED <<queueVars, trustVars, ledger, carried, faults>>

(* Rejections of the last seven days; an error reads as zero.              *)
CountRejections(q) ==
  LET rejected == {a \in Approvals : status[a] = "rejected"}
  IN /\ request[q].pc = "count"
     /\ \/ /\ \E old \in SUBSET (rejected \ {request[q].target}) :
                request' = [request EXCEPT
                  ![q] = [@ EXCEPT !.pc = "write",
                                   !.recent = Cardinality(rejected \ old)]]
           /\ UNCHANGED faults
        \/ Fault /\ request' = [request EXCEPT ![q] = [@ EXCEPT !.pc = "write"]]
     /\ UNCHANGED <<queueVars, trustVars, ledger, carried>>

(* An insert meets the unique key when a row has appeared since the read,  *)
(* an update overwrites whatever was written since.  Errors are ignored.   *)
Persist(r) == IF r.snap = NoRow /\ row # NoRow THEN row ELSE Calibrated(r)

WriteThreshold(q) ==
  /\ request[q].pc = "write"
  /\ \/ row' = Persist(request[q]) /\ UNCHANGED faults
     \/ Fault /\ UNCHANGED row
  /\ request' = [request EXCEPT
       ![q] = [@ EXCEPT !.pc = "log", !.snap = NoRow, !.recent = 0]]
  /\ UNCHANGED <<queueVars, rule, ledger, carried>>

(* Either read of the threshold throws: the rest of this decision is       *)
(* skipped, and the batch goes on to the next one.                         *)
ThresholdThrew(q) ==
  /\ request[q].pc \in {"calibrate", "log"}
  /\ Fault
  /\ request' = [request EXCEPT ![q] = Resumed(@, @.target, FALSE)]
  /\ UNCHANGED <<queueVars, trustVars, ledger, carried>>

LogDecision(q) ==
  /\ request[q].pc = "log"
  /\ \/ /\ ledger' = ledger \cup {<<Event(request[q]), request[q].target>>}
        /\ UNCHANGED faults
     \/ Fault /\ UNCHANGED ledger
  /\ request' = [request EXCEPT ![q] = Resumed(@, @.target, TRUE)]
  /\ UNCHANGED <<queueVars, trustVars, carried>>

LogBatch(q) ==
  /\ request[q].pc = "log_batch"
  /\ \/ /\ ledger' = ledger \cup ({"approval_batch_approved"}
                                    \X request[q].listed)
        /\ UNCHANGED faults
     \/ Fault /\ UNCHANGED ledger
  /\ request' = [request EXCEPT ![q] = Blank("done")]
  /\ UNCHANGED <<queueVars, trustVars, carried>>

(* The process dies: what it has not done stays undone.                    *)
Crash(q) ==
  /\ request[q].pc \notin {"idle", "done"}
  /\ Fault
  /\ request' = [request EXCEPT ![q] = Blank("done")]
  /\ UNCHANGED <<queueVars, trustVars, ledger, carried>>

----------------------------------------------------------------------------
(* setOverride upserts the rule; a new row gets the column defaults, whose *)
(* threshold is the ceiling and not the category's own default.            *)
SetOverride ==
  /\ rule' \in Rules \ {rule}
  /\ row' = IF row = NoRow THEN [VirtualDefault EXCEPT !.threshold = Ceiling]
                           ELSE row
  /\ UNCHANGED <<queueVars, ledger, request, carried, faults>>

Step(q) ==
  \/ \E a \in Approvals : ClaimWon(q, a) \/ ClaimLost(q, a) \/ ClaimThrew(q, a)
  \/ Execute(q) \/ FlagRow(q) \/ ReadThreshold(q) \/ CountRejections(q)
  \/ WriteThreshold(q) \/ ThresholdThrew(q) \/ LogDecision(q) \/ LogBatch(q)

Next ==
  \/ \E a \in Approvals : Evaluate(a) \/ Submit(a) \/ ExpirePending(a)
  \/ \E q \in Requests :
       Decide(q) \/ DecideBatch(q) \/ Flag(q) \/ Step(q) \/ Crash(q)
  \/ SetOverride

Spec == Init /\ [][Next]_vars

----------------------------------------------------------------------------
(* Properties *)

TypeOK ==
  /\ status \in [Approvals -> Statuses]
  /\ type \in [Approvals -> Types]
  /\ seen \in [Approvals -> [threshold : 0..Ceiling, rule : Rules]]
  /\ row \in ThresholdRow \cup {NoRow}
  /\ rule \in Rules
  /\ request \in [Requests -> RequestState]
  /\ carried \in [Approvals -> Nat]
  /\ faults \in 0..MaxFaults

Approved == {a \in Approvals : status[a] = "approved"}

(* "This runs at most once per approval" (execute-approved-action.ts): a   *)
(* double click, a batch and a Slack card on the same approval send its    *)
(* message or publish its content once.                                    *)
CarriedOutOnce == \A a \in Approvals : carried[a] <= 1

(* An action the customer rejected, let expire or never decided is not     *)
(* carried out, whichever request lost the race for the row.               *)
CarriedWasApproved ==
  \A a \in Approvals : carried[a] > 0 => status[a] = "approved"

(* The claims, the races for them, the batches that lose one and the       *)
(* failures in between come to ApprovalGate: each approval is submitted    *)
(* once and decided once, and its action is started once, after that.  A   *)
(* row is submitted when it is inserted.                                   *)
Gate == INSTANCE ApprovalGate WITH
  verdict <- [a \in Approvals |->
                IF status[a] = "evaluating" THEN "none" ELSE status[a]]
ImplementsGate == Gate!Spec

(* Concurrent calibrations may lose a decision but never count one twice:  *)
(* the trust in a category rests on approvals the customer gave.           *)
TrustIsBacked ==
  row # NoRow => /\ row.streak <= row.approvals
                 /\ row.approvals <= Cardinality(Approved)

(* A threshold below where the category started was earned by at least as  *)
(* many approvals as the first milestone asks for.                         *)
TrustIsEarned ==
  row # NoRow /\ row.threshold < Default =>
    \E m \in Milestones : Cardinality(Approved) >= m

(* The counters and the threshold rest on approvals the customer gave.     *)
TrustRestsOnApprovals == TrustIsBacked /\ TrustIsEarned

(* The Ledger claims no decision that the queue does not show.             *)
LedgerTellsTruth ==
  \A a \in Approvals :
    /\ \/ <<"approval_approved", a>> \in ledger
       \/ <<"approval_approved_with_edits", a>> \in ledger
       => status[a] = "approved"
    /\ <<"approval_rejected", a>> \in ledger => status[a] = "rejected"
    /\ <<"approval_expired", a>> \in ledger => status[a] = "expired"
    /\ <<"approval_batch_approved", a>> \in ledger => status[a] # "pending"

(* "approved -> flagged (user later flags as wrong)", the spec says of the *)
(* status: what the Ledger reports as flagged shows as flagged.            *)
FlagTakesEffect ==
  \A a \in Approvals :
    <<"approval_flagged", a>> \in ledger => status[a] = "flagged"

(* "Trust expansion: 20 consecutive clean -> -5pts" (threshold-math.ts):   *)
(* nothing else lowers the bar for acting without the customer.            *)
TrustGrowsOnlyByStreak ==
  [][row # NoRow /\ row'.threshold < row.threshold
       => row'.streak \in Milestones]_row
==============================================================================

--------------------------- MODULE GrantLifecycle ---------------------------
(***************************************************************************)
(* The lifecycle of Authority Grants: the customer's decisions on a        *)
(* proposal (apps/id lib/approvals/authority-grant.ts, reached through the *)
(* approvals route and learning-loop.ts), the customer's pause, resume,    *)
(* revoke and narrow (lib/cortex/authority/lifecycle.ts), the proposal RPC *)
(* and the hourly expire-cron, over the rows of one account and under the  *)
(* transition triggers of migrations 00033 and 00050.                      *)
(*                                                                         *)
(* A request is one server call.  It is a chain of statements with an      *)
(* await between any two, so requests and the cron interleave between      *)
(* statements, and a request may stop after any of them: at[r] is the      *)
(* statement it runs next.                                                 *)
(***************************************************************************)
EXTENDS Naturals, FiniteSets

CONSTANTS
  Grants,     \* rows of kinetiks_authority_grants, each with its approval row
  NoGrant,    \* no grant
  Requests,   \* server calls
  NoRequest,  \* the customer of a grant has not decided
  MaxFaults   \* bound: failed statements and crashes explored

ASSUME GrantAssumption ==
  /\ NoGrant \notin Grants
  /\ NoRequest \notin Requests
  /\ MaxFaults \in Nat

VARIABLES
  status,       \* grant -> status, "none" before it is inserted
  reason,       \* grant -> revocation_reason
  grantedAt,    \* grant -> granted_at, as a rank; 0 is null
  clock,        \* the latest rank given
  lapsed,       \* grants whose expires_at has passed
  predecessor,  \* grant -> the grant it was proposed to replace
  proposedBy,   \* grant -> the source named by proposed_by_agent
  approval,     \* grant -> status of its proposal's kinetiks_approvals row
  due,          \* grants whose approval row's expires_at has passed
  ledger,       \* grant -> authority_grant_* events in kinetiks_ledger
  decidedBy,    \* grant -> the request that took it out of proposed (history)
  verdict,      \* grant -> what that request decided (history)
  op,           \* request -> the operation it runs
  target,       \* request -> the grant it runs on
  at,           \* request -> its next statement
  faults        \* failures so far

grantVars == <<status, reason, grantedAt, clock, predecessor, proposedBy>>
timeVars == <<lapsed, due>>
historyVars == <<decidedBy, verdict>>
requestVars == <<op, target>>
vars == <<grantVars, timeVars, approval, ledger, historyVars, requestVars, at,
          faults>>

Statuses == {"none", "proposed", "active", "paused", "revoked", "expired"}
Reasons == {"none", "customer_revoked", "customer_edited", "customer_narrowed"}
Decisions == {"approve", "reject", "edit"}
Operations == Decisions \cup {"pause", "resume", "revoke", "narrow"}
Events == {"approved", "revoked", "narrowed", "paused", "resumed", "expired"}
Waiting == {"proposing", "writing", "marking", "logging", "settling"}

TypeOK ==
  /\ status \in [Grants -> Statuses]
  /\ reason \in [Grants -> Reasons]
  /\ grantedAt \in [Grants -> Nat]
  /\ clock \in Nat
  /\ lapsed \in SUBSET Grants
  /\ predecessor \in [Grants -> Grants \cup {NoGrant}]
  /\ proposedBy \in [Grants -> {"agent", "customer_edit", "customer_narrow"}]
  /\ approval \in
       [Grants -> {"none", "pending", "approved", "rejected", "expired"}]
  /\ due \in SUBSET Grants
  /\ ledger \in [Grants -> SUBSET Events]
  /\ decidedBy \in [Grants -> Requests \cup {NoRequest}]
  /\ verdict \in [Grants -> Decisions \cup {"none", "default"}]
  /\ op \in [Requests -> Operations \cup {"none"}]
  /\ target \in [Requests -> Grants \cup {NoGrant}]
  /\ at \in [Requests -> Waiting \cup {"idle", "done", "failed"}]
  /\ faults \in 0..MaxFaults

Init ==
  /\ status = [g \in Grants |-> "none"]
  /\ reason = [g \in Grants |-> "none"]
  /\ grantedAt = [g \in Grants |-> 0]
  /\ clock = 0
  /\ lapsed = {}
  /\ predecessor = [g \in Grants |-> NoGrant]
  /\ proposedBy = [g \in Grants |-> "agent"]
  /\ approval = [g \in Grants |-> "none"]
  /\ due = {}
  /\ ledger = [g \in Grants |-> {}]
  /\ decidedBy = [g \in Grants |-> NoRequest]
  /\ verdict = [g \in Grants |-> "none"]
  /\ op = [r \in Requests |-> "none"]
  /\ target = [r \in Requests |-> NoGrant]
  /\ at = [r \in Requests |-> "idle"]
  /\ faults = 0

----------------------------------------------------------------------------
(* What an operation does *)

Goto(r, l) == at' = [at EXCEPT ![r] = l]
InFlight(g) == {r \in Requests : target[r] = g /\ at[r] \in Waiting}

(* The row an operation reads before it writes anything: the route refuses *)
(* an approval that is not pending, revoke and narrow a grant in another   *)
(* status; pause and resume only look up the owner.  The mutant narrows    *)
(* without the read.                                                       *)
MayBegin_NarrowUnread(o, g) ==
  \/ o \in Decisions /\ approval[g] = "pending"
  \/ o = "revoke" /\ status[g] \in {"active", "paused"}
  \/ o \in {"pause", "resume", "narrow"} /\ status[g] # "none"
MayBegin(o, g) ==
  \/ o \in Decisions /\ approval[g] = "pending"
  \/ o \in {"revoke", "narrow"} /\ status[g] \in {"active", "paused"}
  \/ o \in {"pause", "resume"} /\ status[g] # "none"

(* The status filter of the operation's UPDATE.  The mutants drop the one  *)
(* of resumeGrant and the one of applyAuthorityGrantReject.                *)
Matches_ResumeAny(o, s) ==
  \/ o \in Decisions /\ s = "proposed"
  \/ o = "pause" /\ s = "active"
  \/ o = "resume"
  \/ o \in {"revoke", "narrow"} /\ s \in {"active", "paused"}
Matches_RejectAny(o, s) ==
  \/ o \in Decisions /\ s = "proposed"
  \/ o = "reject"
  \/ o = "pause" /\ s = "active"
  \/ o = "resume" /\ s = "paused"
  \/ o \in {"revoke", "narrow"} /\ s \in {"active", "paused"}
Matches(o, s) ==
  \/ o \in Decisions /\ s = "proposed"
  \/ o = "pause" /\ s = "active"
  \/ o = "resume" /\ s = "paused"
  \/ o \in {"revoke", "narrow"} /\ s \in {"active", "paused"}

Revokes == {"reject", "edit", "revoke", "narrow"}
Outcome(o) ==
  IF o \in Revokes THEN "revoked" ELSE IF o = "pause" THEN "paused" ELSE "active"

RevocationReason(o) ==
  IF o = "edit" THEN "customer_edited"
  ELSE IF o = "narrow" THEN "customer_narrowed" ELSE "customer_revoked"

Event(o) ==
  IF o = "approve" THEN "approved"
  ELSE IF o = "resume" THEN "resumed" ELSE Outcome(o)

(* The status a decision gives its approval row; the mutant stores the     *)
(* action of the request instead.                                          *)
Settled_Action(o) == o
Settled(o) == IF o = "reject" THEN "rejected" ELSE "approved"

(* An operation that proposes a successor does so before it writes; the    *)
(* mutant goes straight to the write.                                      *)
FirstStatement_Write(o) == "writing"
FirstStatement(o) == IF o \in {"edit", "narrow"} THEN "proposing" ELSE "writing"

(* granted_at is stamped by the approval only, never by a resume. *)
Stamps(o) == o = "approve"

(* What follows a write that matched no row: the operation throws before   *)
(* it reaches the ledger; the mutant does not look.                        *)
Unmatched_Ignored == "logging"
Unmatched == "failed"

(* The ledger entries follow the write, and a decision's approval row      *)
(* follows them.  The mutant approves without a ledger entry.              *)
AfterWrite_SkipsLedger(o) ==
  IF o \in {"edit", "narrow"} THEN "marking"
  ELSE IF o = "approve" THEN "settling" ELSE "logging"
AfterWrite(o) == IF o \in {"edit", "narrow"} THEN "marking" ELSE "logging"
AfterLog(o) == IF o \in Decisions THEN "settling" ELSE "done"

(* The lifecycle trigger of migration 00050. *)
Legal(s, t) ==
  \/ s = t
  \/ s = "proposed" /\ t \in {"active", "revoked"}
  \/ s = "active" /\ t \in {"paused", "revoked", "expired"}
  \/ s = "paused" /\ t \in {"active", "revoked", "expired"}

----------------------------------------------------------------------------
(* Proposals *)

(* propose_authority_grants: the grant and its pending approval, in one    *)
(* transaction.                                                            *)
InsertProposal(h, g, source) ==
  /\ status[h] = "none"
  /\ status' = [status EXCEPT ![h] = "proposed"]
  /\ predecessor' = [predecessor EXCEPT ![h] = g]
  /\ proposedBy' = [proposedBy EXCEPT ![h] = source]
  /\ approval' = [approval EXCEPT ![h] = "pending"]
  /\ UNCHANGED <<reason, grantedAt, clock>>

AgentProposes(h) ==
  /\ InsertProposal(h, NoGrant, "agent")
  /\ UNCHANGED <<timeVars, ledger, historyVars, requestVars, at, faults>>

(* accept_default_standing_grants: inserted active, with its ledger rows,  *)
(* in one transaction; the signup gesture is the approval.                 *)
AcceptDefault(h) ==
  /\ status[h] = "none"
  /\ status' = [status EXCEPT ![h] = "active"]
  /\ clock' = clock + 1
  /\ grantedAt' = [grantedAt EXCEPT ![h] = clock + 1]
  /\ ledger' = [ledger EXCEPT ![h] = @ \cup {"approved"}]
  /\ verdict' = [verdict EXCEPT ![h] = "default"]
  /\ UNCHANGED <<reason, predecessor, proposedBy, timeVars, approval, decidedBy,
                 requestVars, at, faults>>

----------------------------------------------------------------------------
(* Requests *)

Begin(r, o, g) ==
  /\ at[r] = "idle"
  /\ MayBegin(o, g)
  /\ op' = [op EXCEPT ![r] = o]
  /\ target' = [target EXCEPT ![r] = g]
  /\ Goto(r, FirstStatement(o))
  /\ UNCHANGED <<grantVars, timeVars, approval, ledger, historyVars, faults>>

(* Edit and narrow: the successor through the same RPC the agent uses. *)
ProposeSuccessor(r, h) ==
  /\ at[r] = "proposing"
  /\ InsertProposal(h, target[r],
       IF op[r] = "edit" THEN "customer_edit" ELSE "customer_narrow")
  /\ Goto(r, "writing")
  /\ UNCHANGED <<timeVars, ledger, historyVars, requestVars, faults>>

Applies(o, g) == Matches(o, status[g]) /\ Legal(status[g], Outcome(o))

(* UPDATE kinetiks_authority_grants ... .eq/.in("status", filter): it      *)
(* matches a row, or the operation throws, as it does when the trigger     *)
(* raises.                                                                 *)
Write(r) ==
  LET g == target[r]  o == op[r]
  IN
  /\ at[r] = "writing"
  /\ \/ /\ Applies(o, g)
        /\ status' = [status EXCEPT ![g] = Outcome(o)]
        /\ reason' = [reason EXCEPT ![g] =
             IF o \in Revokes THEN RevocationReason(o) ELSE @]
        /\ clock' = IF Stamps(o) THEN clock + 1 ELSE clock
        /\ grantedAt' = [grantedAt EXCEPT ![g] =
             IF Stamps(o) THEN clock + 1 ELSE @]
        /\ IF o \in Decisions
           THEN /\ verdict' = [verdict EXCEPT ![g] = o]
                /\ decidedBy' = [decidedBy EXCEPT ![g] = r]
           ELSE UNCHANGED historyVars
        /\ Goto(r, AfterWrite(o))
     \/ /\ ~Applies(o, g)
        /\ Goto(r, Unmatched)
        /\ UNCHANGED <<status, reason, clock, grantedAt, historyVars>>
  /\ UNCHANGED <<predecessor, proposedBy, timeVars, approval, ledger, requestVars,
                 faults>>

(* The authority_grant_narrowed entry of an edit or a narrow. *)
LogNarrowed(r) ==
  /\ at[r] = "marking"
  /\ ledger' = [ledger EXCEPT ![target[r]] = @ \cup {"narrowed"}]
  /\ Goto(r, "logging")
  /\ UNCHANGED <<grantVars, timeVars, approval, historyVars, requestVars, faults>>

LogOutcome(r) ==
  /\ at[r] = "logging"
  /\ ledger' = [ledger EXCEPT ![target[r]] = @ \cup {Event(op[r])}]
  /\ Goto(r, AfterLog(op[r]))
  /\ UNCHANGED <<grantVars, timeVars, approval, historyVars, requestVars, faults>>

(* UPDATE kinetiks_approvals by id: no filter on its status, so the        *)
(* trigger of migration 00033 raises when the row is terminal.             *)
SettleApproval(r) ==
  LET g == target[r]
  IN
  /\ at[r] = "settling"
  /\ \/ /\ approval[g] \in {"pending", Settled(op[r])}
        /\ approval' = [approval EXCEPT ![g] = Settled(op[r])]
        /\ Goto(r, "done")
     \/ /\ approval[g] \notin {"pending", Settled(op[r])}
        /\ Goto(r, "failed")
        /\ UNCHANGED approval
  /\ UNCHANGED <<grantVars, timeVars, ledger, historyVars, requestVars, faults>>

(* The next statement fails, or the process is gone before it, or the      *)
(* reply of the previous one was lost: the operation throws where it is.   *)
Fail(r) ==
  /\ at[r] \in Waiting
  /\ faults < MaxFaults
  /\ faults' = faults + 1
  /\ Goto(r, "failed")
  /\ UNCHANGED <<grantVars, timeVars, approval, ledger, historyVars, requestVars>>

----------------------------------------------------------------------------
(* expire-cron *)

(* Section 4: one UPDATE over every pending approval past its expires_at;  *)
(* the mutant compares the expires_at of the grant.                        *)
Overdue_ByGrant == {g \in lapsed : approval[g] = "pending"}
Overdue == {g \in due : approval[g] = "pending"}
SweepApprovals ==
  /\ Overdue # {}
  /\ approval' = [g \in Grants |-> IF g \in Overdue THEN "expired" ELSE approval[g]]
  /\ UNCHANGED <<grantVars, timeVars, ledger, historyVars, requestVars, at, faults>>

(* Section 5: one UPDATE over the active and paused grants past their      *)
(* expires_at, then the ledger rows, whose failure is logged and ignored.  *)
(* The mutants leave paused grants alone, and do not look at expires_at.   *)
Expirable_ActiveOnly == {g \in lapsed : status[g] = "active"}
Expirable_Early == {g \in Grants : status[g] \in {"active", "paused"}}
Expirable == {g \in lapsed : status[g] \in {"active", "paused"}}
SweepGrants ==
  /\ Expirable # {}
  /\ status' = [g \in Grants |-> IF g \in Expirable THEN "expired" ELSE status[g]]
  /\ \/ /\ ledger' = [g \in Grants |->
             ledger[g] \cup IF g \in Expirable THEN {"expired"} ELSE {}]
        /\ UNCHANGED faults
     \/ /\ faults < MaxFaults
        /\ faults' = faults + 1
        /\ UNCHANGED ledger
  /\ UNCHANGED <<reason, grantedAt, clock, predecessor, proposedBy, timeVars, approval,
                 historyVars, requestVars, at>>

(* expires_at of a grant, and of its approval row, passes; either may be   *)
(* null and never do so, as the one of a default grant is.                 *)
Lapse(g) ==
  /\ status[g] # "none" /\ verdict[g] # "default" /\ g \notin lapsed
  /\ lapsed' = lapsed \cup {g}
  /\ UNCHANGED <<grantVars, due, approval, ledger, historyVars, requestVars, at,
                 faults>>

FallDue(g) ==
  /\ approval[g] # "none" /\ g \notin due
  /\ due' = due \cup {g}
  /\ UNCHANGED <<grantVars, lapsed, approval, ledger, historyVars, requestVars,
                 at, faults>>

Statement(r) ==
  \/ \E h \in Grants : ProposeSuccessor(r, h)
  \/ Write(r) \/ LogNarrowed(r) \/ LogOutcome(r) \/ SettleApproval(r)

Next ==
  \/ \E h \in Grants : AgentProposes(h) \/ AcceptDefault(h)
  \/ \E r \in Requests :
        \/ \E o \in Operations, g \in Grants : Begin(r, o, g)
        \/ Statement(r)
        \/ Fail(r)
  \/ SweepApprovals \/ SweepGrants
  \/ \E g \in Grants : Lapse(g) \/ FallDue(g)

Spec == Init /\ [][Next]_vars

(* expire-cron is scheduled every hour (migration 00045): a sweep that     *)
(* fails is run again.  Nothing makes the customer, the agent or the rest  *)
(* of a request move.                                                      *)
FairSpec == Spec /\ WF_vars(SweepApprovals) /\ WF_vars(SweepGrants)
----------------------------------------------------------------------------
(* Properties *)

(* Seen from the resolver, which reads nothing but a grant's status and    *)
(* expires_at, all of this is StandingGrants: the environment AgentRuntime *)
(* assumes.  A row that is not inserted yet covers nothing, as a proposed  *)
(* one; a signup default is proposed and approved in one step.             *)
Standing == INSTANCE StandingGrants WITH
  status <- [g \in Grants |->
               IF status[g] = "none" THEN "proposed" ELSE status[g]]
KeepsStandingGrants == Standing!Spec

(* A grant covers actions only after its customer approved it, as proposed *)
(* or at signup, and nothing a request or the cron did since changed that  *)
(* decision.                                                               *)
ActiveWasApproved ==
  \A g \in Grants :
    status[g] \in {"active", "paused"} => verdict[g] \in {"approve", "default"}

(* Concurrent approve, reject and edit calls read the same pending row:    *)
(* one of them decides, and no later one decides again.                    *)
OneVerdict ==
  [][\A g \in Grants :
       verdict[g] # "none" => UNCHANGED <<verdict[g], decidedBy[g]>>]_vars

(* The approval row never shows a decision that is not the one the grant   *)
(* took: the losers of the race never settle it.                           *)
ApprovalTellsTruth ==
  \A g \in Grants :
    /\ approval[g] = "approved" => verdict[g] \in {"approve", "edit"}
    /\ approval[g] = "rejected" => verdict[g] = "reject"

(* The customer's verdict is what the grant and its approval row follow.   *)
VerdictIsFollowed == ActiveWasApproved /\ ApprovalTellsTruth

(* When a narrowed grant and its approved successor are both active (the   *)
(* revocation failed), the resolver's tie-breaker, the latest granted_at,  *)
(* picks the successor; pausing and resuming the original never changes    *)
(* that.                                                                   *)
Replaces(h, g) == predecessor[h] = g /\ proposedBy[h] = "customer_narrow"
SuccessorOutranks ==
  \A g, h \in Grants :
    Replaces(h, g) /\ status[g] = "active" /\ status[h] = "active" =>
      grantedAt[h] > grantedAt[g]

(* A grant is revoked by an edit or a narrow only once its successor is in *)
(* the queue, whatever failed in between.                                  *)
ReplacedHasSuccessor ==
  \A g \in Grants :
    reason[g] \in {"customer_edited", "customer_narrowed"} =>
      \E h \in Grants : predecessor[h] = g

(* Replacing a grant neither loses it nor lets it win over its successor.  *)
SuccessionHolds == ReplacedHasSuccessor /\ SuccessorOutranks

(* No ledger entry claims a transition that did not happen, whichever      *)
(* request lost the race for it.                                           *)
LedgerTellsTruth ==
  \A g \in Grants :
    /\ "approved" \in ledger[g] => verdict[g] \in {"approve", "default"}
    /\ "revoked" \in ledger[g] => status[g] = "revoked"
    /\ "expired" \in ledger[g] => status[g] = "expired"
    /\ "narrowed" \in ledger[g] =>
         reason[g] \in {"customer_edited", "customer_narrowed"}

Logged(g) ==
  /\ verdict[g] = "approve" => "approved" \in ledger[g]
  /\ status[g] \in {"paused", "revoked", "expired"} => status[g] \in ledger[g]

(* Without a failure, every transition is in the ledger as soon as no      *)
(* request is running on the grant.                                        *)
AuditDriftsOnlyByFault ==
  faults = 0 => \A g \in Grants : InFlight(g) = {} => Logged(g)

(* The audit trail invents nothing, and misses nothing unless a statement  *)
(* failed.                                                                 *)
AuditTellsTruth == LedgerTellsTruth /\ AuditDriftsOnlyByFault

(* Every grant past its expires_at is retired, the paused ones included,   *)
(* and no proposal waits in the queue past its deadline.                   *)
DeadlinesAreMet ==
  \A g \in Grants :
    /\ g \in lapsed /\ status[g] \in {"active", "paused"}
         ~> status[g] \in {"revoked", "expired"}
    /\ g \in due /\ approval[g] = "pending" ~> approval[g] # "pending"
=============================================================================

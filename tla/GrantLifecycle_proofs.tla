----------------------- MODULE GrantLifecycle_proofs -----------------------
(***************************************************************************)
(* Proofs about GrantLifecycle, for every set of grants and requests and   *)
(* every number of failures.                                               *)
(*                                                                         *)
(* The invariant ties each request to its grant: what a request that has   *)
(* reached its ledger or approval statement has already done to the grant, *)
(* and that nothing can undo since.  A grant leaves "proposed" once, so    *)
(* the requests that lose a race never get past their write.               *)
(***************************************************************************)
EXTENDS GrantLifecycle, TLAPS

Replaced(g) == reason[g] \in {"customer_edited", "customer_narrowed"}

----------------------------------------------------------------------------
(* The inductive invariant *)

(* A row that is not inserted yet is blank, and replaced by nothing. *)
UnbornIsBlank(g) ==
  status[g] = "none" => /\ approval[g] = "none" /\ ledger[g] = {}
                        /\ predecessor[g] = NoGrant
UndecidedIsBlank(g) ==
  status[g] \in {"none", "proposed"} <=> verdict[g] = "none"
UngrantedIsUnranked(g) ==
  /\ status[g] \in {"none", "proposed"} => grantedAt[g] = 0
  /\ status[g] \in {"active", "paused"} => grantedAt[g] > 0
  /\ grantedAt[g] <= clock
LiveWasApproved(g) ==
  status[g] \in {"active", "paused", "expired"}
    => verdict[g] \in {"approve", "default"}
RevokedHasReason(g) == reason[g] # "none" => status[g] = "revoked"
ReplacedIsFollowed(g) == Replaced(g) => \E h \in Grants : predecessor[h] = g
SuccessorIsLater(h) ==
  \A g \in Grants :
    Replaces(h, g) => grantedAt[g] > 0
                      /\ (grantedAt[h] = 0 \/ grantedAt[h] > grantedAt[g])

(* What a request has done by the time it waits at a statement. *)
Aimed(r) ==
  at[r] \in Waiting => /\ op[r] \in Operations /\ target[r] \in Grants
                       /\ status[target[r]] # "none"
Proposing(r) ==
  /\ at[r] = "proposing" => op[r] \in {"edit", "narrow"}
  /\ at[r] \in {"proposing", "writing"} /\ op[r] = "narrow"
       => grantedAt[target[r]] > 0
  /\ at[r] = "writing" /\ op[r] \in {"edit", "narrow"}
       => \E h \in Grants : predecessor[h] = target[r]
Marking(r) == at[r] = "marking" => Replaced(target[r])
Decided(r) ==
  at[r] \in {"marking", "logging", "settling"} /\ op[r] \in Decisions
    => verdict[target[r]] = op[r]
Logging(r) ==
  at[r] \in {"marking", "logging"} /\ Outcome(op[r]) = "revoked"
    => status[target[r]] = "revoked"
Settling(r) == at[r] = "settling" => op[r] \in Decisions

GrantSane(g) ==
  /\ UnbornIsBlank(g) /\ UndecidedIsBlank(g) /\ UngrantedIsUnranked(g)
  /\ LiveWasApproved(g) /\ RevokedHasReason(g) /\ ReplacedIsFollowed(g)
  /\ SuccessorIsLater(g)
RequestSane(r) ==
  /\ Aimed(r) /\ Proposing(r) /\ Marking(r) /\ Decided(r)
  /\ Logging(r) /\ Settling(r)

IInv ==
  /\ TypeOK
  /\ \A g \in Grants : GrantSane(g)
  /\ \A r \in Requests : RequestSane(r)
  /\ ApprovalTellsTruth
  /\ LedgerTellsTruth

----------------------------------------------------------------------------
(* Type correctness *)

(* What the tables say of an operation. *)
LEMMA OperationFacts ==
  ASSUME NEW o \in Operations
  PROVE  /\ Outcome(o) \in {"active", "paused", "revoked"}
         /\ Outcome(o) = "revoked" <=> o \in Revokes
         /\ Outcome(o) = "active" <=> o \in {"approve", "resume"}
         /\ RevocationReason(o) \in Reasons \ {"none"}
         /\ o = "edit" <=> RevocationReason(o) = "customer_edited"
         /\ o = "narrow" <=> RevocationReason(o) = "customer_narrowed"
         /\ Event(o) \in {"approved", "resumed", "paused", "revoked"}
         /\ Event(o) = "approved" => o = "approve"
         /\ Event(o) = "revoked" => o \in Revokes
         /\ Settled(o) \in {"approved", "rejected"}
         /\ Settled(o) = "rejected" <=> o = "reject"
         /\ FirstStatement(o) = IF o \in {"edit", "narrow"} THEN "proposing"
                                ELSE "writing"
         /\ AfterWrite(o) = IF o \in {"edit", "narrow"} THEN "marking"
                            ELSE "logging"
         /\ AfterLog(o) = IF o \in Decisions THEN "settling" ELSE "done"
BY DEF Operations, Decisions, Outcome, RevocationReason, Reasons, Revokes,
       Event, Settled, FirstStatement, AfterWrite, AfterLog

LEMMA InitIsSane == Init => IInv
<1> SUFFICES ASSUME Init PROVE IInv
  OBVIOUS
<1>1. TypeOK
  BY GrantAssumption DEF Init, TypeOK, Statuses, Reasons, Events, Waiting
<1>2. \A g \in Grants : GrantSane(g)
  BY GrantAssumption
     DEF Init, GrantSane, UnbornIsBlank, UndecidedIsBlank, UngrantedIsUnranked,
         LiveWasApproved, RevokedHasReason, ReplacedIsFollowed, Replaced,
         SuccessorIsLater, Replaces
<1>3. \A r \in Requests : RequestSane(r)
  BY DEF Init, RequestSane, Aimed, Proposing, Marking, Decided, Logging,
         Settling, Waiting
<1> QED
  BY <1>1, <1>2, <1>3 DEF IInv, Init, ApprovalTellsTruth, LedgerTellsTruth

LEMMA TypeStep ==
  ASSUME IInv, [Next]_vars PROVE TypeOK'
<1> USE GrantAssumption DEF Goto, grantVars, timeVars, historyVars, requestVars
<1>1. TypeOK
  BY DEF IInv
<1>2. ASSUME NEW h \in Grants, AgentProposes(h) PROVE TypeOK'
  BY <1>1, <1>2 DEF AgentProposes, InsertProposal, TypeOK, Statuses
<1>3. ASSUME NEW h \in Grants, AcceptDefault(h) PROVE TypeOK'
  BY <1>1, <1>3 DEF AcceptDefault, TypeOK, Statuses, Events
<1>4. ASSUME NEW r \in Requests, NEW o \in Operations, NEW g \in Grants,
             Begin(r, o, g)
      PROVE  TypeOK'
  <2>1. FirstStatement(o) \in Waiting
    BY OperationFacts DEF Waiting
  <2> QED
    BY <1>1, <1>4, <2>1 DEF Begin, TypeOK
<1>5. ASSUME NEW r \in Requests, NEW h \in Grants, ProposeSuccessor(r, h)
      PROVE  TypeOK'
  <2>1. target[r] \in Grants
    BY <1>5 DEF IInv, RequestSane, Aimed, ProposeSuccessor, Waiting
  <2> QED
    BY <1>1, <1>5, <2>1
       DEF ProposeSuccessor, InsertProposal, TypeOK, Statuses, Waiting
<1>6. ASSUME NEW r \in Requests, Write(r) PROVE TypeOK'
  <2>1. op[r] \in Operations /\ target[r] \in Grants
    BY <1>6 DEF IInv, RequestSane, Aimed, Write, Waiting
  <2>2. /\ Outcome(op[r]) \in Statuses /\ RevocationReason(op[r]) \in Reasons
        /\ AfterWrite(op[r]) \in Waiting
    BY <2>1, OperationFacts DEF Statuses, Waiting
  <2>3. CASE Applies(op[r], target[r])
    BY <1>1, <1>6, <2>1, <2>2, <2>3 DEF Write, TypeOK
  <2>4. CASE ~Applies(op[r], target[r])
    BY <1>1, <1>6, <2>4 DEF Write, TypeOK, Unmatched
  <2> QED
    BY <2>3, <2>4
<1>7. ASSUME NEW r \in Requests, LogNarrowed(r) \/ LogOutcome(r) PROVE TypeOK'
  <2>1. op[r] \in Operations /\ target[r] \in Grants
    BY <1>7 DEF IInv, RequestSane, Aimed, LogNarrowed, LogOutcome, Waiting
  <2>2. Event(op[r]) \in Events /\ AfterLog(op[r]) \in Waiting \cup {"done"}
    BY <2>1, OperationFacts DEF Events, Waiting
  <2> QED
    BY <1>1, <1>7, <2>1, <2>2
       DEF LogNarrowed, LogOutcome, TypeOK, Events, Waiting
<1>8. ASSUME NEW r \in Requests, SettleApproval(r) \/ Fail(r) PROVE TypeOK'
  <2>1. at[r] \in Waiting => op[r] \in Operations
    BY DEF IInv, RequestSane, Aimed
  <2>2. SettleApproval(r) => Settled(op[r]) \in {"approved", "rejected"}
    BY <2>1, OperationFacts DEF SettleApproval, Waiting
  <2> QED
    BY <1>1, <1>8, <2>2 DEF SettleApproval, Fail, TypeOK
<1>9. CASE SweepApprovals \/ SweepGrants
  BY <1>1, <1>9 DEF SweepApprovals, SweepGrants, TypeOK, Statuses, Events
<1>10. ASSUME NEW g \in Grants, Lapse(g) \/ FallDue(g) PROVE TypeOK'
  BY <1>1, <1>10 DEF Lapse, FallDue, TypeOK
<1>11. CASE UNCHANGED vars
  BY <1>1, <1>11 DEF vars, TypeOK
<1> QED
  BY <1>2, <1>3, <1>4, <1>5, <1>6, <1>7, <1>8, <1>9, <1>10, <1>11
     DEF Next, Statement

----------------------------------------------------------------------------
(* The steps *)

(* A new proposal takes a blank row: nothing that was there moves.         *)
LEMMA InsertIsSane ==
  ASSUME IInv, NEW h \in Grants, NEW g \in Grants \cup {NoGrant}, NEW source,
         InsertProposal(h, g, source), UNCHANGED <<ledger, historyVars>>,
         g # NoGrant => status[g] # "none",
         g # NoGrant /\ source = "customer_narrow" => grantedAt[g] > 0
  PROVE  /\ \A k \in Grants : GrantSane(k)'
         /\ \A k \in Grants : status[k] # "none" =>
              status'[k] = status[k] /\ predecessor'[k] = predecessor[k]
<1> USE GrantAssumption DEF IInv, TypeOK, InsertProposal, historyVars
<1>1. \A k \in Grants : status[k] # "none" =>
        status'[k] = status[k] /\ predecessor'[k] = predecessor[k]
  OBVIOUS
<1>2. ASSUME NEW k \in Grants PROVE GrantSane(k)'
  <2>1. GrantSane(k) /\ GrantSane(h)
    OBVIOUS
  <2>2. UnbornIsBlank(k)' /\ UndecidedIsBlank(k)' /\ UngrantedIsUnranked(k)'
    BY <2>1 DEF GrantSane, UnbornIsBlank, UndecidedIsBlank, UngrantedIsUnranked
  <2>3. LiveWasApproved(k)' /\ RevokedHasReason(k)'
    BY <2>1 DEF GrantSane, LiveWasApproved, RevokedHasReason
  <2>4. ReplacedIsFollowed(k)'
    <3> SUFFICES ASSUME Replaced(k)' PROVE \E j \in Grants : predecessor'[j] = k
      BY DEF ReplacedIsFollowed
    <3>1. PICK j \in Grants : predecessor[j] = k
      BY <2>1 DEF GrantSane, ReplacedIsFollowed, Replaced
    <3>2. status[j] # "none"
      BY <3>1 DEF GrantSane, UnbornIsBlank
    <3> QED
      BY <1>1, <3>1, <3>2
  <2>5. SuccessorIsLater(k)'
    <3> SUFFICES ASSUME NEW j \in Grants, Replaces(k, j)'
                 PROVE  grantedAt[j] > 0
                        /\ (grantedAt[k] = 0 \/ grantedAt[k] > grantedAt[j])
      BY DEF SuccessorIsLater
    <3>1. CASE k = h
      BY <2>1, <3>1 DEF Replaces, GrantSane, UngrantedIsUnranked
    <3>2. CASE k # h
      BY <2>1, <3>2 DEF Replaces, GrantSane, SuccessorIsLater
    <3> QED
      BY <3>1, <3>2
  <2> QED
    BY <2>2, <2>3, <2>4, <2>5 DEF GrantSane
<1> QED
  BY <1>1, <1>2

(* While a grant keeps its row, its requests keep what they know of it.    *)
LEMMA RequestKeeps ==
  ASSUME IInv, NEW r \in Requests, at'[r] = at[r], op'[r] = op[r],
         target'[r] = target[r],
         at[r] \in Waiting =>
           LET g == target[r]
           IN  /\ status[g] # "none" => status'[g] # "none"
               /\ grantedAt[g] > 0 => grantedAt'[g] > 0
               /\ Replaced(g) => Replaced(g)'
               /\ status[g] = "revoked" => status'[g] = "revoked"
               /\ verdict[g] # "none" => verdict'[g] = verdict[g]
               /\ (\E h \in Grants : predecessor[h] = g)
                    => \E h \in Grants : predecessor'[h] = g
  PROVE  RequestSane(r)'
<1>1. RequestSane(r)
  BY DEF IInv
<1>2. Aimed(r)' /\ Proposing(r)' /\ Marking(r)' /\ Settling(r)'
  BY <1>1 DEF RequestSane, Aimed, Proposing, Marking, Settling, Waiting
<1>3. Decided(r)'
  BY <1>1 DEF RequestSane, Decided, Waiting, Decisions
<1>4. Logging(r)'
  BY <1>1 DEF RequestSane, Logging, Waiting, Outcome, Revokes
<1> QED
  BY <1>2, <1>3, <1>4 DEF RequestSane

LEMMA ProposalSteps ==
  ASSUME IInv, NEW h \in Grants, AgentProposes(h) \/ AcceptDefault(h),
         TypeOK'
  PROVE  IInv'
<1> USE GrantAssumption DEF IInv, historyVars, requestVars, timeVars
<1>1. CASE AgentProposes(h)
  <2> USE <1>1 DEF AgentProposes
  <2>1. /\ \A k \in Grants : GrantSane(k)'
        /\ \A k \in Grants : status[k] # "none" =>
             status'[k] = status[k] /\ predecessor'[k] = predecessor[k]
    BY InsertIsSane
  <2>2. ASSUME NEW r \in Requests PROVE RequestSane(r)'
    BY <2>1, RequestKeeps
       DEF InsertProposal, RequestSane, Aimed, Replaced, GrantSane,
           UnbornIsBlank
  <2>3. ApprovalTellsTruth' /\ LedgerTellsTruth'
    BY <2>1 DEF InsertProposal, TypeOK, ApprovalTellsTruth, LedgerTellsTruth,
                GrantSane, UnbornIsBlank
  <2> QED
    BY <2>1, <2>2, <2>3
<1>2. CASE AcceptDefault(h)
  <2> USE <1>2 DEF AcceptDefault
  <2>0. GrantSane(h)
    OBVIOUS
  <2>1. ASSUME NEW k \in Grants PROVE GrantSane(k)'
    <3>1. GrantSane(k)
      OBVIOUS
    <3>2. UnbornIsBlank(k)' /\ UndecidedIsBlank(k)' /\ UngrantedIsUnranked(k)'
      BY <3>1 DEF TypeOK, GrantSane, UnbornIsBlank, UndecidedIsBlank,
                  UngrantedIsUnranked
    <3>3. LiveWasApproved(k)' /\ RevokedHasReason(k)' /\ ReplacedIsFollowed(k)'
      BY <3>1 DEF TypeOK, GrantSane, LiveWasApproved, RevokedHasReason,
                  ReplacedIsFollowed, Replaced
    <3>4. SuccessorIsLater(k)'
      BY <2>0, <3>1
         DEF TypeOK, GrantSane, SuccessorIsLater, Replaces, UnbornIsBlank,
             UngrantedIsUnranked
    <3> QED
      BY <3>2, <3>3, <3>4 DEF GrantSane
  <2>2. ASSUME NEW r \in Requests PROVE RequestSane(r)'
    BY RequestKeeps, <2>0
       DEF TypeOK, RequestSane, Aimed, Replaced, GrantSane,
           UndecidedIsBlank
  <2>3. ApprovalTellsTruth' /\ LedgerTellsTruth'
    BY <2>0 DEF TypeOK, ApprovalTellsTruth, LedgerTellsTruth, GrantSane,
                UnbornIsBlank
  <2> QED
    BY <2>1, <2>2, <2>3
<1> QED
  BY <1>1, <1>2

LEMMA BeginStep ==
  ASSUME IInv, TypeOK', NEW r \in Requests, NEW o \in Operations,
         NEW g \in Grants, Begin(r, o, g)
  PROVE  IInv'
<1> USE DEF IInv, Begin, Goto, grantVars, historyVars
<1>1. \A k \in Grants : GrantSane(k)'
  BY DEF GrantSane, UnbornIsBlank, UndecidedIsBlank, UngrantedIsUnranked,
         LiveWasApproved, RevokedHasReason, ReplacedIsFollowed, Replaced,
         SuccessorIsLater, Replaces
<1>2. ASSUME NEW q \in Requests, q # r PROVE RequestSane(q)'
  BY <1>2, RequestKeeps DEF TypeOK, Replaced
<1>3. RequestSane(r)'
  <2>1. /\ at'[r] = FirstStatement(o) /\ op'[r] = o /\ target'[r] = g
        /\ status' = status /\ grantedAt' = grantedAt
    BY DEF TypeOK
  <2>2. status[g] # "none"
    BY DEF MayBegin, GrantSane, UnbornIsBlank, Operations
  <2>3. o = "narrow" => grantedAt[g] > 0
    BY DEF MayBegin, GrantSane, UngrantedIsUnranked, Decisions
  <2> QED
    BY <2>1, <2>2, <2>3, OperationFacts
       DEF RequestSane, Aimed, Proposing, Marking, Decided, Logging, Settling
<1> QED
  BY <1>1, <1>2, <1>3 DEF ApprovalTellsTruth, LedgerTellsTruth

LEMMA ProposeSuccessorStep ==
  ASSUME IInv, TypeOK', NEW r \in Requests, NEW h \in Grants,
         ProposeSuccessor(r, h)
  PROVE  IInv'
<1> USE GrantAssumption
    DEF IInv, ProposeSuccessor, Goto, historyVars, requestVars
<1>1. /\ target[r] \in Grants /\ status[target[r]] # "none"
      /\ op[r] \in {"edit", "narrow"}
      /\ op[r] = "narrow" => grantedAt[target[r]] > 0
  BY DEF RequestSane, Aimed, Proposing, Waiting
<1>2. PICK source : /\ InsertProposal(h, target[r], source)
                    /\ source = "customer_narrow" => op[r] = "narrow"
  BY <1>1
<1>3. /\ \A k \in Grants : GrantSane(k)'
      /\ \A k \in Grants : status[k] # "none" =>
           status'[k] = status[k] /\ predecessor'[k] = predecessor[k]
  BY <1>1, <1>2, InsertIsSane
<1>4. ASSUME NEW q \in Requests, q # r PROVE RequestSane(q)'
  BY <1>2, <1>3, <1>4, RequestKeeps
     DEF InsertProposal, TypeOK, RequestSane, Aimed, Replaced, GrantSane,
         UnbornIsBlank
<1>5. RequestSane(r)'
  <2>1. /\ at'[r] = "writing" /\ op'[r] = op[r] /\ target'[r] = target[r]
        /\ grantedAt' = grantedAt /\ predecessor'[h] = target[r]
        /\ status'[target[r]] # "none"
    BY <1>1, <1>2, <1>3 DEF InsertProposal, TypeOK
  <2> QED
    BY <1>1, <2>1
       DEF RequestSane, Aimed, Proposing, Marking, Decided, Logging, Settling,
           Operations, Decisions
<1>6. ApprovalTellsTruth' /\ LedgerTellsTruth'
  BY <1>2, <1>3
     DEF InsertProposal, TypeOK, ApprovalTellsTruth, LedgerTellsTruth,
         GrantSane, UnbornIsBlank
<1> QED
  BY <1>3, <1>4, <1>5, <1>6

(* The write: a decision only takes a proposed grant, and a transition     *)
(* never leaves a terminal status.                                         *)
LEMMA WriteStep ==
  ASSUME IInv, TypeOK', NEW r \in Requests, Write(r)
  PROVE  IInv'
<1> DEFINE g == target[r]
           o == op[r]
<1> USE DEF IInv, Goto, requestVars
<1>1. g \in Grants /\ o \in Operations /\ GrantSane(g) /\ RequestSane(r)
  BY DEF Write, RequestSane, Aimed, Waiting
<1>2. CASE ~Applies(o, g)
  <2> USE <1>2 DEF Write, Unmatched, historyVars
  <2>1. \A k \in Grants : GrantSane(k)'
    BY DEF GrantSane, UnbornIsBlank, UndecidedIsBlank, UngrantedIsUnranked,
           LiveWasApproved, RevokedHasReason, ReplacedIsFollowed, Replaced,
           SuccessorIsLater, Replaces
  <2>2. ASSUME NEW q \in Requests, q # r PROVE RequestSane(q)'
    BY <2>2, RequestKeeps DEF TypeOK, Replaced
  <2>3. RequestSane(r)'
    BY DEF TypeOK, RequestSane, Aimed, Proposing, Marking, Decided, Logging,
           Settling, Waiting
  <2> QED
    BY <2>1, <2>2, <2>3 DEF ApprovalTellsTruth, LedgerTellsTruth
<1>3. CASE Applies(o, g)
  <2> USE <1>1
  <2>1. /\ status[g] \in {"proposed", "active", "paused"}
        /\ o \in Decisions <=> status[g] = "proposed"
        /\ status[g] # "none"
    BY <1>3 DEF Applies, Matches, Operations, Decisions
  <2>2. /\ status' = [status EXCEPT ![g] = Outcome(o)]
        /\ reason' = [reason EXCEPT ![g] =
                        IF o \in Revokes THEN RevocationReason(o) ELSE @]
        /\ clock' = IF Stamps(o) THEN clock + 1 ELSE clock
        /\ grantedAt' = [grantedAt EXCEPT ![g] =
                           IF Stamps(o) THEN clock + 1 ELSE @]
        /\ verdict' = IF o \in Decisions THEN [verdict EXCEPT ![g] = o]
                      ELSE verdict
        /\ at' = [at EXCEPT ![r] = AfterWrite(o)]
        /\ UNCHANGED <<predecessor, proposedBy, approval, ledger, op, target>>
    BY <1>3 DEF Write, historyVars
  <2>3. ASSUME NEW k \in Grants PROVE GrantSane(k)'
    <3>1. GrantSane(k)
      OBVIOUS
    <3>2. UnbornIsBlank(k)' /\ UndecidedIsBlank(k)' /\ RevokedHasReason(k)'
      BY <2>1, <2>2, <3>1, OperationFacts
         DEF TypeOK, GrantSane, UnbornIsBlank, UndecidedIsBlank,
             RevokedHasReason, Decisions
    <3>3. UngrantedIsUnranked(k)'
      BY <2>1, <2>2, <3>1, OperationFacts
         DEF TypeOK, GrantSane, UngrantedIsUnranked, Stamps, Decisions, Revokes
    <3>4. LiveWasApproved(k)'
      BY <2>1, <2>2, <3>1, OperationFacts
         DEF TypeOK, GrantSane, LiveWasApproved, Revokes, Decisions, Operations
    <3>5. ReplacedIsFollowed(k)'
      BY <2>1, <2>2, <3>1, OperationFacts
         DEF TypeOK, Write, GrantSane, ReplacedIsFollowed, Replaced,
             RequestSane, Proposing
    <3>6. SuccessorIsLater(k)'
      BY <2>1, <2>2, <3>1
         DEF TypeOK, GrantSane, SuccessorIsLater, Replaces,
             UngrantedIsUnranked, Stamps, Decisions
    <3> QED
      BY <3>2, <3>3, <3>4, <3>5, <3>6 DEF GrantSane
  <2>4. ASSUME NEW q \in Requests, q # r PROVE RequestSane(q)'
    <3>1. verdict[g] # "none" => verdict'[g] = verdict[g]
      BY <2>1, <2>2 DEF TypeOK, GrantSane, UndecidedIsBlank
    <3>2. ~Replaced(g)
      BY <2>1 DEF GrantSane, RevokedHasReason, Replaced
    <3> QED
      BY <2>1, <2>2, <2>4, <3>1, <3>2, OperationFacts, RequestKeeps
         DEF TypeOK, Replaced
  <2>5. RequestSane(r)'
    <3>1. /\ op'[r] = o /\ target'[r] = g /\ at'[r] = AfterWrite(o)
          /\ status'[g] = Outcome(o)
          /\ o \in Decisions => verdict'[g] = o
          /\ o \in Revokes => reason'[g] = RevocationReason(o)
      BY <2>2 DEF TypeOK
    <3>2. /\ AfterWrite(o) \in {"marking", "logging"}
          /\ AfterWrite(o) = "marking" => o \in {"edit", "narrow"}
          /\ Outcome(o) # "none"
      BY OperationFacts
    <3>3. o \in {"edit", "narrow"} =>
            reason'[g] \in {"customer_edited", "customer_narrowed"}
      BY <3>1, OperationFacts DEF Revokes
    <3> HIDE DEF g, o
    <3>4. Aimed(r)' /\ Proposing(r)' /\ Settling(r)'
      BY <3>1, <3>2 DEF Aimed, Proposing, Settling
    <3>5. Marking(r)' /\ Decided(r)' /\ Logging(r)'
      BY <3>1, <3>2, <3>3 DEF Marking, Decided, Logging, Replaced
    <3> QED
      BY <3>4, <3>5 DEF RequestSane
  <2>6. ApprovalTellsTruth' /\ LedgerTellsTruth'
    <3>1. verdict[g] # "none" => verdict'[g] = verdict[g]
      BY <2>1, <2>2 DEF TypeOK, GrantSane, UndecidedIsBlank
    <3>2. ~Replaced(g)
      BY <2>1 DEF GrantSane, RevokedHasReason, Replaced
    <3> QED
      BY <2>1, <2>2, <3>1, <3>2
         DEF TypeOK, ApprovalTellsTruth, LedgerTellsTruth, Replaced
  <2> QED
    BY <2>3, <2>4, <2>5, <2>6
<1> QED
  BY <1>2, <1>3

(* The statements after the write only repeat what the write decided. *)
LEMMA AfterWriteSteps ==
  ASSUME IInv, TypeOK', NEW r \in Requests,
         \/ LogNarrowed(r) \/ LogOutcome(r) \/ SettleApproval(r) \/ Fail(r)
  PROVE  IInv'
<1> USE DEF IInv, Goto, grantVars, historyVars, requestVars
<1>1. /\ UNCHANGED <<status, reason, grantedAt, clock, predecessor, proposedBy,
                     verdict, op, target>>
      /\ at[r] \in Waiting
      /\ \A q \in Requests : q # r => at'[q] = at[q]
  BY DEF LogNarrowed, LogOutcome, SettleApproval, Fail, TypeOK, Waiting
<1>2. /\ target[r] \in Grants /\ op[r] \in Operations
      /\ RequestSane(r) /\ status[target[r]] # "none"
  BY <1>1 DEF RequestSane, Aimed
<1>3. \A k \in Grants :
        k # target[r] => ledger'[k] = ledger[k] /\ approval'[k] = approval[k]
  BY <1>2 DEF LogNarrowed, LogOutcome, SettleApproval, Fail, TypeOK
<1>4. \A k \in Grants : GrantSane(k)'
  BY <1>1, <1>2, <1>3
     DEF GrantSane, UnbornIsBlank, UndecidedIsBlank, UngrantedIsUnranked,
         LiveWasApproved, RevokedHasReason, ReplacedIsFollowed, Replaced,
         SuccessorIsLater, Replaces
<1>5. ASSUME NEW q \in Requests, q # r PROVE RequestSane(q)'
  BY <1>1, <1>5, RequestKeeps DEF Replaced
<1>6. RequestSane(r)'
  <2>1. \/ at[r] = "marking" /\ at'[r] = "logging"
        \/ at[r] = "logging" /\ at'[r] = AfterLog(op[r])
        \/ at'[r] \in {"done", "failed"}
    BY DEF LogNarrowed, LogOutcome, SettleApproval, Fail, TypeOK
  <2>2. CASE at[r] = "marking" /\ at'[r] = "logging"
    BY <1>1, <1>2, <2>2
       DEF RequestSane, Aimed, Proposing, Marking, Decided, Logging, Settling
  <2>3. CASE at[r] = "logging" /\ at'[r] = AfterLog(op[r])
    BY <1>1, <1>2, <2>3, OperationFacts
       DEF RequestSane, Aimed, Proposing, Marking, Decided, Logging, Settling,
           Waiting
  <2>4. CASE at'[r] \in {"done", "failed"}
    BY <2>4
       DEF RequestSane, Aimed, Proposing, Marking, Decided, Logging, Settling,
           Waiting
  <2> QED
    BY <2>1, <2>2, <2>3, <2>4
<1>7. LedgerTellsTruth'
  <2>1. CASE LogNarrowed(r)
    BY <1>1, <1>2, <2>1
       DEF LogNarrowed, TypeOK, LedgerTellsTruth, RequestSane, Marking, Replaced
  <2>2. CASE LogOutcome(r)
    <3>1. /\ Event(op[r]) = "approved" => verdict[target[r]] = "approve"
          /\ Event(op[r]) = "revoked" => status[target[r]] = "revoked"
          /\ Event(op[r]) \notin {"narrowed", "expired"}
      BY <1>2, <2>2, OperationFacts
         DEF LogOutcome, RequestSane, Decided, Logging, Decisions
    <3>2. ledger' = [ledger EXCEPT ![target[r]] = @ \cup {Event(op[r])}]
      BY <2>2 DEF LogOutcome
    <3> QED
      BY <1>1, <1>2, <3>1, <3>2 DEF TypeOK, LedgerTellsTruth
  <2>3. CASE SettleApproval(r) \/ Fail(r)
    BY <2>3 DEF SettleApproval, Fail, LedgerTellsTruth
  <2> QED
    BY <2>1, <2>2, <2>3
<1>8. ApprovalTellsTruth'
  <2>1. CASE SettleApproval(r)
    <3>1. op[r] \in Decisions /\ verdict[target[r]] = op[r]
      BY <1>2, <2>1 DEF SettleApproval, RequestSane, Decided, Settling
    <3>2. /\ Settled(op[r]) = "approved" => op[r] \in {"approve", "edit"}
          /\ Settled(op[r]) = "rejected" => op[r] = "reject"
      BY <1>2, <3>1, OperationFacts DEF Decisions
    <3> QED
      BY <1>1, <1>2, <2>1, <3>1, <3>2
         DEF SettleApproval, TypeOK, ApprovalTellsTruth
  <2>2. CASE LogNarrowed(r) \/ LogOutcome(r) \/ Fail(r)
    BY <2>2 DEF LogNarrowed, LogOutcome, Fail, ApprovalTellsTruth
  <2> QED
    BY <2>1, <2>2
<1> QED
  BY <1>4, <1>5, <1>6, <1>7, <1>8

LEMMA CronAndClockSteps ==
  ASSUME IInv, TypeOK',
         \/ SweepApprovals \/ SweepGrants \/ UNCHANGED vars
         \/ \E g \in Grants : Lapse(g) \/ FallDue(g)
  PROVE  IInv'
<1> USE DEF IInv, grantVars, historyVars, requestVars
<1>1. CASE SweepGrants
  <2> USE <1>1 DEF SweepGrants, Expirable
  <2>1. \A k \in Grants : GrantSane(k)'
    BY DEF TypeOK, GrantSane, UnbornIsBlank, UndecidedIsBlank,
           UngrantedIsUnranked, LiveWasApproved, RevokedHasReason,
           ReplacedIsFollowed, Replaced, SuccessorIsLater, Replaces
  <2>2. ASSUME NEW q \in Requests PROVE RequestSane(q)'
    BY RequestKeeps DEF TypeOK, RequestSane, Aimed, Replaced
  <2>3. ApprovalTellsTruth' /\ LedgerTellsTruth'
    BY DEF TypeOK, ApprovalTellsTruth, LedgerTellsTruth
  <2> QED
    BY <2>1, <2>2, <2>3
<1>2. CASE SweepApprovals
  <2> USE <1>2 DEF SweepApprovals, Overdue
  <2>1. \A k \in Grants : GrantSane(k)'
    BY DEF TypeOK, GrantSane, UnbornIsBlank, UndecidedIsBlank,
           UngrantedIsUnranked, LiveWasApproved, RevokedHasReason,
           ReplacedIsFollowed, Replaced, SuccessorIsLater, Replaces
  <2>2. ASSUME NEW q \in Requests PROVE RequestSane(q)'
    BY RequestKeeps DEF Replaced
  <2>3. ApprovalTellsTruth' /\ LedgerTellsTruth'
    BY DEF TypeOK, ApprovalTellsTruth, LedgerTellsTruth
  <2> QED
    BY <2>1, <2>2, <2>3
<1>3. CASE UNCHANGED vars \/ \E g \in Grants : Lapse(g) \/ FallDue(g)
  <2>1. UNCHANGED <<grantVars, approval, ledger, historyVars, requestVars, at>>
    BY <1>3 DEF Lapse, FallDue, vars
  <2>2. \A k \in Grants : GrantSane(k)'
    BY <2>1
       DEF GrantSane, UnbornIsBlank, UndecidedIsBlank, UngrantedIsUnranked,
           LiveWasApproved, RevokedHasReason, ReplacedIsFollowed, Replaced,
           SuccessorIsLater, Replaces
  <2>3. ASSUME NEW q \in Requests PROVE RequestSane(q)'
    BY <2>1, RequestKeeps DEF Replaced
  <2>4. ApprovalTellsTruth' /\ LedgerTellsTruth'
    BY <2>1 DEF ApprovalTellsTruth, LedgerTellsTruth
  <2> QED
    BY <2>2, <2>3, <2>4
<1> QED
  BY <1>1, <1>2, <1>3

----------------------------------------------------------------------------
(* Theorems *)

LEMMA StepIsSane == IInv /\ [Next]_vars => IInv'
<1> SUFFICES ASSUME IInv, [Next]_vars PROVE IInv'
  OBVIOUS
<1>1. TypeOK'
  BY TypeStep
<1> QED
  BY <1>1, ProposalSteps, BeginStep, ProposeSuccessorStep, WriteStep,
     AfterWriteSteps, CronAndClockSteps DEF Next, Statement

THEOREM SpecIsSane == Spec => []IInv
BY InitIsSane, StepIsSane, PTL DEF Spec

(* Every reachable state is well typed. *)
THEOREM GrantTypeCorrect == Spec => []TypeOK
<1>1. IInv => TypeOK
  BY DEF IInv
<1> QED
  BY <1>1, SpecIsSane, PTL

(* A grant that covers actions was approved, whatever raced or failed. *)
THEOREM ActiveGrantsWereApproved == Spec => []ActiveWasApproved
<1>1. IInv => ActiveWasApproved
  BY DEF IInv, ActiveWasApproved, GrantSane, LiveWasApproved
<1> QED
  BY <1>1, SpecIsSane, PTL

(* A proposal is decided once, however many requests read it as pending.   *)
THEOREM ProposalsAreDecidedOnce == Spec => OneVerdict
<1>1. ASSUME IInv, [Next]_vars, NEW g \in Grants, verdict[g] # "none"
      PROVE  UNCHANGED <<verdict[g], decidedBy[g]>>
  <2> USE DEF IInv, historyVars
  <2>1. GrantSane(g) /\ status[g] \notin {"none", "proposed"}
    BY <1>1 DEF TypeOK, GrantSane, UndecidedIsBlank
  <2>2. ASSUME NEW r \in Requests, Write(r)
        PROVE  UNCHANGED <<verdict[g], decidedBy[g]>>
    BY <1>1, <2>1, <2>2 DEF Write, Applies, Matches, Decisions, TypeOK
  <2>3. ASSUME NEW h \in Grants, AcceptDefault(h)
        PROVE  UNCHANGED <<verdict[g], decidedBy[g]>>
    BY <1>1, <2>1, <2>3 DEF AcceptDefault, TypeOK
  <2>4. \/ \E r \in Requests : Write(r)
        \/ \E h \in Grants : AcceptDefault(h)
        \/ UNCHANGED historyVars
    BY <1>1 DEF Next, Statement, AgentProposes, Begin, ProposeSuccessor,
                LogNarrowed, LogOutcome, SettleApproval, Fail, SweepApprovals,
                SweepGrants, Lapse, FallDue, vars
  <2> QED
    BY <2>2, <2>3, <2>4
<1>2. IInv /\ [Next]_vars =>
        [\A g \in Grants :
           verdict[g] # "none" => UNCHANGED <<verdict[g], decidedBy[g]>>]_vars
  BY <1>1
<1> QED
  BY <1>2, SpecIsSane, PTL DEF Spec, OneVerdict

(* An approval row shows the decision its grant took. *)
THEOREM ApprovalsAreTruthful == Spec => []ApprovalTellsTruth
<1>1. IInv => ApprovalTellsTruth
  BY DEF IInv
<1> QED
  BY <1>1, SpecIsSane, PTL

(* The ledger claims no transition that did not happen. *)
THEOREM LedgerIsTruthful == Spec => []LedgerTellsTruth
<1>1. IInv => LedgerTellsTruth
  BY DEF IInv
<1> QED
  BY <1>1, SpecIsSane, PTL

(* A narrowed grant never outranks its approved successor. *)
THEOREM SuccessorsOutrank == Spec => []SuccessorOutranks
<1>1. IInv => SuccessorOutranks
  BY DEF IInv, TypeOK, SuccessorOutranks, GrantSane, SuccessorIsLater,
         UngrantedIsUnranked
<1> QED
  BY <1>1, SpecIsSane, PTL

(* No edit or narrow revokes a grant without a successor to decide on. *)
THEOREM ReplacementsExist == Spec => []ReplacedHasSuccessor
<1>1. IInv => ReplacedHasSuccessor
  BY DEF IInv, ReplacedHasSuccessor, GrantSane, ReplacedIsFollowed, Replaced
<1> QED
  BY <1>1, SpecIsSane, PTL

----------------------------------------------------------------------------
(* The audit trail *)

(* Without a failure, a transition that is not in the ledger yet has a     *)
(* request that is about to enter it.                                      *)
Audited(g) ==
  /\ verdict[g] = "approve" /\ "approved" \notin ledger[g] =>
       \E r \in Requests :
         target[r] = g /\ at[r] = "logging" /\ op[r] = "approve"
  /\ status[g] \in {"paused", "revoked", "expired"} \ ledger[g] =>
       \E r \in Requests :
         /\ target[r] = g /\ at[r] \in {"marking", "logging"}
         /\ Outcome(op[r]) = status[g]
AuditInv == faults = 0 => \A g \in Grants : Audited(g)

(* The debt of a grant is kept while nothing but its requests' other       *)
(* statements move.                                                        *)
LEMMA AuditKeeps ==
  ASSUME NEW g \in Grants, Audited(g), verdict'[g] \in {verdict[g], "default"},
         status'[g] \in {status[g], "none", "proposed", "active"},
         ledger[g] \subseteq ledger'[g],
         \A r \in Requests :
           at[r] \in {"marking", "logging"} /\ target[r] = g =>
             at'[r] = at[r] /\ op'[r] = op[r] /\ target'[r] = target[r]
  PROVE  Audited(g)'
BY DEF Audited, Outcome

LEMMA AuditWriteStep ==
  ASSUME IInv, NEW r \in Requests, NEW g \in Grants, Audited(g), Write(r)
  PROVE  Audited(g)'
<1> USE DEF Goto, requestVars
<1>1. /\ at[r] = "writing" /\ op[r] \in Operations /\ target[r] \in Grants
      /\ TypeOK /\ UNCHANGED <<op, target, ledger>>
  BY DEF IInv, RequestSane, Aimed, Write, Waiting
<1>2. \A q \in Requests : q # r => at'[q] = at[q]
  BY <1>1 DEF TypeOK, Write
<1>3. CASE target[r] # g \/ ~Applies(op[r], target[r])
  <2>1. verdict'[g] = verdict[g] /\ status'[g] = status[g]
    BY <1>1, <1>3 DEF TypeOK, Write, historyVars
  <2> QED
    BY <1>1, <1>2, <2>1, AuditKeeps
<1>4. CASE target[r] = g /\ Applies(op[r], target[r])
  <2>1. /\ status'[g] = Outcome(op[r])
        /\ verdict'[g] = IF op[r] \in Decisions THEN op[r] ELSE verdict[g]
        /\ at'[r] = AfterWrite(op[r])
    BY <1>1, <1>4 DEF TypeOK, Write, historyVars
  <2>2. /\ AfterWrite(op[r]) \in {"marking", "logging"}
        /\ op[r] = "approve" => AfterWrite(op[r]) = "logging"
    BY <1>1, OperationFacts
  <2>3. verdict'[g] = "approve" /\ "approved" \notin ledger'[g] =>
          \E q \in Requests :
            target'[q] = g /\ at'[q] = "logging" /\ op'[q] = "approve"
    <3>1. CASE op[r] = "approve"
      BY <1>1, <1>4, <2>1, <2>2, <3>1
    <3>2. CASE op[r] # "approve"
      BY <1>1, <1>2, <2>1, <3>2 DEF Audited
    <3> QED
      BY <3>1, <3>2
  <2>4. \E q \in Requests :
          /\ target'[q] = g /\ at'[q] \in {"marking", "logging"}
          /\ Outcome(op'[q]) = status'[g]
    BY <1>1, <1>4, <2>1, <2>2
  <2> QED
    BY <2>3, <2>4 DEF Audited, Outcome
<1> QED
  BY <1>3, <1>4

LEMMA AuditLogStep ==
  ASSUME IInv, NEW r \in Requests, NEW g \in Grants, Audited(g),
         LogNarrowed(r) \/ LogOutcome(r)
  PROVE  Audited(g)'
<1> USE DEF Goto, requestVars, grantVars, historyVars
<1>1. /\ at[r] \in {"marking", "logging"} /\ op[r] \in Operations
      /\ target[r] \in Grants
      /\ TypeOK /\ UNCHANGED <<op, target, status, verdict>>
  BY DEF IInv, RequestSane, Aimed, LogNarrowed, LogOutcome, Waiting
<1>2. /\ \A q \in Requests : q # r => at'[q] = at[q]
      /\ ledger[g] \subseteq ledger'[g]
  BY <1>1 DEF TypeOK, LogNarrowed, LogOutcome
<1>3. CASE target[r] # g
  BY <1>1, <1>2, <1>3, AuditKeeps
<1>4. CASE target[r] = g /\ LogNarrowed(r)
  <2>1. at[r] = "marking" /\ at'[r] = "logging"
    BY <1>1, <1>4 DEF TypeOK, LogNarrowed
  <2> QED
    BY <1>1, <1>2, <1>4, <2>1 DEF Audited, Outcome
<1>5. CASE target[r] = g /\ LogOutcome(r)
  <2>1. Event(op[r]) \in ledger'[g]
    BY <1>1, <1>5 DEF TypeOK, LogOutcome
  <2>2. /\ op[r] = "approve" => Event(op[r]) = "approved"
        /\ Outcome(op[r]) \in {"paused", "revoked", "expired"} =>
             Event(op[r]) = Outcome(op[r])
    BY <1>1 DEF Event, Outcome, Revokes
  <2> QED
    BY <1>1, <1>2, <2>1, <2>2 DEF Audited, Outcome
<1> QED
  BY <1>3, <1>4, <1>5

LEMMA AuditStep == IInv /\ AuditInv /\ [Next]_vars => AuditInv'
<1> SUFFICES ASSUME IInv, AuditInv, [Next]_vars, faults' = 0, NEW g \in Grants
             PROVE  Audited(g)'
  BY DEF AuditInv
<1> USE DEF Goto, grantVars, timeVars, historyVars, requestVars
<1>1. TypeOK /\ faults \in Nat
  BY GrantAssumption DEF IInv, TypeOK
<1>2. faults = 0
  BY <1>1 DEF Next, AgentProposes, AcceptDefault, Begin, Statement,
    ProposeSuccessor, Write, LogNarrowed, LogOutcome, SettleApproval, Fail,
    SweepApprovals, SweepGrants, Lapse, FallDue, vars
<1>3. Audited(g)
  BY <1>2 DEF AuditInv
<1>4. ASSUME NEW h \in Grants, AgentProposes(h) \/ AcceptDefault(h)
      PROVE  Audited(g)'
  <2>1. /\ verdict'[g] \in {verdict[g], "default"}
        /\ status'[g] \in {status[g], "proposed", "active"}
        /\ ledger[g] \subseteq ledger'[g] /\ UNCHANGED <<at, op, target>>
    BY <1>1, <1>4 DEF AgentProposes, AcceptDefault, InsertProposal, TypeOK
  <2> QED
    BY <1>3, <2>1, AuditKeeps
<1>5. ASSUME NEW r \in Requests, NEW o \in Operations, NEW h \in Grants,
             Begin(r, o, h)
      PROVE  Audited(g)'
  <2>1. /\ at[r] = "idle" /\ UNCHANGED <<status, verdict, ledger>>
        /\ \A q \in Requests : q # r =>
             at'[q] = at[q] /\ op'[q] = op[q] /\ target'[q] = target[q]
    BY <1>1, <1>5 DEF Begin, TypeOK
  <2> QED
    BY <1>3, <2>1, AuditKeeps
<1>6. ASSUME NEW r \in Requests, NEW h \in Grants, ProposeSuccessor(r, h)
      PROVE  Audited(g)'
  <2>1. /\ at[r] = "proposing" /\ UNCHANGED <<verdict, ledger, op, target>>
        /\ status'[g] \in {status[g], "proposed"}
        /\ \A q \in Requests : q # r => at'[q] = at[q]
    BY <1>1, <1>6 DEF ProposeSuccessor, InsertProposal, TypeOK
  <2> QED
    BY <1>3, <2>1, AuditKeeps
<1>7. ASSUME NEW r \in Requests, Write(r) PROVE Audited(g)'
  BY <1>3, <1>7, AuditWriteStep
<1>8. ASSUME NEW r \in Requests, LogNarrowed(r) \/ LogOutcome(r)
      PROVE  Audited(g)'
  BY <1>3, <1>8, AuditLogStep
<1>9. ASSUME NEW r \in Requests, SettleApproval(r) PROVE Audited(g)'
  <2>1. /\ at[r] = "settling"
        /\ UNCHANGED <<status, verdict, ledger, op, target>>
        /\ \A q \in Requests : q # r => at'[q] = at[q]
    BY <1>1, <1>9 DEF SettleApproval, TypeOK
  <2> QED
    BY <1>3, <2>1, AuditKeeps
<1>10. ASSUME NEW r \in Requests, Fail(r) PROVE FALSE
  BY <1>1, <1>10 DEF Fail
<1>11. CASE SweepGrants
  <2>1. /\ UNCHANGED <<verdict, at, op, target>>
        /\ status'[g] = IF g \in Expirable THEN "expired" ELSE status[g]
        /\ ledger'[g] = ledger[g] \cup
             IF g \in Expirable THEN {"expired"} ELSE {}
    BY <1>1, <1>2, <1>11 DEF SweepGrants
  <2> QED
    BY <1>3, <2>1 DEF Audited, Outcome
<1>12. CASE \/ SweepApprovals \/ UNCHANGED vars
            \/ \E h \in Grants : Lapse(h) \/ FallDue(h)
  <2>1. UNCHANGED <<status, verdict, ledger, at, op, target>>
    BY <1>12 DEF SweepApprovals, vars, Lapse, FallDue
  <2> QED
    BY <1>3, <2>1, AuditKeeps
<1> QED
  BY <1>4, <1>5, <1>6, <1>7, <1>8, <1>9, <1>10, <1>11, <1>12
     DEF Next, Statement

(* Without a failure, every transition is in the ledger as soon as no      *)
(* request is running on the grant.                                        *)
THEOREM AuditIsComplete == Spec => []AuditDriftsOnlyByFault
<1>1. Init => AuditInv
  BY DEF Init, AuditInv, Audited
<1>2. AuditInv => AuditDriftsOnlyByFault
  BY DEF AuditInv, Audited, AuditDriftsOnlyByFault, InFlight, Logged, Waiting
<1> QED
  BY <1>1, <1>2, AuditStep, SpecIsSane, PTL DEF Spec

----------------------------------------------------------------------------
(* What the parts add up to *)

(* What is active was approved, and no approval row shows another verdict. *)
THEOREM VerdictsAreFollowed == Spec => []VerdictIsFollowed
BY ActiveGrantsWereApproved, ApprovalsAreTruthful, PTL DEF VerdictIsFollowed

(* A replaced grant has a successor, which outranks it when both are live. *)
THEOREM SuccessionsHold == Spec => []SuccessionHolds
BY ReplacementsExist, SuccessorsOutrank, PTL DEF SuccessionHolds

(* The ledger claims no transition that did not happen and, without a      *)
(* failure, misses none.                                                   *)
THEOREM AuditIsTruthful == Spec => []AuditTellsTruth
BY LedgerIsTruthful, AuditIsComplete, PTL DEF AuditTellsTruth

----------------------------------------------------------------------------
(* The environment of the resolver *)

(* A grant as the resolver sees it. *)
Seen(g) == IF status[g] = "none" THEN "proposed" ELSE status[g]

(* One grant moves to s, as the resolver sees it, and the trigger lets it. *)
LEMMA OneMoveIsATransition ==
  ASSUME TypeOK, NEW g \in Grants, NEW s \in Standing!Statuses,
         status' = [status EXCEPT ![g] = s], UNCHANGED lapsed,
         s # "expired", <<Seen(g), s>> \in Standing!LegalTransition
  PROVE  Standing!Transition
<1>1. \A h \in Grants : status'[h] = IF h = g THEN s ELSE status[h]
  BY DEF TypeOK
<1>2. status' \in [Grants -> Statuses]
  BY DEF TypeOK, Statuses, Standing!Statuses
<1> QED
  BY <1>1, <1>2
     DEF Standing!Transition, Standing!Statuses, Statuses, Seen

(* Requests that race, fail half way or lose their race, and the hourly    *)
(* sweeps, move every grant as StandingGrants allows: along the trigger,   *)
(* and to "expired" only after expires_at.  It is what AgentRuntime takes  *)
(* for granted of the grants it resolves.                                  *)
THEOREM StandingGrantsAreKept == Spec => KeepsStandingGrants
<1>1. Init => Standing!Init
  BY DEF Init, Standing!Init
<1>2. IInv /\ [Next]_vars
        => [Standing!Next]_<<[g \in Grants |->
              IF status[g] = "none" THEN "proposed" ELSE status[g]], lapsed>>
  <2> SUFFICES ASSUME IInv, [Next]_vars
               PROVE  \/ Standing!Transition
                      \/ \E g \in Grants : Standing!Lapse(g)
                      \/ UNCHANGED <<status, lapsed>>
    BY DEF Standing!Next
  <2> USE DEF grantVars, timeVars
  <2>0. TypeOK
    BY DEF IInv
  <2>1. ASSUME NEW h \in Grants,
               \/ AgentProposes(h)
               \/ \E r \in Requests : ProposeSuccessor(r, h)
        PROVE  Standing!Transition
    <3>1. /\ status[h] = "none" /\ status' = [status EXCEPT ![h] = "proposed"]
          /\ UNCHANGED lapsed
      BY <2>1 DEF AgentProposes, ProposeSuccessor, InsertProposal
    <3>2. \A g \in Grants : Seen(g)' = Seen(g)
      BY <2>0, <3>1 DEF TypeOK, Seen
    <3> QED
      BY <2>0, <3>1, <3>2
         DEF TypeOK, Statuses, Standing!Transition, Standing!Statuses, Seen
  <2>2. ASSUME NEW h \in Grants, AcceptDefault(h) PROVE Standing!Transition
    <3>1. /\ Seen(h) = "proposed" /\ status' = [status EXCEPT ![h] = "active"]
          /\ UNCHANGED lapsed
      BY <2>2 DEF AcceptDefault, Seen
    <3> QED
      BY <2>0, <3>1, OneMoveIsATransition
         DEF Standing!Statuses, Standing!LegalTransition
  <2>3. ASSUME NEW r \in Requests, Write(r)
        PROVE  Standing!Transition \/ UNCHANGED <<status, lapsed>>
    <3>1. op[r] \in Operations /\ target[r] \in Grants
      BY <2>3 DEF IInv, RequestSane, Aimed, Write, Waiting
    <3>2. CASE ~Applies(op[r], target[r])
      BY <2>3, <3>2 DEF Write
    <3>3. CASE Applies(op[r], target[r])
      <4>1. /\ status' = [status EXCEPT ![target[r]] = Outcome(op[r])]
            /\ UNCHANGED lapsed
        BY <2>3, <3>3 DEF Write
      <4>2. /\ Outcome(op[r]) \in {"active", "paused", "revoked"}
            /\ Outcome(op[r]) = "revoked" <=> op[r] \in Revokes
            /\ Outcome(op[r]) = "active" <=> op[r] \in {"approve", "resume"}
        BY <3>1, OperationFacts
      <4>3. /\ Matches(op[r], status[target[r]])
            /\ Legal(status[target[r]], Outcome(op[r]))
        BY <3>3 DEF Applies
      <4>4. <<Seen(target[r]), Outcome(op[r])>> \in Standing!LegalTransition
        BY <4>2, <4>3
           DEF Seen, Matches, Legal, Revokes, Decisions,
               Standing!LegalTransition
      <4> QED
        BY <2>0, <3>1, <4>1, <4>2, <4>4, OneMoveIsATransition
           DEF Standing!Statuses
    <3> QED
      BY <3>2, <3>3
  <2>4. CASE SweepGrants
    <3>1. /\ \A g \in Grants :
               status'[g] = IF g \in Expirable THEN "expired" ELSE status[g]
          /\ status' = [g \in Grants |->
               IF g \in Expirable THEN "expired" ELSE status[g]]
          /\ UNCHANGED lapsed
      BY <2>4 DEF SweepGrants
    <3>2. \A g \in Expirable :
            g \in lapsed /\ status[g] \in {"active", "paused"}
      BY DEF Expirable
    <3> QED
      BY <2>0, <3>1, <3>2
         DEF TypeOK, Statuses, Standing!Transition, Standing!Statuses,
             Standing!LegalTransition
  <2>5. ASSUME NEW g \in Grants, Lapse(g) PROVE Standing!Lapse(g)
    BY <2>5 DEF Lapse, Standing!Lapse
  <2>6. CASE \/ SweepApprovals \/ UNCHANGED vars
             \/ \E g \in Grants : FallDue(g)
             \/ \E r \in Requests :
                  \/ \E o \in Operations, g \in Grants : Begin(r, o, g)
                  \/ LogNarrowed(r) \/ LogOutcome(r) \/ SettleApproval(r)
                  \/ Fail(r)
    BY <2>6 DEF SweepApprovals, vars, FallDue, Begin, LogNarrowed, LogOutcome,
                SettleApproval, Fail
  <2> QED
    BY <2>1, <2>2, <2>3, <2>4, <2>5, <2>6 DEF Next, Statement
<1> QED
  BY <1>1, <1>2, SpecIsSane, PTL
     DEF Spec, KeepsStandingGrants, Standing!Spec
=============================================================================

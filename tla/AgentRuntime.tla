---------------------------- MODULE AgentRuntime ----------------------------
(***************************************************************************)
(* The agent runtime: AgentRun.invokeTool (packages/runtime/src/run.ts)    *)
(* with the authority resolver it awaits (packages/runtime/src/authority.ts*)
(* defaultAuthorityResolver) and the adapters apps/id configures at boot   *)
(* (lib/runtime/runtime-boot.ts, supabase/migrations/00080).               *)
(*                                                                         *)
(* Each call is one logical invocation of a consequential tool of one      *)
(* action class, for one account.  pc[c] is the await the invocation is    *)
(* suspended in, so an action is what runs between two awaits, together    *)
(* with the database statement the first await stands for.  Invocations of *)
(* different agents, grant transitions and the clock interleave freely.    *)
(***************************************************************************)
EXTENDS Naturals, FiniteSets

CONSTANTS
  Calls,        \* tool invocations
  Grants,       \* authority grants that list the action class
  NoGrant,      \* no covering grant
  Narrowness,   \* grant -> rank: narrower scope first, then latest granted_at
  Spend,        \* call -> action_input.spend_amount, 0 when absent
  Total,        \* set of calls -> the sum of their Spend
  NoCap,        \* a null cap or a null rate_limit
  DayCap,       \* grant -> max_unapproved_spend_per_day
  ActionCap,    \* grant -> max_unapproved_spend_per_action
  HasBudget,    \* grant -> budget_category is set
  RateLimit,    \* grant -> matched_capability.rate_limit.count
  NeedsBudget,  \* descriptor.always_requires_budget_attachment
  MaxAttempts,  \* resolved retry policy
  LastDay,      \* bound: the last UTC day explored
  MaxFaults,    \* bound: database errors, lost replies and crashes explored
  MaxInFlight   \* bound: invocations running at the same time

Days == 0..LastDay
NoDay == LastDay + 1

ASSUME CapAssumption ==
  /\ NoCap \notin Nat
  /\ DayCap \in [Grants -> Nat \cup {NoCap}]
  /\ ActionCap \in [Grants -> Nat \cup {NoCap}]
  /\ RateLimit \in [Grants -> Nat \cup {NoCap}]
  /\ HasBudget \in [Grants -> BOOLEAN]
  /\ NeedsBudget \in BOOLEAN

ASSUME CallAssumption ==
  /\ NoGrant \notin Grants
  /\ Narrowness \in [Grants -> Nat]
  /\ Spend \in [Calls -> Nat]
  /\ MaxAttempts \in Nat \ {0}
  /\ LastDay \in Nat
  /\ MaxFaults \in Nat
  /\ MaxInFlight \in Nat \ {0}

(* The rate limit counts calls. *)
ASSUME FiniteAssumption == IsFiniteSet(Calls)

(* Total is the sum of Spend over a set: it grows by a call's own amount.  *)
ASSUME TotalAssumption ==
  /\ Total \in [SUBSET Calls -> Nat]
  /\ Total[{}] = 0
  /\ \A S \in SUBSET Calls : \A c \in Calls \ S :
        Total[S \cup {c}] = Total[S] + Spend[c]
  /\ \A S, T \in SUBSET Calls : S \subseteq T => Total[S] <= Total[T]

VARIABLES
  status,    \* grant -> kinetiks_authority_grants.status
  lapsed,    \* grants whose expires_at has passed
  day,       \* current UTC day
  bucket,    \* grant -> day -> kinetiks_daily_counters.amount
  pc,        \* call -> the await it is suspended in, or how it ended
  grantOf,   \* call -> authority.grantId
  held,      \* call -> day_utc of authority.spendReservation
  charged,   \* call -> the day whose bucket still counts its spend (history)
  attempt,   \* call -> attempts of the retry loop so far
  effects,   \* call -> external mutations performed (history)
  row,       \* call -> its authority_action_taken ledger row
  approval,  \* call -> status of its kinetiks_approvals row
  faults     \* infrastructure failures so far

vars == <<status, lapsed, day, bucket, pc, grantOf, held, charged, attempt,
          effects, row, approval, faults>>
grantVars == <<status, lapsed>>
counterVars == <<bucket, held, charged>>

(* The rows of kinetiks_authority_grants: the environment of the runtime.  *)
Standing == INSTANCE StandingGrants

Resolving == {"counting", "triggers", "reserving", "gating"}
Escalating == {"escalating", "logging"}
Carrying == {"executing", "backoff", "recording"}   \* inside the retry loop
Running == Resolving \cup Escalating \cup Carrying \cup {"releasing"}
Ended == {"succeeded", "failed", "queued", "denied", "crashed"}

TypeOK ==
  /\ status \in [Grants -> Standing!Statuses]
  /\ lapsed \in SUBSET Grants
  /\ day \in Days
  /\ bucket \in [Grants -> [Days -> Nat]]
  /\ pc \in [Calls -> Running \cup Ended \cup {"idle"}]
  /\ grantOf \in [Calls -> Grants \cup {NoGrant}]
  /\ held \in [Calls -> Days \cup {NoDay}]
  /\ charged \in [Calls -> Days \cup {NoDay}]
  /\ attempt \in [Calls -> 0..MaxAttempts]
  /\ effects \in [Calls -> Nat]
  /\ row \in [Calls -> {"none", "recent", "old"}]
  /\ approval \in
       [Calls -> {"none", "pending", "approved", "auto_approved", "rejected"}]
  /\ faults \in 0..MaxFaults

Init ==
  /\ Standing!Init
  /\ day = 0
  /\ bucket = [g \in Grants |-> [d \in Days |-> 0]]
  /\ pc = [c \in Calls |-> "idle"]
  /\ grantOf = [c \in Calls |-> NoGrant]
  /\ held = [c \in Calls |-> NoDay]
  /\ charged = [c \in Calls |-> NoDay]
  /\ attempt = [c \in Calls |-> 0]
  /\ effects = [c \in Calls |-> 0]
  /\ row = [c \in Calls |-> "none"]
  /\ approval = [c \in Calls |-> "none"]
  /\ faults = 0

----------------------------------------------------------------------------
(* Helpers *)

Goto(c, l) == pc' = [pc EXCEPT ![c] = l]
Fault == faults < MaxFaults /\ faults' = faults + 1

InFlight == {c \in Calls : pc[c] \in Running}
Covering_AnyStatus == Grants \ lapsed      \* mutant: no status filter
Covering == {g \in Grants : status[g] = "active" /\ g \notin lapsed}
RecentRows(g) == {c \in Calls : row[c] = "recent" /\ grantOf[c] = g}
Metered(c, g) == Spend[c] > 0 /\ DayCap[g] # NoCap

(* Where a consequential call goes when no grant covers it; the mutant is  *)
(* the runtime before it routed these calls through an approval.           *)
Uncovered_Executes == "executing"
Uncovered == "gating"

(* Step 5 of the resolver; the mutant lets one action too many through.    *)
UnderLimit_OffByOne(g) ==
  RateLimit[g] # NoCap => Cardinality(RecentRows(g)) <= RateLimit[g]
UnderLimit(g) ==
  RateLimit[g] # NoCap => Cardinality(RecentRows(g)) < RateLimit[g]

(* Step 6 of the resolver: the structural spending checks. *)
AfterRateLimit(c, g) ==
  IF ~NeedsBudget THEN "triggers"
  ELSE IF (DayCap[g] = NoCap /\ ActionCap[g] = NoCap) \/ ~HasBudget[g]
       THEN "denied"
  ELSE IF Spend[c] > 0 /\ ActionCap[g] # NoCap /\ Spend[c] > ActionCap[g]
       THEN "escalating"
  ELSE "triggers"

(* _kt_reserve_daily_counter: one conditional increment.  NULL = refused.  *)
Fits_ReadsOnly(c, g, d) == bucket[g][d] < DayCap[g]  \* mutant
Fits(c, g, d) == bucket[g][d] + Spend[c] <= DayCap[g]
Charge(c, g, d) ==
  /\ bucket' = [bucket EXCEPT ![g][d] = @ + Spend[c]]
  /\ charged' = [charged EXCEPT ![c] = d]

(* Where a thrown reserve leads; the mutant fails open.                    *)
ReserveThrew_FailsOpen == "executing"
ReserveThrew == "escalating"

(* _kt_release_daily_counter: GREATEST(amount - p_amount, 0).  The mutant  *)
(* releases the bucket of the current day.                                 *)
Less(n, m) == IF n >= m THEN n - m ELSE 0
Refund_Today(c, g, d) ==
  /\ bucket' = [bucket EXCEPT ![g][day] = Less(@, Spend[c])]
  /\ charged' = [charged EXCEPT ![c] = NoDay]
Refund(c, g, d) ==
  /\ bucket' = [bucket EXCEPT ![g][d] = Less(@, Spend[c])]
  /\ charged' = [charged EXCEPT ![c] = NoDay]

(* isRetryable's bound on attempts; the mutant allows one attempt more.    *)
CanRetry_OffByOne(c) == attempt[c] + 1 <= MaxAttempts
CanRetry(c) == attempt[c] + 1 < MaxAttempts

----------------------------------------------------------------------------
(* Resolving authority *)

(* invokeTool starts; findCoveringGrant returns the narrowest active,      *)
(* unexpired grant, whose constraints the action satisfies or not; a       *)
(* failed query rejects the invocation.                                    *)
FindCoveringGrant(c) ==
  /\ pc[c] = "idle"
  /\ Cardinality(InFlight) < MaxInFlight
  /\ \/ /\ Covering = {}
        /\ Goto(c, Uncovered)
        /\ UNCHANGED <<grantOf, faults>>
     \/ \E g \in Covering :
          /\ \A h \in Covering : Narrowness[g] <= Narrowness[h]
          /\ grantOf' = [grantOf EXCEPT ![c] = g]
          /\ \/ Goto(c, "counting")
             \/ Goto(c, "escalating")
          /\ UNCHANGED faults
     \/ /\ Fault
        /\ Goto(c, "failed")
        /\ UNCHANGED grantOf
  /\ UNCHANGED <<grantVars, day, counterVars, attempt, effects, row, approval>>

(* Rate limit over the ledger rows of the window, then the spend checks.   *)
CountRecent(c) ==
  /\ pc[c] = "counting"
  /\ LET g == grantOf[c]
     IN  \/ /\ UnderLimit(g)
            /\ Goto(c, AfterRateLimit(c, g))
            /\ UNCHANGED faults
         \/ /\ ~UnderLimit(g)
            /\ Goto(c, "escalating")
            /\ UNCHANGED faults
         \/ /\ RateLimit[g] # NoCap
            /\ Fault
            /\ Goto(c, "escalating")
  /\ UNCHANGED <<grantVars, day, counterVars, grantOf, attempt, effects, row,
                 approval>>

(* Escalation triggers: quiet, fired, or an adapter throws out of the      *)
(* resolver and invokeTool rejects.                                        *)
EvaluateTriggers(c) ==
  /\ pc[c] = "triggers"
  /\ \/ Goto(c, "reserving") /\ UNCHANGED faults
     \/ Goto(c, "escalating") /\ UNCHANGED faults
     \/ Goto(c, "failed") /\ Fault
  /\ UNCHANGED <<grantVars, day, counterVars, grantOf, attempt, effects, row,
                 approval>>

(* Daily spend reservation, the last gate.  A thrown reserve escalates; it *)
(* may have been applied when only the reply was lost.                     *)
ReserveSpend(c) ==
  /\ pc[c] = "reserving"
  /\ LET g == grantOf[c]
     IN  \/ /\ ~Metered(c, g)
            /\ Goto(c, "executing")
            /\ UNCHANGED <<counterVars, faults>>
         \/ /\ Metered(c, g)
            /\ Fits(c, g, day)
            /\ Charge(c, g, day)
            /\ held' = [held EXCEPT ![c] = day]
            /\ Goto(c, "executing")
            /\ UNCHANGED faults
         \/ /\ Metered(c, g)
            /\ ~Fits(c, g, day)
            /\ Goto(c, "escalating")
            /\ UNCHANGED <<counterVars, faults>>
         \/ /\ Metered(c, g)
            /\ Fault
            /\ \/ UNCHANGED <<bucket, charged>>
               \/ /\ Fits(c, g, day)
                  /\ Charge(c, g, day)
            /\ Goto(c, ReserveThrew)
            /\ UNCHANGED held
  /\ UNCHANGED <<grantVars, day, grantOf, attempt, effects, row, approval>>

----------------------------------------------------------------------------
(* Approval paths *)

(* handlePerActionApproval: no grant covers a consequential action.  The   *)
(* pipeline auto-approves or queues; a failure never executes the action,  *)
(* though the row may exist when only the reply was lost.                  *)
RequestApproval(c) ==
  /\ pc[c] = "gating"
  /\ \E s \in {"none", "pending", "auto_approved"} :
       /\ approval' = [approval EXCEPT ![c] = s]
       /\ \/ s = "auto_approved" /\ Goto(c, "executing") /\ UNCHANGED faults
          \/ s = "pending" /\ Goto(c, "queued") /\ UNCHANGED faults
          \/ Fault /\ Goto(c, "failed")
  /\ UNCHANGED <<grantVars, day, counterVars, grantOf, attempt, effects, row>>

(* handleEscalation, first await: enqueue the approval row.  A failed      *)
(* insert ends the invocation; the mutant tries again without a bound.     *)
EnqueueThrew_Retries(c) == Goto(c, "escalating") /\ UNCHANGED faults
EnqueueThrew(c) == Goto(c, "failed") /\ Fault
EnqueueEscalation(c) ==
  /\ pc[c] = "escalating"
  /\ \E s \in {"none", "pending"} :
       /\ approval' = [approval EXCEPT ![c] = s]
       /\ \/ s = "pending" /\ Goto(c, "logging") /\ UNCHANGED faults
          \/ EnqueueThrew(c)
  /\ UNCHANGED <<grantVars, day, counterVars, grantOf, attempt, effects, row>>

(* handleEscalation, second await: the ledger row; a failure propagates.   *)
LogEscalation(c) ==
  /\ pc[c] = "logging"
  /\ \/ Goto(c, "queued") /\ UNCHANGED faults
     \/ Goto(c, "failed") /\ Fault
  /\ UNCHANGED <<grantVars, day, counterVars, grantOf, attempt, effects, row,
                 approval>>

(* The status filter of the customer's decision; the mutant has none for   *)
(* a row that was rejected.                                                *)
Undecided_Unfiltered(c) == approval[c] \in {"pending", "rejected"}
Undecided(c) == approval[c] = "pending"

(* The customer approves the row: executeApprovedAction invokes the tool   *)
(* again with preApproved, the grant of the escalation pinned and no       *)
(* reservation.  The row may be decided before the first invocation has    *)
(* reported it.                                                            *)
ApproveQueued(c) ==
  /\ Undecided(c)
  /\ pc[c] \in {"logging"} \cup Ended
  /\ approval' = [approval EXCEPT ![c] = "approved"]
  /\ attempt' = [attempt EXCEPT ![c] = 0]
  /\ Goto(c, "executing")
  /\ UNCHANGED <<grantVars, day, counterVars, grantOf, effects, row, faults>>

(* The customer rejects it, or it expires. *)
RejectQueued(c) ==
  /\ Undecided(c)
  /\ approval' = [approval EXCEPT ![c] = "rejected"]
  /\ UNCHANGED <<grantVars, day, counterVars, pc, grantOf, attempt, effects,
                 row, faults>>

----------------------------------------------------------------------------
(* Executing *)

(* One pass of the retry loop around executeTool.  A failure may come      *)
(* after the external mutation: a timeout, or an output that does not      *)
(* validate.  No caller wires the executor's idempotency lookup.           *)
Attempt(c) ==
  /\ pc[c] = "executing"
  /\ attempt' = [attempt EXCEPT ![c] = @ + 1]
  /\ \E hit \in {0, 1} :
       /\ effects' = [effects EXCEPT ![c] = @ + hit]
       /\ \/ hit = 1 /\ Goto(c, "recording")
          \/ Goto(c, "releasing")          \* not retryable, or exhausted
          \/ CanRetry(c) /\ Goto(c, "backoff")            \* retryable
  /\ UNCHANGED <<grantVars, day, counterVars, grantOf, row, approval, faults>>

(* The backoff sleep ends, or the run is aborted while it sleeps; the      *)
(* mutant throws the abort past the finally that releases.                 *)
Backoff_AbortSkipsFinally(c) ==
  /\ pc[c] = "backoff"
  /\ \/ Goto(c, "executing")
     \/ Goto(c, "failed")
  /\ UNCHANGED <<grantVars, day, counterVars, grantOf, attempt, effects, row,
                 approval, faults>>
Backoff(c) ==
  /\ pc[c] = "backoff"
  /\ \/ Goto(c, "executing")
     \/ Goto(c, "releasing")
  /\ UNCHANGED <<grantVars, day, counterVars, grantOf, attempt, effects, row,
                 approval, faults>>

(* recordActionTaken after a success under a grant; a failed append is     *)
(* logged and swallowed.                                                   *)
RecordActionTaken(c) ==
  /\ pc[c] = "recording"
  /\ \/ /\ grantOf[c] # NoGrant
        /\ row' = [row EXCEPT ![c] = "recent"]
        /\ UNCHANGED faults
     \/ /\ grantOf[c] # NoGrant
        /\ Fault
        /\ UNCHANGED row
     \/ /\ grantOf[c] = NoGrant
        /\ UNCHANGED <<row, faults>>
  /\ Goto(c, "succeeded")
  /\ UNCHANGED <<grantVars, day, counterVars, grantOf, attempt, effects,
                 approval>>

(* finally: a terminal failure releases the reservation, best effort.      *)
ReleaseReservation(c) ==
  /\ pc[c] = "releasing"
  /\ Goto(c, "failed")
  /\ held' = [held EXCEPT ![c] = NoDay]
  /\ \/ /\ held[c] = NoDay
        /\ UNCHANGED <<bucket, charged, faults>>
     \/ /\ held[c] # NoDay
        /\ Refund(c, grantOf[c], held[c])
        /\ \/ UNCHANGED faults
           \/ Fault                           \* done, but the reply is lost
     \/ /\ held[c] # NoDay
        /\ Fault
        /\ UNCHANGED <<bucket, charged>>
  /\ UNCHANGED <<grantVars, day, grantOf, attempt, effects, row, approval>>

(* The process dies: what the invocation holds in memory is gone. *)
Crash(c) ==
  /\ pc[c] \in Running
  /\ Fault
  /\ Goto(c, "crashed")
  /\ held' = [held EXCEPT ![c] = NoDay]
  /\ UNCHANGED <<grantVars, day, bucket, charged, grantOf, attempt, effects,
                 row, approval>>

----------------------------------------------------------------------------
(* Around the runtime *)

(* The grants move on their own, as StandingGrants says; GrantLifecycle has *)
(* the operations that move them.                                          *)
GrantTransition ==
  /\ Standing!Transition
  /\ UNCHANGED <<day, counterVars, pc, grantOf, attempt, effects, row, approval,
                 faults>>

Lapse(g) ==
  /\ Standing!Lapse(g)
  /\ UNCHANGED <<day, counterVars, pc, grantOf, attempt, effects, row, approval,
                 faults>>

(* created_at falls out of the rate limit's sliding window. *)
AgeOut(c) ==
  /\ row[c] = "recent"
  /\ row' = [row EXCEPT ![c] = "old"]
  /\ UNCHANGED <<grantVars, day, counterVars, pc, grantOf, attempt, effects,
                 approval, faults>>

NextDay ==
  /\ day < LastDay
  /\ day' = day + 1
  /\ UNCHANGED <<grantVars, counterVars, pc, grantOf, attempt, effects, row,
                 approval, faults>>

Step(c) ==
  \/ CountRecent(c) \/ EvaluateTriggers(c) \/ ReserveSpend(c)
  \/ RequestApproval(c) \/ EnqueueEscalation(c) \/ LogEscalation(c)
  \/ Attempt(c) \/ Backoff(c) \/ RecordActionTaken(c) \/ ReleaseReservation(c)

Next ==
  \/ \E c \in Calls :
        \/ FindCoveringGrant(c) \/ Step(c) \/ ApproveQueued(c)
        \/ RejectQueued(c) \/ Crash(c) \/ AgeOut(c)
  \/ GrantTransition
  \/ \E g \in Grants : Lapse(g)
  \/ NextDay

Spec == Init /\ [][Next]_vars

(* An invocation that is running gets its replies: promises settle and the *)
(* event loop runs their continuations.  Nothing makes customers, agents,  *)
(* grants or the clock move.                                               *)
FairSpec == Spec /\ \A c \in Calls : WF_vars(Step(c))
----------------------------------------------------------------------------
(* Properties *)

Committed(g, d) == {c \in Calls : grantOf[c] = g /\ charged[c] = d}
Unapproved(c) == grantOf[c] \in Grants /\ approval[c] = "none"
Acting(c) == \/ pc[c] \in Carrying \cup {"succeeded"}
             \/ pc[c] = "crashed" /\ effects[c] > 0

(* The bucket of a grant and a day is the sum of the reservations made and *)
(* not given back, whatever crashed, was lost or ran past midnight: no     *)
(* reservation is given back twice, on another day's bucket, or absorbed   *)
(* by the floor at zero of _kt_release_daily_counter.                      *)
BucketExact ==
  \A g \in Grants, d \in Days : bucket[g][d] = Total[Committed(g, d)]

(* max_unapproved_spend_per_day: the actions taken or being taken under a  *)
(* grant without an approval, by the day they reserved, never add up to    *)
(* more than its cap, however many invocations race for the last slot.     *)
DayCapHolds ==
  \A g \in Grants, d \in Days :
    DayCap[g] # NoCap =>
      Total[{c \in Committed(g, d) : Unapproved(c) /\ Acting(c)}] <= DayCap[g]

(* The gate fails closed: an action with a spend that no customer approved *)
(* acts only while the envelope of the grant it acts under counts it.      *)
UnapprovedSpendIsMetered ==
  \A c \in Calls :
    Unapproved(c) /\ Acting(c) /\ Metered(c, grantOf[c]) => charged[c] # NoDay

(* "EVERY terminal exit path releases exactly once" (run.ts): what is left *)
(* behind in the counter by invocations that did not use it is paid for by *)
(* infrastructure failures, at most one reservation for each of them.      *)
Leaked ==
  {c \in Calls : /\ charged[c] # NoDay
                 /\ pc[c] \notin Carrying \cup {"releasing", "succeeded"}}
LeaksAreFaults == Cardinality(Leaked) <= faults

(* The counter is the sum of the reservations in it, and those that should *)
(* not be there are no more than the failures.                             *)
ReservationsAreExact == BucketExact /\ LeaksAreFaults

(* A consequential action happens only under an approval or a grant, and   *)
(* never while its approval is still open or after it was turned down.     *)
NoEffectWithoutAuthority ==
  \A c \in Calls :
    effects[c] > 0 =>
      \/ approval[c] \in {"approved", "auto_approved"}
      \/ Unapproved(c)

(* Neither an authority nor an envelope that cannot be reached lets an     *)
(* action through: every effect was authorised, every unapproved spend is  *)
(* counted.                                                                *)
GateFailsClosed == NoEffectWithoutAuthority /\ UnapprovedSpendIsMetered

(* rate_limit: at most `count` actions taken under a grant without an      *)
(* approval inside the window.  The resolver counts rows that are written  *)
(* only after the action, so invocations that overlap may pass the same    *)
(* count: the limit is exceeded by those, and by no more than those.       *)
RateLimitHolds ==
  \A g \in Grants :
    RateLimit[g] # NoCap =>
      Cardinality({c \in RecentRows(g) : Unapproved(c)})
        <= RateLimit[g] + (MaxInFlight - 1)

(* A grant that has been revoked or has expired covers no invocation that  *)
(* starts afterwards: only those that had looked it up may still act.      *)
ActsUnder(c, g) == grantOf[c] = g /\ pc[c] \in Carrying
Stopped(g) == status[g] \in {"revoked", "expired"} \/ g \in lapsed
StoppedGrantStopsActing ==
  \A c \in Calls, g \in Grants :
    [](pc[c] = "idle" /\ Stopped(g) => []~ActsUnder(c, g))

(* Every invocation that starts ends: executed, failed, queued or denied.  *)
InvocationsEnd ==
  \A c \in Calls : pc[c] \in Running ~> pc[c] \in Ended

(* The counter implements the envelope of claims. *)
Envelope ==
  INSTANCE SpendEnvelope WITH
    Claims <- Calls,
    holders <- [g \in Grants |-> [d \in Days |-> Committed(g, d)]]
ImplementsEnvelope == Envelope!Spec

(* An escalated or queued action is decided once and started at most once  *)
(* under that decision: the attempts of the retry loop are one start, and  *)
(* nothing starts it while its approval is open or after it was rejected.  *)
Gate ==
  INSTANCE ApprovalGate WITH
    Approvals <- Calls,
    verdict <- approval,
    carried <- [c \in Calls |->
                  IF approval[c] \in {"approved", "auto_approved"}
                       /\ attempt[c] > 0
                  THEN 1 ELSE 0]
ImplementsGate == Gate!Spec
=============================================================================

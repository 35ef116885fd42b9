------------------------ MODULE AgentRuntime_proofs ------------------------
(***************************************************************************)
(* Proofs about AgentRuntime, for every set of calls, grants, caps, spends *)
(* and bounds that satisfy its assumptions.                                *)
(*                                                                         *)
(* The inductive invariant says where in the code an invocation may hold a *)
(* reservation or lack an authority.  Every step of the runtime then moves *)
(* no spend, reserves one call's spend or gives one call's spend back      *)
(* (StepMovesSpend), and the counter's exactness, the daily cap and the    *)
(* refinement of SpendEnvelope follow from those three cases alone.        *)
(***************************************************************************)
EXTENDS AgentRuntime, FiniteSetTheorems, TLAPS

----------------------------------------------------------------------------
(* The inductive invariant *)

Fresh == {"idle"} \cup Resolving   \* before anything is reserved or done
Authorised(c) == approval[c] \in {"approved", "auto_approved"} \/ Unapproved(c)

FreshIsClean(c) ==
  pc[c] \in Fresh \cup {"escalating"} => approval[c] = "none" /\ effects[c] = 0
FreshHoldsNothing(c) ==
  pc[c] \in Fresh => charged[c] = NoDay /\ held[c] = NoDay
GrantKnown(c) ==
  pc[c] \in {"counting", "triggers", "reserving", "escalating"}
    => grantOf[c] \in Grants
IdleIsUngranted(c) == pc[c] = "idle" => grantOf[c] = NoGrant
HeldIsCharged(c) == held[c] # NoDay => charged[c] = held[c]
ChargedIsGranted(c) ==
  charged[c] # NoDay => grantOf[c] \in Grants /\ DayCap[grantOf[c]] # NoCap
AttemptsLeft(c) ==
  pc[c] \in Fresh \cup {"executing", "backoff"} => attempt[c] < MaxAttempts
LoggingIsOpen(c) == pc[c] = "logging" => approval[c] \in {"pending", "rejected"}
CarryingIsAuthorised(c) == pc[c] \in Carrying => Authorised(c)
EffectIsAuthorised(c) == effects[c] > 0 => Authorised(c)
ActingIsMetered(c) ==
  Unapproved(c) /\ Metered(c, grantOf[c]) /\ (Acting(c) \/ pc[c] = "releasing")
    => charged[c] # NoDay

Sane(c) ==
  /\ FreshIsClean(c) /\ FreshHoldsNothing(c) /\ GrantKnown(c)
  /\ HeldIsCharged(c) /\ ChargedIsGranted(c) /\ AttemptsLeft(c)
  /\ LoggingIsOpen(c) /\ CarryingIsAuthorised(c) /\ EffectIsAuthorised(c)
  /\ ActingIsMetered(c) /\ IdleIsUngranted(c)
AllSane == \A c \in Calls : Sane(c)

UnderCap ==
  \A g \in Grants, d \in Days : DayCap[g] # NoCap => bucket[g][d] <= DayCap[g]

IInv == TypeOK /\ AllSane /\ BucketExact /\ UnderCap

----------------------------------------------------------------------------
(* Type correctness *)

(* A refund never drives a bucket below zero. *)
LEMMA LessIsNatural ==
  ASSUME NEW n \in Nat, NEW m \in Nat
  PROVE  Less(n, m) \in Nat /\ (m <= n => Less(n, m) = n - m)
BY DEF Less

(* Setting one day of one grant's bucket keeps the buckets well typed. *)
LEMMA SetBucket ==
  ASSUME NEW b \in [Grants -> [Days -> Nat]],
         NEW g \in Grants, NEW d \in Days, NEW n \in Nat
  PROVE  /\ [b EXCEPT ![g][d] = n] \in [Grants -> [Days -> Nat]]
         /\ \A h \in Grants, e \in Days :
              [b EXCEPT ![g][d] = n][h][e] = IF h = g /\ e = d THEN n
                                            ELSE b[h][e]
<1>1. [b[g] EXCEPT ![d] = n] \in [Days -> Nat]
  OBVIOUS
<1>2. [b EXCEPT ![g] = [b[g] EXCEPT ![d] = n]] \in [Grants -> [Days -> Nat]]
  BY <1>1
<1>3. ASSUME NEW h \in Grants, NEW e \in Days
      PROVE  [b EXCEPT ![g][d] = n][h][e] = IF h = g /\ e = d THEN n
                                            ELSE b[h][e]
  <2>1. CASE h = g
    BY <2>1
  <2>2. CASE h # g
    BY <2>2
  <2> QED
    BY <2>1, <2>2
<1> QED
  BY <1>2, <1>3

(* The initial state satisfies the invariant. *)
LEMMA InitIsSafe == Init => IInv
<1> SUFFICES ASSUME Init PROVE IInv
  OBVIOUS
<1>1. TypeOK
  BY CallAssumption
     DEF Init, Standing!Init, Standing!Statuses, TypeOK, Days, NoDay, Running,
         Resolving
<1>2. \A g \in Grants, d \in Days : Committed(g, d) = {}
  BY CallAssumption DEF Init, Committed, Days, NoDay
<1>3. \A g \in Grants, d \in Days : bucket[g][d] = 0
  BY DEF Init
<1>4. Total[{}] = 0
  BY TotalAssumption
<1>5. BucketExact
  BY <1>2, <1>3, <1>4 DEF BucketExact
<1>6. \A g \in Grants : DayCap[g] # NoCap => DayCap[g] \in Nat
  BY CapAssumption
<1>7. UnderCap
  BY <1>3, <1>6 DEF UnderCap
<1>8. AllSane
  BY <1>1, CallAssumption
     DEF Init, AllSane, Sane, FreshIsClean, FreshHoldsNothing, GrantKnown,
         HeldIsCharged, ChargedIsGranted, AttemptsLeft, LoggingIsOpen,
         CarryingIsAuthorised, EffectIsAuthorised, ActingIsMetered,
         IdleIsUngranted, Fresh,
         Resolving, Carrying, Acting, Authorised
<1> QED
  BY <1>1, <1>5, <1>7, <1>8 DEF IInv

(* Every step keeps the variables in their types. *)
LEMMA TypeStep ==
  ASSUME TypeOK, AllSane, [Next]_vars
  PROVE  TypeOK'
<1> USE CallAssumption
    DEF TypeOK, Goto, Fault, grantVars, counterVars, Running, Resolving,
        Escalating, Carrying, Ended
<1>1. ASSUME NEW c \in Calls, FindCoveringGrant(c) PROVE TypeOK'
  <2>1. pc' \in [Calls -> Running \cup Ended \cup {"idle"}]
    BY <1>1 DEF FindCoveringGrant, Uncovered
  <2>2. grantOf' \in [Calls -> Grants \cup {NoGrant}]
    BY <1>1 DEF FindCoveringGrant, Covering
  <2>3. faults' \in 0..MaxFaults
    BY <1>1 DEF FindCoveringGrant
  <2> QED
    BY <1>1, <2>1, <2>2, <2>3 DEF FindCoveringGrant
<1>2. ASSUME NEW c \in Calls, CountRecent(c) PROVE TypeOK'
  BY <1>2 DEF CountRecent, AfterRateLimit
<1>3. ASSUME NEW c \in Calls, EvaluateTriggers(c) PROVE TypeOK'
  BY <1>3 DEF EvaluateTriggers
<1>4. ASSUME NEW c \in Calls, ReserveSpend(c) PROVE TypeOK'
  <2>1. /\ pc' \in [Calls -> Running \cup Ended \cup {"idle"}]
        /\ faults' \in 0..MaxFaults
    <3>1. \/ pc' = [pc EXCEPT ![c] = "executing"]
          \/ pc' = [pc EXCEPT ![c] = "escalating"]
      BY <1>4 DEF ReserveSpend, ReserveThrew
    <3>2. faults' = faults \/ (faults < MaxFaults /\ faults' = faults + 1)
      BY <1>4 DEF ReserveSpend
    <3> QED
      BY <3>1, <3>2
  <2>2. /\ grantOf[c] \in Grants
        /\ bucket[grantOf[c]][day] + Spend[c] \in Nat
    BY <1>4 DEF ReserveSpend, AllSane, Sane, GrantKnown
  <2>3. bucket' \in [Grants -> [Days -> Nat]]
    <3>1. CASE UNCHANGED bucket
      BY <3>1
    <3>2. CASE Charge(c, grantOf[c], day)
      BY <2>2, <3>2, SetBucket DEF Charge
    <3> QED
      BY <1>4, <3>1, <3>2 DEF ReserveSpend
  <2>4. charged' \in [Calls -> Days \cup {NoDay}]
    BY <1>4 DEF ReserveSpend, Charge
  <2>5. held' \in [Calls -> Days \cup {NoDay}]
    BY <1>4 DEF ReserveSpend
  <2> QED
    BY <1>4, <2>1, <2>3, <2>4, <2>5 DEF ReserveSpend
<1>5. ASSUME NEW c \in Calls, RequestApproval(c) PROVE TypeOK'
  BY <1>5 DEF RequestApproval
<1>6. ASSUME NEW c \in Calls, EnqueueEscalation(c) PROVE TypeOK'
  BY <1>6 DEF EnqueueEscalation, EnqueueThrew
<1>7. ASSUME NEW c \in Calls, LogEscalation(c) PROVE TypeOK'
  BY <1>7 DEF LogEscalation
<1>8. ASSUME NEW c \in Calls, ApproveQueued(c) PROVE TypeOK'
  BY <1>8 DEF Undecided, ApproveQueued
<1>9. ASSUME NEW c \in Calls, RejectQueued(c) PROVE TypeOK'
  BY <1>9 DEF Undecided, RejectQueued
<1>10. ASSUME NEW c \in Calls, Attempt(c) PROVE TypeOK'
  BY <1>10 DEF Attempt, CanRetry, AllSane, Sane, AttemptsLeft
<1>11. ASSUME NEW c \in Calls, Backoff(c) PROVE TypeOK'
  BY <1>11 DEF Backoff
<1>12. ASSUME NEW c \in Calls, RecordActionTaken(c) PROVE TypeOK'
  BY <1>12 DEF RecordActionTaken
<1>13. ASSUME NEW c \in Calls, ReleaseReservation(c) PROVE TypeOK'
  <2>1. /\ pc' \in [Calls -> Running \cup Ended \cup {"idle"}]
        /\ faults' \in 0..MaxFaults
        /\ held' \in [Calls -> Days \cup {NoDay}]
    BY <1>13 DEF ReleaseReservation
  <2>2. charged' \in [Calls -> Days \cup {NoDay}]
    BY <1>13 DEF ReleaseReservation, Refund
  <2>3. bucket' \in [Grants -> [Days -> Nat]]
    <3>1. CASE UNCHANGED bucket
      BY <3>1
    <3>2. CASE held[c] # NoDay /\ Refund(c, grantOf[c], held[c])
      <4>1. grantOf[c] \in Grants /\ held[c] \in Days
        BY <3>2 DEF AllSane, Sane, HeldIsCharged, ChargedIsGranted
      <4>2. Less(bucket[grantOf[c]][held[c]], Spend[c]) \in Nat
        <5>1. bucket[grantOf[c]][held[c]] \in Nat /\ Spend[c] \in Nat
          BY <4>1
        <5> QED
          BY <5>1, LessIsNatural
      <4> QED
        BY <3>2, <4>1, <4>2, SetBucket DEF Refund
    <3> QED
      BY <1>13, <3>1, <3>2 DEF ReleaseReservation
  <2> QED
    BY <1>13, <2>1, <2>2, <2>3 DEF ReleaseReservation
<1>14. ASSUME NEW c \in Calls, Crash(c) PROVE TypeOK'
  BY <1>14 DEF Crash
<1>15. ASSUME NEW c \in Calls, AgeOut(c) PROVE TypeOK'
  BY <1>15 DEF AgeOut
<1>16. CASE GrantTransition
  BY <1>16 DEF GrantTransition, Standing!Transition
<1>17. ASSUME NEW g \in Grants, Lapse(g) PROVE TypeOK'
  BY <1>17 DEF Lapse, Standing!Lapse
<1>18. CASE NextDay
  BY <1>18 DEF NextDay, Days
<1>19. CASE UNCHANGED vars
  BY <1>19 DEF vars
<1> QED
  BY <1>1, <1>2, <1>3, <1>4, <1>5, <1>6, <1>7, <1>8, <1>9, <1>10, <1>11,
     <1>12, <1>13, <1>14, <1>15, <1>16, <1>17, <1>18, <1>19
     DEF Next, Step

----------------------------------------------------------------------------
(* Control: who may hold a reservation or act *)

SameCall(k) ==
  /\ pc'[k] = pc[k] /\ grantOf'[k] = grantOf[k] /\ held'[k] = held[k]
  /\ charged'[k] = charged[k] /\ attempt'[k] = attempt[k]
  /\ effects'[k] = effects[k] /\ approval'[k] = approval[k]

(* A call whose own state a step leaves alone stays as it was. *)
LEMMA SameCallIsSane ==
  ASSUME NEW k \in Calls, Sane(k), SameCall(k)
  PROVE  Sane(k)'
BY DEF SameCall, Sane, FreshIsClean, FreshHoldsNothing, GrantKnown,
       HeldIsCharged, ChargedIsGranted, AttemptsLeft, LoggingIsOpen,
       CarryingIsAuthorised, EffectIsAuthorised, ActingIsMetered,
       IdleIsUngranted, Authorised,
       Unapproved, Acting, Metered

(* A step of one call leaves the others alone. *)
LEMMA OthersAreSame ==
  ASSUME TypeOK, NEW c \in Calls,
         \/ FindCoveringGrant(c) \/ Step(c) \/ ApproveQueued(c)
         \/ RejectQueued(c) \/ Crash(c) \/ AgeOut(c)
  PROVE  \A k \in Calls : k # c => SameCall(k)
<1> USE DEF TypeOK, SameCall, Goto, grantVars, counterVars
<1>1. CASE FindCoveringGrant(c)
  BY <1>1 DEF FindCoveringGrant
<1>2. CASE CountRecent(c) \/ EvaluateTriggers(c) \/ LogEscalation(c)
  BY <1>2 DEF CountRecent, EvaluateTriggers, LogEscalation
<1>3. CASE ReserveSpend(c)
  BY <1>3 DEF ReserveSpend, Charge
<1>4. CASE RequestApproval(c) \/ EnqueueEscalation(c)
  BY <1>4 DEF RequestApproval, EnqueueEscalation, EnqueueThrew
<1>5. CASE Attempt(c) \/ Backoff(c) \/ RecordActionTaken(c)
  BY <1>5 DEF Attempt, Backoff, RecordActionTaken
<1>6. CASE ReleaseReservation(c)
  BY <1>6 DEF ReleaseReservation, Refund
<1>7. CASE ApproveQueued(c) \/ RejectQueued(c) \/ Crash(c) \/ AgeOut(c)
  BY <1>7 DEF Undecided, ApproveQueued, RejectQueued, Crash, AgeOut
<1> QED
  BY <1>1, <1>2, <1>3, <1>4, <1>5, <1>6, <1>7 DEF Step

(* The call that moves stays sane, whichever await it comes back from. *)
LEMMA MoverIsSane ==
  ASSUME TypeOK, NEW c \in Calls, Sane(c),
         \/ FindCoveringGrant(c) \/ Step(c) \/ ApproveQueued(c)
         \/ RejectQueued(c) \/ Crash(c) \/ AgeOut(c)
  PROVE  Sane(c)'
<1> USE CallAssumption
    DEF TypeOK, Goto, grantVars, counterVars, Sane, FreshIsClean,
        FreshHoldsNothing, GrantKnown, HeldIsCharged, ChargedIsGranted,
        AttemptsLeft, LoggingIsOpen, CarryingIsAuthorised, EffectIsAuthorised,
        ActingIsMetered, IdleIsUngranted, Authorised, Unapproved, Acting, Fresh, Resolving,
        Carrying, Ended
<1>1. CASE FindCoveringGrant(c)
  BY <1>1 DEF FindCoveringGrant, Covering, Uncovered
<1>2. CASE CountRecent(c)
  BY <1>2 DEF CountRecent, AfterRateLimit
<1>3. CASE EvaluateTriggers(c)
  BY <1>3 DEF EvaluateTriggers
<1>4. CASE ReserveSpend(c)
  <2>1. day # NoDay
    BY DEF Days, NoDay
  <2>2. CASE pc' = [pc EXCEPT ![c] = "escalating"]
    BY <1>4, <2>1, <2>2 DEF ReserveSpend, Charge, ReserveThrew, Metered
  <2>3. CASE ~Metered(c, grantOf[c]) /\ UNCHANGED counterVars
             /\ pc' = [pc EXCEPT ![c] = "executing"]
    BY <1>4, <2>3 DEF ReserveSpend, Metered
  <2>4. CASE /\ Metered(c, grantOf[c])
             /\ Charge(c, grantOf[c], day)
             /\ held' = [held EXCEPT ![c] = day]
             /\ pc' = [pc EXCEPT ![c] = "executing"]
    BY <1>4, <2>1, <2>4 DEF ReserveSpend, Charge, Metered
  <2> QED
    BY <1>4, <2>2, <2>3, <2>4 DEF ReserveSpend, ReserveThrew
<1>5. CASE RequestApproval(c)
  BY <1>5 DEF RequestApproval
<1>6. CASE EnqueueEscalation(c)
  BY <1>6 DEF EnqueueEscalation, EnqueueThrew
<1>7. CASE LogEscalation(c)
  BY <1>7 DEF LogEscalation
<1>8. CASE Attempt(c)
  BY <1>8 DEF Attempt, CanRetry
<1>9. CASE Backoff(c)
  BY <1>9 DEF Backoff
<1>10. CASE RecordActionTaken(c)
  BY <1>10 DEF RecordActionTaken
<1>11. CASE ReleaseReservation(c)
  BY <1>11 DEF ReleaseReservation, Refund
<1>12. CASE ApproveQueued(c)
  BY <1>12 DEF Undecided, ApproveQueued
<1>13. CASE RejectQueued(c)
  BY <1>13 DEF Undecided, RejectQueued
<1>14. CASE Crash(c)
  BY <1>14 DEF Crash, Running, Escalating
<1>15. CASE AgeOut(c)
  BY <1>15 DEF AgeOut
<1> QED
  BY <1>1, <1>2, <1>3, <1>4, <1>5, <1>6, <1>7, <1>8, <1>9, <1>10, <1>11,
     <1>12, <1>13, <1>14, <1>15 DEF Step

----------------------------------------------------------------------------
(* Spending: what a step may do to the counter *)

NoneMoves ==
  /\ bucket' = bucket
  /\ charged' = charged
  /\ \A c \in Calls : grantOf'[c] = grantOf[c] \/ charged[c] = NoDay
Reserves(c, g, d) ==
  /\ charged[c] = NoDay
  /\ g = grantOf[c] /\ d = day
  /\ DayCap[g] # NoCap
  /\ Fits(c, g, d)
  /\ Charge(c, g, d)
  /\ grantOf' = grantOf
Returns(c, g, d) ==
  /\ g = grantOf[c] /\ d = charged[c]
  /\ Refund(c, g, d)
  /\ grantOf' = grantOf

(* Every step leaves the spend alone, reserves one call's spend that was   *)
(* not counted yet, or returns one call's spend to the bucket it came from.*)
LEMMA StepMovesSpend ==
  ASSUME TypeOK, AllSane, [Next]_vars
  PROVE  \/ NoneMoves
         \/ \E c \in Calls, g \in Grants, d \in Days :
              Reserves(c, g, d) \/ Returns(c, g, d)
<1> USE DEF TypeOK, Goto, grantVars, counterVars
<1>1. ASSUME NEW c \in Calls, FindCoveringGrant(c) PROVE NoneMoves
  <2>1. charged[c] = NoDay
    BY <1>1 DEF FindCoveringGrant, AllSane, Sane, FreshHoldsNothing, Fresh
  <2> QED
    BY <1>1, <2>1 DEF FindCoveringGrant, NoneMoves
<1>2. ASSUME NEW c \in Calls, ReserveSpend(c)
      PROVE  NoneMoves \/ \E g \in Grants, d \in Days : Reserves(c, g, d)
  <2>1. charged[c] = NoDay /\ grantOf[c] \in Grants
    BY <1>2 DEF ReserveSpend, AllSane, Sane, FreshHoldsNothing, GrantKnown,
                Fresh, Resolving
  <2>2. CASE bucket' = bucket /\ charged' = charged
    BY <1>2, <2>2 DEF ReserveSpend, NoneMoves
  <2>3. CASE /\ Metered(c, grantOf[c])
             /\ Fits(c, grantOf[c], day)
             /\ Charge(c, grantOf[c], day)
    <3>1. Reserves(c, grantOf[c], day)
      BY <1>2, <2>1, <2>3 DEF ReserveSpend, Reserves, Metered
    <3> QED
      BY <2>1, <3>1
  <2> QED
    BY <1>2, <2>2, <2>3 DEF ReserveSpend
<1>3. ASSUME NEW c \in Calls, ReleaseReservation(c)
      PROVE  NoneMoves \/ \E g \in Grants, d \in Days : Returns(c, g, d)
  <2>1. CASE bucket' = bucket /\ charged' = charged
    BY <1>3, <2>1 DEF ReleaseReservation, NoneMoves
  <2>2. CASE held[c] # NoDay /\ Refund(c, grantOf[c], held[c])
    <3>1. /\ charged[c] = held[c] /\ grantOf[c] \in Grants
          /\ held[c] \in Days
      BY <2>2 DEF AllSane, Sane, HeldIsCharged, ChargedIsGranted
    <3>2. Returns(c, grantOf[c], held[c])
      BY <1>3, <2>2, <3>1 DEF ReleaseReservation, Returns
    <3> QED
      BY <3>1, <3>2
  <2> QED
    BY <1>3, <2>1, <2>2 DEF ReleaseReservation
<1>4. ASSUME NEW c \in Calls,
             \/ CountRecent(c) \/ EvaluateTriggers(c) \/ RequestApproval(c)
             \/ EnqueueEscalation(c) \/ LogEscalation(c) \/ Attempt(c)
             \/ Backoff(c) \/ RecordActionTaken(c)
      PROVE  NoneMoves
  BY <1>4 DEF CountRecent, EvaluateTriggers, RequestApproval,
              EnqueueEscalation, LogEscalation, Attempt, Backoff,
              RecordActionTaken, NoneMoves
<1>5. ASSUME NEW c \in Calls,
             ApproveQueued(c) \/ RejectQueued(c) \/ Crash(c) \/ AgeOut(c)
      PROVE  NoneMoves
  BY <1>5 DEF Undecided, ApproveQueued, RejectQueued, Crash, AgeOut, NoneMoves
<1>6. ASSUME GrantTransition \/ \E g \in Grants : Lapse(g)
      PROVE  NoneMoves
  BY <1>6 DEF GrantTransition, Lapse, NoneMoves
<1>7. CASE NextDay \/ UNCHANGED vars
  BY <1>7 DEF NextDay, vars, NoneMoves
<1> QED
  BY <1>1, <1>2, <1>3, <1>4, <1>5, <1>6, <1>7 DEF Next, Step

(* What the three kinds of step do to the sets of claims. *)
LEMMA CommittedStays ==
  ASSUME TypeOK, NoneMoves, NEW g \in Grants, NEW d \in Days
  PROVE  Committed(g, d)' = Committed(g, d)
BY CallAssumption DEF TypeOK, NoneMoves, Committed, Days, NoDay

LEMMA CommittedGains ==
  ASSUME TypeOK, NEW c \in Calls, NEW g \in Grants, NEW d \in Days,
         Reserves(c, g, d)
  PROVE  \A h \in Grants, e \in Days :
           Committed(h, e)' = IF h = g /\ e = d THEN Committed(h, e) \cup {c}
                              ELSE Committed(h, e)
BY CallAssumption DEF TypeOK, Reserves, Charge, Committed, Days, NoDay

LEMMA CommittedLoses ==
  ASSUME TypeOK, NEW c \in Calls, NEW g \in Grants, NEW d \in Days,
         Returns(c, g, d)
  PROVE  /\ c \in Committed(g, d)
         /\ \A h \in Grants, e \in Days :
              Committed(h, e)' = IF h = g /\ e = d THEN Committed(h, e) \ {c}
                                 ELSE Committed(h, e)
BY CallAssumption DEF TypeOK, Returns, Refund, Committed, Days, NoDay

(* The sum of a set of calls without one of its members. *)
LEMMA TotalWithout ==
  ASSUME NEW S \in SUBSET Calls, NEW c \in S
  PROVE  /\ Total[S] = Total[S \ {c}] + Spend[c]
         /\ Total[S \ {c}] \in Nat /\ Spend[c] \in Nat
<1>1. /\ S \ {c} \in SUBSET Calls
      /\ c \in Calls \ (S \ {c})
      /\ (S \ {c}) \cup {c} = S
  OBVIOUS
<1>2. Total[(S \ {c}) \cup {c}] = Total[S \ {c}] + Spend[c]
  BY <1>1, TotalAssumption
<1> QED
  BY <1>1, <1>2, TotalAssumption, CallAssumption

(* The buckets stay the exact sums of the claims, and under their caps. *)
LEMMA SpendingStep ==
  ASSUME TypeOK, AllSane, BucketExact, UnderCap, [Next]_vars
  PROVE  BucketExact' /\ UnderCap'
<1> USE DEF BucketExact, UnderCap
<1>1. CASE NoneMoves
  BY <1>1, CommittedStays DEF NoneMoves
<1>2. ASSUME NEW c \in Calls, NEW g \in Grants, NEW d \in Days,
             Reserves(c, g, d)
      PROVE  BucketExact' /\ UnderCap'
  <2>1. /\ bucket[g][d] \in Nat /\ Spend[c] \in Nat
        /\ DayCap[g] \in Nat
        /\ Committed(g, d) \in SUBSET Calls /\ c \notin Committed(g, d)
    BY <1>2, CallAssumption, CapAssumption
       DEF TypeOK, Reserves, Committed, Days, NoDay
  <2>2. Total[Committed(g, d) \cup {c}] = bucket[g][d] + Spend[c]
    BY <2>1, TotalAssumption
  <2>3. \A h \in Grants, e \in Days :
          bucket'[h][e] = IF h = g /\ e = d THEN bucket[g][d] + Spend[c]
                          ELSE bucket[h][e]
    BY <1>2, <2>1, SetBucket DEF Reserves, Charge, TypeOK
  <2>4. bucket[g][d] + Spend[c] <= DayCap[g]
    BY <1>2 DEF Reserves, Fits
  <2>5. BucketExact'
    BY <1>2, <2>2, <2>3, CommittedGains
  <2>6. UnderCap'
    BY <2>3, <2>4
  <2> QED
    BY <2>5, <2>6
<1>3. ASSUME NEW c \in Calls, NEW g \in Grants, NEW d \in Days,
             Returns(c, g, d)
      PROVE  BucketExact' /\ UnderCap'
  <2>1. c \in Committed(g, d) /\ Committed(g, d) \in SUBSET Calls
    BY <1>3, CommittedLoses DEF Committed
  <2>2. /\ bucket[g][d] = Total[Committed(g, d) \ {c}] + Spend[c]
        /\ Total[Committed(g, d) \ {c}] \in Nat /\ Spend[c] \in Nat
    BY <2>1, TotalWithout
  <2>3. Less(bucket[g][d], Spend[c]) = Total[Committed(g, d) \ {c}]
    BY <2>2 DEF Less
  <2>4. \A h \in Grants, e \in Days :
          bucket'[h][e] = IF h = g /\ e = d THEN Total[Committed(g, d) \ {c}]
                          ELSE bucket[h][e]
    BY <1>3, <2>2, <2>3, SetBucket DEF Returns, Refund, TypeOK
  <2>5. BucketExact'
    BY <1>3, <2>4, CommittedLoses
  <2>6. UnderCap'
    <3>1. DayCap[g] # NoCap =>
            DayCap[g] \in Nat /\ Total[Committed(g, d) \ {c}] <= DayCap[g]
      BY <2>2, CapAssumption
    <3> QED
      BY <2>4, <3>1
  <2> QED
    BY <2>5, <2>6
<1> QED
  BY <1>1, <1>2, <1>3, StepMovesSpend

(* The invariant is inductive. *)
LEMMA StepIsSafe ==
  ASSUME IInv, [Next]_vars
  PROVE  IInv'
<1> USE DEF IInv
<1>1. TypeOK'
  BY TypeStep
<1>2. BucketExact' /\ UnderCap'
  BY SpendingStep
<1>3. AllSane'
  <2>1. ASSUME NEW c \in Calls,
               \/ FindCoveringGrant(c) \/ Step(c) \/ ApproveQueued(c)
               \/ RejectQueued(c) \/ Crash(c) \/ AgeOut(c)
        PROVE  AllSane'
    BY <2>1, OthersAreSame, SameCallIsSane, MoverIsSane DEF AllSane
  <2>2. ASSUME \A k \in Calls : SameCall(k) PROVE AllSane'
    BY <2>2, SameCallIsSane DEF AllSane
  <2>3. ASSUME GrantTransition \/ \E g \in Grants : Lapse(g)
        PROVE  \A k \in Calls : SameCall(k)
    BY <2>3 DEF GrantTransition, Lapse, SameCall, counterVars
  <2>4. ASSUME NextDay \/ UNCHANGED vars PROVE \A k \in Calls : SameCall(k)
    BY <2>4 DEF NextDay, vars, SameCall, counterVars
  <2> QED
    BY <2>1, <2>2, <2>3, <2>4 DEF Next
<1> QED
  BY <1>1, <1>2, <1>3

LEMMA SpecIsSafe == Spec => []IInv
<1> QED
  BY InitIsSafe, StepIsSafe, PTL DEF Spec

----------------------------------------------------------------------------
(* The theorems *)

(* Every variable keeps its type. *)
THEOREM TypeCorrect == Spec => []TypeOK
<1> QED
  BY SpecIsSafe, PTL DEF IInv

(* The counter of kinetiks_daily_counters never drifts: for every grant and*)
(* day it is the sum of the reservations still held, through crashes, lost *)
(* replies, failed releases and midnight.                                  *)
THEOREM BucketIsExact == Spec => []BucketExact
<1> QED
  BY SpecIsSafe, PTL DEF IInv

(* max_unapproved_spend_per_day holds however many invocations race.       *)
THEOREM DayCapIsHeld == Spec => []DayCapHolds
<1>1. IInv => DayCapHolds
  <2> SUFFICES ASSUME IInv, NEW g \in Grants, NEW d \in Days,
                      DayCap[g] # NoCap
               PROVE  Total[{c \in Committed(g, d) :
                               Unapproved(c) /\ Acting(c)}] <= DayCap[g]
    BY DEF DayCapHolds
  <2> DEFINE A == {c \in Committed(g, d) : Unapproved(c) /\ Acting(c)}
  <2>1. /\ A \subseteq Committed(g, d)
        /\ A \in SUBSET Calls /\ Committed(g, d) \in SUBSET Calls
    BY DEF Committed
  <2>2. Total[A] <= Total[Committed(g, d)]
    BY <2>1, TotalAssumption
  <2>3. /\ Total[Committed(g, d)] = bucket[g][d]
        /\ bucket[g][d] <= DayCap[g]
    BY DEF IInv, BucketExact, UnderCap
  <2>4. Total[A] \in Nat /\ bucket[g][d] \in Nat /\ DayCap[g] \in Nat
    BY <2>1, TotalAssumption, CapAssumption DEF IInv, TypeOK
  <2> QED
    BY <2>2, <2>3, <2>4
<1> QED
  BY <1>1, SpecIsSafe, PTL

(* The envelope fails closed: what no customer approved is metered.        *)
THEOREM SpendIsMetered == Spec => []UnapprovedSpendIsMetered
<1>1. IInv => UnapprovedSpendIsMetered
  BY DEF IInv, AllSane, Sane, ActingIsMetered, UnapprovedSpendIsMetered
<1> QED
  BY <1>1, SpecIsSafe, PTL

(* No consequential action without an approval or a grant.                 *)
THEOREM EffectsAreAuthorised == Spec => []NoEffectWithoutAuthority
<1>1. IInv => NoEffectWithoutAuthority
  BY DEF IInv, AllSane, Sane, EffectIsAuthorised, Authorised,
         NoEffectWithoutAuthority
<1> QED
  BY <1>1, SpecIsSafe, PTL

(* Two families of claims that differ in one day of one grant. *)
LEMMA PointUpdate ==
  ASSUME NEW a \in [Grants -> [Days -> SUBSET Calls]],
         NEW b \in [Grants -> [Days -> SUBSET Calls]],
         NEW g \in Grants, NEW d \in Days, NEW X,
         \A h \in Grants, e \in Days :
           b[h][e] = IF h = g /\ e = d THEN X ELSE a[h][e]
  PROVE  b = [a EXCEPT ![g][d] = X]
<1>1. b[g] = [a[g] EXCEPT ![d] = X]
  OBVIOUS
<1>2. \A h \in Grants : h # g => b[h] = a[h]
  OBVIOUS
<1> QED
  BY <1>1, <1>2

(* The counter implements the envelope of claims: each step of the runtime *)
(* holds a claim the envelope has room for, gives one back, or stutters.   *)
THEOREM EnvelopeIsImplemented == Spec => ImplementsEnvelope
<1> DEFINE H == [g \in Grants |-> [d \in Days |-> Committed(g, d)]]
<1>1. Init => Envelope!Init
  BY CallAssumption DEF Init, Envelope!Init, Committed, Days, NoDay
<1>2. IInv /\ [Next]_vars => [Envelope!Next]_H
  <2> SUFFICES ASSUME IInv, [Next]_vars PROVE Envelope!Next \/ H' = H
    OBVIOUS
  <2> USE DEF IInv
  <2>0. /\ H \in [Grants -> [Days -> SUBSET Calls]]
        /\ H' \in [Grants -> [Days -> SUBSET Calls]]
    BY DEF Committed
  <2>1. CASE NoneMoves
    BY <2>1, CommittedStays
  <2>2. ASSUME NEW c \in Calls, NEW g \in Grants, NEW d \in Days,
               Reserves(c, g, d)
        PROVE  Envelope!Hold(c, g, d)
    <3>1. Envelope!Unheld(c)
      BY <2>2, CallAssumption
         DEF Reserves, Envelope!Unheld, Committed, Days, NoDay
    <3>2. /\ Committed(g, d) \in SUBSET Calls
          /\ c \in Calls \ Committed(g, d)
      BY <2>2, CallAssumption DEF Reserves, Committed, Days, NoDay
    <3>3. Total[Committed(g, d) \cup {c}] <= DayCap[g]
      <4>1. Total[Committed(g, d) \cup {c}]
              = Total[Committed(g, d)] + Spend[c]
        BY <3>2, TotalAssumption
      <4> QED
        BY <2>2, <4>1 DEF Reserves, Fits, BucketExact
    <3>4. H' = [H EXCEPT ![g][d] = @ \cup {c}]
      <4>1. \A h \in Grants, e \in Days :
              H'[h][e] = IF h = g /\ e = d THEN H[g][d] \cup {c} ELSE H[h][e]
        BY <2>2, CommittedGains
      <4> HIDE DEF H
      <4> QED
        BY <2>0, <4>1, PointUpdate
    <3> QED
      BY <2>2, <3>1, <3>3, <3>4 DEF Envelope!Hold, Reserves
  <2>3. ASSUME NEW c \in Calls, NEW g \in Grants, NEW d \in Days,
               Returns(c, g, d)
        PROVE  Envelope!GiveBack(c, g, d)
    <3>1. H' = [H EXCEPT ![g][d] = @ \ {c}]
      <4>1. \A h \in Grants, e \in Days :
              H'[h][e] = IF h = g /\ e = d THEN H[g][d] \ {c} ELSE H[h][e]
        BY <2>3, CommittedLoses
      <4> HIDE DEF H
      <4> QED
        BY <2>0, <4>1, PointUpdate
    <3> QED
      BY <2>3, <3>1, CommittedLoses DEF Envelope!GiveBack
  <2> QED
    BY <2>1, <2>2, <2>3, StepMovesSpend DEF Envelope!Next
<1> QED
  BY <1>1, <1>2, SpecIsSafe, PTL
     DEF Spec, ImplementsEnvelope, Envelope!Spec

(* Once a grant is revoked, expired or past its expires_at, no invocation  *)
(* that has not started yet will ever act under it.                        *)
THEOREM StoppedGrantStops == Spec => StoppedGrantStopsActing
<1>1. ASSUME NEW c \in Calls, NEW g \in Grants
      PROVE  Spec => [](pc[c] = "idle" /\ Stopped(g) => []~ActsUnder(c, g))
  <2> DEFINE K == Stopped(g) /\ grantOf[c] # g
  <2>1. IInv /\ pc[c] = "idle" /\ Stopped(g) => K
    BY CallAssumption DEF IInv, AllSane, Sane, IdleIsUngranted
  <2>2. IInv /\ K /\ [Next]_vars => K'
    <3> SUFFICES ASSUME IInv, K, [Next]_vars PROVE K'
      OBVIOUS
    <3> USE DEF IInv, TypeOK, Stopped, grantVars
    <3>1. ASSUME NEW b \in Calls, FindCoveringGrant(b) PROVE K'
      BY <3>1 DEF FindCoveringGrant, Covering
    <3>2. ASSUME NEW b \in Calls,
                 \/ Step(b) \/ ApproveQueued(b) \/ RejectQueued(b)
                 \/ Crash(b) \/ AgeOut(b)
          PROVE  UNCHANGED <<status, lapsed, grantOf>>
      BY <3>2 DEF Undecided, Step, ApproveQueued, RejectQueued, Crash, AgeOut,
                  CountRecent, EvaluateTriggers, ReserveSpend,
                  RequestApproval, EnqueueEscalation, LogEscalation, Attempt,
                  Backoff, RecordActionTaken, ReleaseReservation
    <3>3. CASE GrantTransition
      BY <3>3 DEF GrantTransition, Standing!Transition,
                  Standing!LegalTransition
    <3>4. ASSUME NEW h \in Grants, Lapse(h) PROVE K'
      BY <3>4 DEF Lapse, Standing!Lapse
    <3>5. CASE NextDay \/ UNCHANGED vars
      BY <3>5 DEF NextDay, vars
    <3> QED
      BY <3>1, <3>2, <3>3, <3>4, <3>5 DEF Next
  <2>3. K => ~ActsUnder(c, g)
    BY DEF ActsUnder
  <2> QED
    BY <2>1, <2>2, <2>3, SpecIsSafe, PTL DEF Spec
<1> QED
  BY <1>1 DEF StoppedGrantStopsActing

----------------------------------------------------------------------------
(* What failures leave behind *)

(* Reservations nobody will give back: counted, and no longer in the hands *)
(* of their invocation.                                                    *)
Orphans == {c \in Calls : charged[c] # NoDay /\ held[c] = NoDay}
HeldIsInHand ==
  \A c \in Calls :
    held[c] # NoDay => pc[c] \in Carrying \cup {"releasing", "succeeded"}
LeakInv == HeldIsInHand /\ Cardinality(Orphans) <= faults

(* A subset has no more elements, and a set of calls is finite. *)
LEMMA CallsCounted ==
  ASSUME NEW S \in SUBSET Calls, NEW T \in SUBSET S
  PROVE  /\ IsFiniteSet(S) /\ IsFiniteSet(T)
         /\ Cardinality(S) \in Nat /\ Cardinality(T) \in Nat
         /\ Cardinality(T) <= Cardinality(S)
<1>1. IsFiniteSet(S)
  BY FiniteAssumption, FS_Subset
<1>2. IsFiniteSet(T) /\ Cardinality(T) <= Cardinality(S)
  BY <1>1, FS_Subset
<1> QED
  BY <1>1, <1>2, FS_CardinalityType

(* A step orphans no reservation, or one and it is a failure. *)
LEMMA OneOrphanPerFault ==
  ASSUME IInv, HeldIsInHand, [Next]_vars
  PROVE  /\ HeldIsInHand'
         /\ \/ Orphans' \subseteq Orphans /\ faults' \in {faults, faults + 1}
            \/ /\ \E c \in Calls : Orphans' \subseteq Orphans \cup {c}
               /\ faults' = faults + 1
<1> USE CallAssumption
    DEF IInv, TypeOK, Goto, Fault, grantVars, counterVars, HeldIsInHand,
        Orphans, Carrying
<1>1. ASSUME NEW c \in Calls, pc[c] \notin Carrying \cup {"releasing", "succeeded"}
      PROVE  held[c] = NoDay
  BY <1>1
<1>2. ASSUME NEW c \in Calls,
             \/ FindCoveringGrant(c) \/ CountRecent(c) \/ EvaluateTriggers(c)
             \/ RequestApproval(c) \/ EnqueueEscalation(c) \/ LogEscalation(c)
      PROVE  HeldIsInHand'
  BY <1>1, <1>2
     DEF FindCoveringGrant, CountRecent, EvaluateTriggers, RequestApproval,
         EnqueueEscalation, EnqueueThrew, LogEscalation
<1>3. ASSUME NEW c \in Calls,
             \/ FindCoveringGrant(c) \/ CountRecent(c) \/ EvaluateTriggers(c)
             \/ RequestApproval(c) \/ EnqueueEscalation(c) \/ LogEscalation(c)
      PROVE  Orphans' = Orphans /\ faults' \in {faults, faults + 1}
  BY <1>3 DEF FindCoveringGrant, CountRecent, EvaluateTriggers, RequestApproval,
              EnqueueEscalation, EnqueueThrew, LogEscalation
<1>4. ASSUME NEW c \in Calls, ReserveSpend(c)
      PROVE  /\ HeldIsInHand'
             /\ \/ Orphans' \subseteq Orphans /\ faults' \in {faults, faults + 1}
                \/ /\ Orphans' \subseteq Orphans \cup {c}
                   /\ faults' = faults + 1
  <2>1. held[c] = NoDay
    BY <1>1, <1>4 DEF ReserveSpend
  <2>2. HeldIsInHand'
    BY <1>4, <2>1 DEF ReserveSpend, ReserveThrew
  <2>3. CASE UNCHANGED counterVars
    BY <1>4, <2>2, <2>3 DEF ReserveSpend
  <2>4. CASE /\ Charge(c, grantOf[c], day) /\ faults' = faults
             /\ held' = [held EXCEPT ![c] = day]
    <3>1. day # NoDay
      BY DEF Days, NoDay
    <3> QED
      BY <2>1, <2>2, <2>4, <3>1 DEF Charge
  <2>5. CASE Fault /\ held' = held
    <3>1. \A k \in Calls : k # c => charged'[k] = charged[k]
      BY <1>4 DEF ReserveSpend, Charge
    <3> QED
      BY <2>2, <2>5, <3>1
  <2> QED
    BY <1>4, <2>3, <2>4, <2>5 DEF ReserveSpend
<1>5. ASSUME NEW c \in Calls, Attempt(c) \/ Backoff(c) \/ RecordActionTaken(c)
      PROVE  /\ HeldIsInHand'
             /\ Orphans' = Orphans /\ faults' \in {faults, faults + 1}
  BY <1>5 DEF Attempt, Backoff, RecordActionTaken
<1>6. ASSUME NEW c \in Calls, ReleaseReservation(c)
      PROVE  /\ HeldIsInHand'
             /\ \/ Orphans' \subseteq Orphans /\ faults' \in {faults, faults + 1}
                \/ /\ Orphans' \subseteq Orphans \cup {c}
                   /\ faults' = faults + 1
  BY <1>6 DEF ReleaseReservation, Refund
<1>7. ASSUME NEW c \in Calls, Crash(c)
      PROVE  /\ HeldIsInHand'
             /\ Orphans' \subseteq Orphans \cup {c} /\ faults' = faults + 1
  BY <1>7 DEF Crash
<1>8. ASSUME NEW c \in Calls, ApproveQueued(c)
      PROVE  HeldIsInHand' /\ Orphans' = Orphans /\ faults' = faults
  BY <1>8 DEF ApproveQueued
<1>9. ASSUME \/ \E c \in Calls : RejectQueued(c) \/ AgeOut(c)
             \/ GrantTransition \/ \E g \in Grants : Lapse(g)
             \/ NextDay \/ UNCHANGED vars
      PROVE  HeldIsInHand' /\ Orphans' = Orphans /\ faults' = faults
  BY <1>9 DEF RejectQueued, AgeOut, GrantTransition, Lapse, NextDay, vars
<1> HIDE DEF HeldIsInHand, Orphans, TypeOK, Goto, Fault
<1> QED
  BY <1>2, <1>3, <1>4, <1>5, <1>6, <1>7, <1>8, <1>9 DEF Next, Step

(* Each failure leaves at most one reservation behind.                     *)
THEOREM LeaksAreBounded == Spec => []LeaksAreFaults
<1>1. Init => LeakInv
  <2> SUFFICES ASSUME Init PROVE LeakInv
    OBVIOUS
  <2>1. Orphans = {} /\ HeldIsInHand
    BY DEF Init, Orphans, HeldIsInHand
  <2>2. Cardinality({}) = 0
    BY FS_EmptySet
  <2> QED
    BY <2>1, <2>2 DEF LeakInv, Init
<1>2. IInv /\ LeakInv /\ [Next]_vars => LeakInv'
  <2> SUFFICES ASSUME IInv, LeakInv, [Next]_vars PROVE LeakInv'
    OBVIOUS
  <2>1. /\ Orphans \in SUBSET Calls /\ Orphans' \in SUBSET Calls
        /\ faults \in Nat
    BY CallAssumption DEF Orphans, IInv, TypeOK
  <2>2. Cardinality(Orphans) \in Nat /\ Cardinality(Orphans') \in Nat
    BY <2>1, CallsCounted
  <2>3. CASE Orphans' \subseteq Orphans /\ faults' \in {faults, faults + 1}
    <3>1. Cardinality(Orphans') <= Cardinality(Orphans)
      BY <2>1, <2>3, CallsCounted
    <3> QED
      BY <2>1, <2>2, <2>3, <3>1, OneOrphanPerFault DEF LeakInv
  <2>4. ASSUME NEW c \in Calls, Orphans' \subseteq Orphans \cup {c},
               faults' = faults + 1
        PROVE  LeakInv'
    <3>1. IsFiniteSet(Orphans)
      BY <2>1, CallsCounted
    <3>2. Cardinality(Orphans \cup {c}) <= Cardinality(Orphans) + 1
      BY <2>2, <3>1, FS_AddElement
    <3>3. /\ Cardinality(Orphans \cup {c}) \in Nat
          /\ Cardinality(Orphans') <= Cardinality(Orphans \cup {c})
      <4>1. Orphans \cup {c} \in SUBSET Calls
        BY <2>1
      <4> QED
        BY <2>4, <4>1, CallsCounted
    <3> QED
      BY <2>1, <2>2, <2>4, <3>2, <3>3, OneOrphanPerFault DEF LeakInv
  <2> QED
    BY <2>3, <2>4, OneOrphanPerFault DEF LeakInv
<1>3. IInv /\ LeakInv => LeaksAreFaults
  <2> SUFFICES ASSUME IInv, LeakInv PROVE LeaksAreFaults
    OBVIOUS
  <2>1. Orphans \in SUBSET Calls /\ Leaked \in SUBSET Orphans
    BY DEF Orphans, Leaked, LeakInv, HeldIsInHand
  <2>2. /\ Cardinality(Leaked) \in Nat /\ Cardinality(Orphans) \in Nat
        /\ Cardinality(Leaked) <= Cardinality(Orphans)
    BY <2>1, CallsCounted
  <2>3. Cardinality(Orphans) <= faults /\ faults \in Nat
    BY CallAssumption DEF LeakInv, IInv, TypeOK
  <2> QED
    BY <2>2, <2>3 DEF LeaksAreFaults
<1> QED
  BY <1>1, <1>2, <1>3, SpecIsSafe, PTL DEF Spec

(* The counter is exact, and what is wrongly in it is paid for by failures.*)
THEOREM ReservationsStayExact == Spec => []ReservationsAreExact
<1> QED
  BY BucketIsExact, LeaksAreBounded, PTL DEF ReservationsAreExact

(* Every effect is authorised and every unapproved spend is counted.       *)
THEOREM GateStaysClosed == Spec => []GateFailsClosed
<1> QED
  BY EffectsAreAuthorised, SpendIsMetered, PTL DEF GateFailsClosed

----------------------------------------------------------------------------
(* The rate limit under overlap *)

(* Past the count and not in the ledger yet, or in the ledger's window:    *)
(* recording an action moves a call from the first kind to the second.     *)
Passed == {"triggers", "reserving"} \cup Carrying
Spent(g) ==
  {c \in Calls : /\ Unapproved(c) /\ grantOf[c] = g
                 /\ pc[c] \in Passed \/ row[c] = "recent"}
Unasked == {c \in InFlight : approval[c] = "none"}

IdleIsUnwritten == \A c \in Calls : pc[c] = "idle" => row[c] = "none"
FewUnasked == Cardinality(Unasked) <= MaxInFlight
OvershootBounded ==
  \A g \in Grants :
    RateLimit[g] # NoCap =>
      Cardinality(Spent(g)) <= RateLimit[g] + (MaxInFlight - 1)
RateInv == IdleIsUnwritten /\ FewUnasked /\ OvershootBounded

(* Only a call that starts joins the running calls without an approval;    *)
(* only a call that passes the count joins those that use up the limit.    *)
LEMMA OnlyTheseJoin ==
  ASSUME IInv, IdleIsUnwritten, [Next]_vars
  PROVE  /\ IdleIsUnwritten'
         /\ \/ Unasked' \subseteq Unasked
            \/ \E c \in Calls : FindCoveringGrant(c)
         /\ \/ \A g \in Grants : Spent(g)' \subseteq Spent(g)
            \/ \E c \in Calls : CountRecent(c)
<1> USE DEF IInv, TypeOK, Goto, grantVars, counterVars
<1>1. ASSUME NEW c \in Calls, FindCoveringGrant(c)
      PROVE  IdleIsUnwritten' /\ \A g \in Grants : Spent(g)' \subseteq Spent(g)
  BY <1>1 DEF FindCoveringGrant, IdleIsUnwritten, Spent, Passed, Carrying,
              Unapproved, Uncovered
<1>2. ASSUME NEW c \in Calls, CountRecent(c)
      PROVE  IdleIsUnwritten' /\ Unasked' \subseteq Unasked
  BY <1>2 DEF CountRecent, IdleIsUnwritten, Unasked, InFlight, AfterRateLimit,
              Running, Resolving
<1>3. ASSUME NEW c \in Calls,
             \/ EvaluateTriggers(c) \/ LogEscalation(c) \/ Attempt(c)
             \/ Backoff(c) \/ RecordActionTaken(c) \/ ReleaseReservation(c)
             \/ ReserveSpend(c) \/ Crash(c)
      PROVE  /\ IdleIsUnwritten' /\ Unasked' \subseteq Unasked
             /\ \A g \in Grants : Spent(g)' \subseteq Spent(g)
  <2>1. /\ UNCHANGED <<approval, grantOf>>
        /\ pc[c] \in Running
        /\ \A k \in Calls : k # c => pc'[k] = pc[k] /\ row'[k] = row[k]
        /\ pc'[c] # "idle"
        /\ pc'[c] \in Passed \/ row'[c] = "recent"
             => pc[c] \in Passed \/ row[c] = "recent"
    BY <1>3 DEF EvaluateTriggers, LogEscalation, Attempt, Backoff,
                RecordActionTaken, ReleaseReservation, ReserveSpend,
                ReserveThrew, Crash, Passed, Carrying, Running, Resolving,
                Escalating
  <2> QED
    BY <2>1 DEF IdleIsUnwritten, Unasked, InFlight, Spent, Unapproved
<1>4. ASSUME NEW c \in Calls, RequestApproval(c) \/ EnqueueEscalation(c)
      PROVE  /\ IdleIsUnwritten' /\ Unasked' \subseteq Unasked
             /\ \A g \in Grants : Spent(g)' \subseteq Spent(g)
  <2>1. approval[c] = "none"
    BY <1>4 DEF RequestApproval, EnqueueEscalation, AllSane, Sane,
                FreshIsClean, Fresh, Resolving
  <2>2. /\ UNCHANGED <<row, grantOf>>
        /\ pc[c] \in Running /\ pc'[c] # "idle"
        /\ \A k \in Calls : k # c => pc'[k] = pc[k] /\ approval'[k] = approval[k]
        /\ approval'[c] = "none" => pc'[c] \notin Passed
    BY <1>4 DEF RequestApproval, EnqueueEscalation, EnqueueThrew, Passed,
                Carrying, Running, Resolving, Escalating
  <2> QED
    BY <2>1, <2>2 DEF IdleIsUnwritten, Unasked, InFlight, Spent, Unapproved
<1>5. ASSUME NEW c \in Calls, ApproveQueued(c) \/ RejectQueued(c)
      PROVE  /\ IdleIsUnwritten' /\ Unasked' \subseteq Unasked
             /\ \A g \in Grants : Spent(g)' \subseteq Spent(g)
  <2>1. /\ UNCHANGED <<row, grantOf>>
        /\ approval'[c] # "none"
        /\ pc'[c] = "idle" => pc[c] = "idle"
        /\ \A k \in Calls : k # c => pc'[k] = pc[k] /\ approval'[k] = approval[k]
    BY <1>5 DEF Undecided, ApproveQueued, RejectQueued
  <2> QED
    BY <2>1 DEF IdleIsUnwritten, Unasked, InFlight, Spent, Unapproved
<1>6. ASSUME NEW c \in Calls, AgeOut(c)
      PROVE  /\ IdleIsUnwritten' /\ Unasked' \subseteq Unasked
             /\ \A g \in Grants : Spent(g)' \subseteq Spent(g)
  BY <1>6 DEF AgeOut, IdleIsUnwritten, Unasked, InFlight, Spent, Unapproved
<1>7. ASSUME \/ GrantTransition \/ \E g \in Grants : Lapse(g)
             \/ NextDay \/ UNCHANGED vars
      PROVE  /\ IdleIsUnwritten' /\ Unasked' \subseteq Unasked
             /\ \A g \in Grants : Spent(g)' \subseteq Spent(g)
  <2>1. UNCHANGED <<pc, grantOf, row, approval>>
    BY <1>7 DEF GrantTransition, Lapse, NextDay, vars
  <2> QED
    BY <2>1 DEF IdleIsUnwritten, Unasked, InFlight, Spent, Unapproved
<1> QED
  BY <1>1, <1>2, <1>3, <1>4, <1>5, <1>6, <1>7 DEF Next, Step

(* A call that passes the count saw room for it; with the calls that run   *)
(* beside it the limit is overshot by their number at most.                *)
LEMMA CountKeepsBound ==
  ASSUME IInv, RateInv, NEW c \in Calls, CountRecent(c)
  PROVE  OvershootBounded'
<1> USE DEF IInv, TypeOK, Goto, grantVars, counterVars
<1> SUFFICES ASSUME NEW g \in Grants, RateLimit[g] # NoCap
             PROVE  Cardinality(Spent(g)') <= RateLimit[g] + (MaxInFlight - 1)
  BY DEF OvershootBounded
<1>1. /\ RateLimit[g] \in Nat /\ MaxInFlight \in Nat
      /\ Spent(g) \in SUBSET Calls /\ Unasked \in SUBSET Calls
      /\ RecentRows(g) \in SUBSET Calls
  BY CapAssumption, CallAssumption
     DEF Spent, Unasked, InFlight, RecentRows
<1>2. /\ UNCHANGED <<row, grantOf, approval>>
      /\ \A k \in Calls : k # c => pc'[k] = pc[k]
      /\ pc[c] \in Running
  BY DEF CountRecent, Running, Resolving
<1>3. CASE Spent(g)' \subseteq Spent(g)
  <2>1. Cardinality(Spent(g)) <= RateLimit[g] + (MaxInFlight - 1)
    BY DEF RateInv, OvershootBounded
  <2>2. /\ Cardinality(Spent(g)) \in Nat /\ Cardinality(Spent(g)') \in Nat
        /\ Cardinality(Spent(g)') <= Cardinality(Spent(g))
    BY <1>1, <1>3, CallsCounted
  <2> QED
    BY <1>1, <2>1, <2>2
<1>4. CASE ~(Spent(g)' \subseteq Spent(g))
  <2>1. grantOf[c] = g /\ pc'[c] \in Passed
    BY <1>2, <1>4 DEF Spent, Unapproved
  <2>2. UnderLimit(g)
    BY <2>1 DEF CountRecent, Passed, Carrying
  <2>3. Spent(g)' \subseteq RecentRows(g) \cup Unasked
    <3>1. \A k \in Calls : pc[k] \in Passed => pc[k] \in Running
      BY DEF Passed, Running, Resolving
    <3> QED
      BY <1>2, <3>1 DEF Spent, RecentRows, Unasked, InFlight, Unapproved
  <2>4. /\ Cardinality(RecentRows(g)) < RateLimit[g]
        /\ Cardinality(Unasked) <= MaxInFlight
    BY <2>2 DEF UnderLimit, RateInv, FewUnasked
  <2>5. /\ IsFiniteSet(RecentRows(g)) /\ IsFiniteSet(Unasked)
        /\ Cardinality(RecentRows(g)) \in Nat
        /\ Cardinality(Unasked) \in Nat
    BY <1>1, CallsCounted
  <2>6. /\ Cardinality(RecentRows(g) \cap Unasked) \in Nat
        /\ Cardinality(RecentRows(g) \cup Unasked) =
             Cardinality(RecentRows(g)) + Cardinality(Unasked)
               - Cardinality(RecentRows(g) \cap Unasked)
    <3>1. RecentRows(g) \cap Unasked \in SUBSET Unasked
      OBVIOUS
    <3> QED
      BY <1>1, <2>5, <3>1, CallsCounted, FS_Union
  <2>7. /\ Cardinality(Spent(g)') \in Nat
        /\ Cardinality(Spent(g)') <= Cardinality(RecentRows(g) \cup Unasked)
    <3>1. RecentRows(g) \cup Unasked \in SUBSET Calls
      BY <1>1
    <3> QED
      BY <2>3, <3>1, CallsCounted
  <2> QED
    BY <1>1, <2>4, <2>5, <2>6, <2>7
<1> QED
  BY <1>3, <1>4

(* The invariant of the rate limit holds at the start and is kept. *)
LEMMA RateInvHolds == Spec => []RateInv
<1>1. Init => RateInv
  <2> SUFFICES ASSUME Init PROVE RateInv
    OBVIOUS
  <2>1. Unasked = {} /\ \A g \in Grants : Spent(g) = {}
    BY DEF Init, Unasked, InFlight, Spent, Passed, Carrying, Running,
           Resolving, Escalating
  <2>2. Cardinality({}) = 0
    BY FS_EmptySet
  <2>3. FewUnasked
    BY <2>1, <2>2, CallAssumption DEF FewUnasked
  <2>4. ASSUME NEW g \in Grants, RateLimit[g] # NoCap
        PROVE  Cardinality(Spent(g)) <= RateLimit[g] + (MaxInFlight - 1)
    <3>1. RateLimit[g] \in Nat
      BY <2>4, CapAssumption
    <3> QED
      BY <2>1, <2>2, <3>1, CallAssumption
  <2>5. IdleIsUnwritten
    BY DEF Init, IdleIsUnwritten
  <2> QED
    BY <2>3, <2>4, <2>5 DEF RateInv, OvershootBounded
<1>2. IInv /\ RateInv /\ [Next]_vars => RateInv'
  <2> SUFFICES ASSUME IInv, RateInv, [Next]_vars PROVE RateInv'
    OBVIOUS
  <2> USE DEF RateInv
  <2>1. Unasked \in SUBSET Calls /\ \A g \in Grants : Spent(g) \in SUBSET Calls
    BY DEF Unasked, InFlight, Spent
  <2>2. FewUnasked'
    <3>1. CASE Unasked' \subseteq Unasked
      <4>1. /\ Cardinality(Unasked) \in Nat /\ Cardinality(Unasked') \in Nat
            /\ Cardinality(Unasked') <= Cardinality(Unasked)
        BY <2>1, <3>1, CallsCounted
      <4> QED
        BY <4>1, CallAssumption DEF FewUnasked
    <3>2. ASSUME NEW c \in Calls, FindCoveringGrant(c) PROVE FewUnasked'
      <4>1. Cardinality(InFlight) < MaxInFlight
        BY <3>2 DEF FindCoveringGrant
      <4>2. InFlight \in SUBSET Calls /\ Unasked' \subseteq InFlight \cup {c}
        BY <3>2 DEF FindCoveringGrant, Unasked, InFlight, IInv, TypeOK, Goto
      <4>3. IsFiniteSet(InFlight) /\ Cardinality(InFlight) \in Nat
        BY <4>2, CallsCounted
      <4>4. Cardinality(InFlight \cup {c}) <= Cardinality(InFlight) + 1
        BY <4>3, FS_AddElement
      <4>5. /\ InFlight \cup {c} \in SUBSET Calls
            /\ Unasked' \in SUBSET (InFlight \cup {c})
        BY <4>2
      <4>6. /\ Cardinality(InFlight \cup {c}) \in Nat
            /\ Cardinality(Unasked') \in Nat
            /\ Cardinality(Unasked') <= Cardinality(InFlight \cup {c})
        BY <4>5, CallsCounted
      <4> QED
        BY <4>1, <4>3, <4>4, <4>6, CallAssumption DEF FewUnasked
    <3> QED
      BY <3>1, <3>2, OnlyTheseJoin
  <2>3. OvershootBounded'
    <3>1. CASE \A g \in Grants : Spent(g)' \subseteq Spent(g)
      <4> SUFFICES ASSUME NEW g \in Grants, RateLimit[g] # NoCap
                   PROVE  Cardinality(Spent(g)')
                            <= RateLimit[g] + (MaxInFlight - 1)
        BY DEF OvershootBounded
      <4>1. /\ Cardinality(Spent(g)) \in Nat /\ Cardinality(Spent(g)') \in Nat
            /\ Cardinality(Spent(g)') <= Cardinality(Spent(g))
        BY <2>1, <3>1, CallsCounted
      <4>2. Cardinality(Spent(g)) <= RateLimit[g] + (MaxInFlight - 1)
        BY DEF OvershootBounded
      <4> QED
        BY <4>1, <4>2, CapAssumption, CallAssumption
    <3> QED
      BY <3>1, OnlyTheseJoin, CountKeepsBound
  <2> QED
    BY <2>2, <2>3, OnlyTheseJoin
<1> QED
  BY <1>1, <1>2, SpecIsSafe, PTL DEF Spec

(* The rate limit of a grant is exceeded by no more than the invocations   *)
(* that overlap: not at all when they run one at a time.                   *)
THEOREM RateLimitIsHeld == Spec => []RateLimitHolds
<1>1. OvershootBounded => RateLimitHolds
  <2> SUFFICES ASSUME OvershootBounded, NEW g \in Grants, RateLimit[g] # NoCap
               PROVE  Cardinality({c \in RecentRows(g) : Unapproved(c)})
                        <= RateLimit[g] + (MaxInFlight - 1)
    BY DEF RateLimitHolds
  <2> DEFINE U == {c \in RecentRows(g) : Unapproved(c)}
  <2>1. Spent(g) \in SUBSET Calls /\ U \in SUBSET Spent(g)
    BY DEF Spent, RecentRows
  <2>2. Cardinality(Spent(g)) <= RateLimit[g] + (MaxInFlight - 1)
    BY DEF OvershootBounded
  <2>3. RateLimit[g] \in Nat /\ MaxInFlight \in Nat
    BY CapAssumption, CallAssumption
  <2> HIDE DEF U
  <2>4. /\ Cardinality(Spent(g)) \in Nat /\ Cardinality(U) \in Nat
        /\ Cardinality(U) <= Cardinality(Spent(g))
    BY <2>1, CallsCounted
  <2>5. Cardinality(U) <= RateLimit[g] + (MaxInFlight - 1)
    BY <2>2, <2>3, <2>4
  <2> QED
    BY <2>5 DEF U
<1> QED
  BY <1>1, RateInvHolds, PTL DEF RateInv

----------------------------------------------------------------------------
(* The queue of escalated actions *)

StartsUnattempted == \A c \in Calls : pc[c] \in Fresh => attempt[c] = 0
Started ==
  [c \in Calls |-> IF approval[c] \in {"approved", "auto_approved"}
                        /\ attempt[c] > 0
                   THEN 1 ELSE 0]

(* An invocation that has not executed anything has made no attempt.       *)
LEMMA StartsHold == Spec => []StartsUnattempted
<1>1. Init => StartsUnattempted
  BY DEF Init, StartsUnattempted
<1>2. IInv /\ StartsUnattempted /\ [Next]_vars => StartsUnattempted'
  <2> SUFFICES ASSUME IInv, StartsUnattempted, [Next]_vars
               PROVE  StartsUnattempted'
    OBVIOUS
  <2> USE DEF IInv, TypeOK, Goto, StartsUnattempted, Fresh, Resolving,
              grantVars, counterVars
  <2>1. ASSUME NEW c \in Calls,
               FindCoveringGrant(c) \/ CountRecent(c) \/ EvaluateTriggers(c)
        PROVE  StartsUnattempted'
    BY <2>1 DEF FindCoveringGrant, CountRecent, EvaluateTriggers
  <2>2. ASSUME NEW c \in Calls,
               \/ ReserveSpend(c) \/ RequestApproval(c) \/ EnqueueEscalation(c)
               \/ LogEscalation(c) \/ ApproveQueued(c) \/ RejectQueued(c)
        PROVE  StartsUnattempted'
    BY <2>2 DEF ReserveSpend, ReserveThrew, RequestApproval, EnqueueEscalation,
                EnqueueThrew, LogEscalation, ApproveQueued, RejectQueued
  <2>3. ASSUME NEW c \in Calls,
               \/ Attempt(c) \/ Backoff(c) \/ RecordActionTaken(c)
               \/ ReleaseReservation(c) \/ Crash(c) \/ AgeOut(c)
        PROVE  StartsUnattempted'
    BY <2>3 DEF Attempt, Backoff, RecordActionTaken, ReleaseReservation, Crash,
                AgeOut
  <2>4. ASSUME \/ GrantTransition \/ \E g \in Grants : Lapse(g)
               \/ NextDay \/ UNCHANGED vars
        PROVE  StartsUnattempted'
    BY <2>4 DEF GrantTransition, Lapse, NextDay, vars
  <2> QED
    BY <2>1, <2>2, <2>3, <2>4 DEF Next, Step
<1> QED
  BY <1>1, <1>2, SpecIsSafe, PTL DEF Spec

(* The runtime's side of the queue is one of ApprovalGate: an escalation   *)
(* submits, the customer decides, and the first attempt after the decision *)
(* is the one start of the action.                                         *)
THEOREM GateIsImplemented == Spec => ImplementsGate
<1>1. Init => Gate!Init
  BY DEF Init, Gate!Init
<1>2. IInv /\ StartsUnattempted /\ [Next]_vars
        => [Gate!Next]_<<approval, Started>>
  <2> SUFFICES ASSUME IInv, StartsUnattempted, [Next]_vars
               PROVE  Gate!Next \/ UNCHANGED <<approval, Started>>
    OBVIOUS
  <2> USE DEF IInv, TypeOK, Goto, grantVars, counterVars, Started
  <2>1. ASSUME UNCHANGED <<approval, attempt>>
        PROVE  UNCHANGED <<approval, Started>>
    BY <2>1
  <2>2. ASSUME NEW c \in Calls, RequestApproval(c) \/ EnqueueEscalation(c)
        PROVE  Gate!Submit(c) \/ UNCHANGED <<approval, Started>>
    <3>1. approval[c] = "none"
      BY <2>2 DEF RequestApproval, EnqueueEscalation, AllSane, Sane,
                  FreshIsClean, Fresh, Resolving
    <3>2. approval' # approval /\ approval'[c] = "auto_approved" => attempt[c] = 0
      BY <2>2, <3>1 DEF RequestApproval, EnqueueEscalation, StartsUnattempted,
                        Fresh, Resolving
    <3>3. /\ attempt' = attempt
          /\ \E s \in {"none", "pending", "auto_approved"} :
               approval' = [approval EXCEPT ![c] = s]
      BY <2>2 DEF RequestApproval, EnqueueEscalation
    <3>4. Started' = Started
      BY <3>1, <3>2, <3>3
    <3>5. CASE approval' = [approval EXCEPT ![c] = "none"]
      <4>1. approval' = approval
        BY <3>1, <3>5
      <4> QED
        BY <3>4, <4>1
    <3>6. CASE \E v \in {"pending", "auto_approved"} :
                 approval' = [approval EXCEPT ![c] = v]
      BY <3>1, <3>4, <3>6 DEF Gate!Submit
    <3> QED
      BY <3>3, <3>5, <3>6
  <2>3. ASSUME NEW c \in Calls, ApproveQueued(c)
        PROVE  Gate!Decide(c)
    <3>1. Started' = Started
      BY <2>3 DEF ApproveQueued, Undecided
    <3> QED
      BY <2>3, <3>1 DEF ApproveQueued, Undecided, Gate!Decide
  <2>4. ASSUME NEW c \in Calls, RejectQueued(c)
        PROVE  Gate!Decide(c)
    <3>1. Started' = Started
      BY <2>4 DEF RejectQueued, Undecided
    <3> QED
      BY <2>4, <3>1 DEF RejectQueued, Undecided, Gate!Decide
  <2>5. ASSUME NEW c \in Calls, Attempt(c)
        PROVE  Gate!Carry(c) \/ UNCHANGED <<approval, Started>>
    <3>1. /\ approval' = approval
          /\ attempt' = [attempt EXCEPT ![c] = @ + 1]
          /\ attempt[c] \in Nat
      BY <2>5, CallAssumption DEF Attempt
    <3>2. CASE approval[c] \in {"approved", "auto_approved"} /\ attempt[c] = 0
      <4>0. /\ attempt'[c] > 0
            /\ \A k \in Calls : k # c => attempt'[k] = attempt[k]
        BY <3>1
      <4>1. Started[c] = 0 /\ Started' = [Started EXCEPT ![c] = 1]
        <5>1. Started[c] = 0
          BY <3>2
        <5>2. \A k \in Calls : Started'[k] = IF k = c THEN 1 ELSE Started[k]
          BY <3>1, <3>2, <4>0
        <5>3. /\ Started = [k \in Calls |-> Started[k]]
              /\ Started' = [k \in Calls |-> Started'[k]]
          OBVIOUS
        <5> QED
          <6> HIDE DEF Started
          <6> QED
            BY <5>1, <5>2, <5>3
      <4>2. UNCHANGED approval
        BY <3>1
      <4> QED
        BY <3>2, <4>1, <4>2 DEF Gate!Carry
    <3>3. CASE ~(approval[c] \in {"approved", "auto_approved"} /\ attempt[c] = 0)
      BY <3>1, <3>3
    <3> QED
      BY <3>2, <3>3
  <2>6. ASSUME NEW c \in Calls,
               \/ FindCoveringGrant(c) \/ CountRecent(c) \/ EvaluateTriggers(c)
               \/ ReserveSpend(c) \/ LogEscalation(c) \/ Backoff(c)
               \/ RecordActionTaken(c) \/ ReleaseReservation(c) \/ Crash(c)
               \/ AgeOut(c)
        PROVE  UNCHANGED <<approval, attempt>>
    BY <2>6 DEF FindCoveringGrant, CountRecent, EvaluateTriggers, ReserveSpend,
                LogEscalation, Backoff, RecordActionTaken, ReleaseReservation,
                Crash, AgeOut
  <2>7. ASSUME \/ GrantTransition \/ \E g \in Grants : Lapse(g)
               \/ NextDay \/ UNCHANGED vars
        PROVE  UNCHANGED <<approval, attempt>>
    BY <2>7 DEF GrantTransition, Lapse, NextDay, vars
  <2> HIDE DEF IInv, TypeOK, Started
  <2> QED
    BY <2>1, <2>2, <2>3, <2>4, <2>5, <2>6, <2>7 DEF Next, Step, Gate!Next
<1> QED
  BY <1>1, <1>2, SpecIsSafe, StartsHold, PTL
     DEF Spec, ImplementsGate, Gate!Spec, Started

----------------------------------------------------------------------------
(* No invocation runs for ever *)

(* An upper bound on the steps an invocation still has to take by itself.  *)
Rank(c) ==
  LET left == 2 * (MaxAttempts - attempt[c])
  IN  CASE pc[c] = "counting" -> 2 * MaxAttempts + 7
        [] pc[c] = "triggers" -> 2 * MaxAttempts + 6
        [] pc[c] \in {"reserving", "gating"} -> 2 * MaxAttempts + 5
        [] pc[c] = "backoff" -> left + 4
        [] pc[c] = "executing" -> left + 3
        [] pc[c] = "escalating" -> 2
        [] pc[c] \in {"logging", "recording", "releasing"} -> 1
        [] OTHER -> 0

(* Every step of an invocation brings it nearer to its end, and nothing    *)
(* anybody else does takes it further away, but for its start and for the  *)
(* one approval that starts its action again.                              *)
Descends ==
  [][\A c \in Calls :
       /\ Rank(c) \in 0..(2 * MaxAttempts + 7)
       /\ Step(c) => Rank(c)' < Rank(c)
       /\ FindCoveringGrant(c) \/ ApproveQueued(c) \/ Rank(c)' <= Rank(c)]_vars

(* So an invocation takes at most 2 * MaxAttempts + 7 steps before it ends *)
(* or waits for the customer, and as many again after: the retry loop, the *)
(* escalation and the release cannot keep each other going.  What is left  *)
(* of InvocationsEnd is the fairness.                                      *)
THEOREM InvocationsDescend == Spec => Descends
<1>1. ASSUME IInv, StartsUnattempted, NEW c \in Calls
      PROVE  Rank(c) \in 0..(2 * MaxAttempts + 7)
  <2>1. attempt[c] \in 0..MaxAttempts /\ MaxAttempts \in Nat
    BY <1>1, CallAssumption DEF IInv, TypeOK
  <2> QED
    BY <2>1 DEF Rank
<1>2. ASSUME IInv, NEW c \in Calls, Step(c)
      PROVE  Rank(c)' < Rank(c)
  <2> USE <1>2, CallAssumption DEF IInv, TypeOK, Goto, Rank
  <2>1. attempt[c] \in 0..MaxAttempts /\ MaxAttempts \in Nat
    OBVIOUS
  <2>2. CASE CountRecent(c)
    BY <2>1, <2>2 DEF CountRecent, AfterRateLimit
  <2>3. CASE EvaluateTriggers(c)
    BY <2>1, <2>3 DEF EvaluateTriggers
  <2>4. CASE ReserveSpend(c)
    <3>1. /\ pc[c] = "reserving" /\ attempt' = attempt
          /\ pc'[c] \in {"executing", "escalating"}
      BY <2>4 DEF ReserveSpend, ReserveThrew
    <3> QED
      BY <2>1, <3>1
  <2>5. CASE RequestApproval(c) \/ EnqueueEscalation(c) \/ LogEscalation(c)
    <3>1. /\ attempt' = attempt
          /\ \/ pc[c] = "gating" /\ pc'[c] \in {"executing", "queued", "failed"}
             \/ pc[c] = "escalating" /\ pc'[c] \in {"logging", "failed"}
             \/ pc[c] = "logging" /\ pc'[c] \in {"queued", "failed"}
      BY <2>5 DEF RequestApproval, EnqueueEscalation, EnqueueThrew,
                  LogEscalation
    <3> QED
      BY <2>1, <3>1
  <2>6. CASE Attempt(c)
    <3>1. /\ pc[c] = "executing" /\ attempt'[c] = attempt[c] + 1
          /\ pc'[c] \in {"recording", "releasing", "backoff"}
      BY <2>6 DEF Attempt
    <3> QED
      BY <2>1, <3>1
  <2>7. CASE Backoff(c) \/ RecordActionTaken(c) \/ ReleaseReservation(c)
    <3>1. /\ attempt' = attempt
          /\ \/ pc[c] = "backoff" /\ pc'[c] \in {"executing", "releasing"}
             \/ pc[c] = "recording" /\ pc'[c] = "succeeded"
             \/ pc[c] = "releasing" /\ pc'[c] = "failed"
      BY <2>7 DEF Backoff, RecordActionTaken, ReleaseReservation
    <3> QED
      BY <2>1, <3>1
  <2> QED
    BY <1>2, <2>2, <2>3, <2>4, <2>5, <2>6, <2>7 DEF Step
<1>3. ASSUME IInv, NEW c \in Calls, [Next]_vars
      PROVE  FindCoveringGrant(c) \/ ApproveQueued(c) \/ Rank(c)' <= Rank(c)
  <2>1. Rank(c) \in Nat
    BY <1>3, CallAssumption DEF IInv, TypeOK, Rank
  <2>2. ASSUME pc'[c] = pc[c], attempt'[c] = attempt[c]
        PROVE  Rank(c)' <= Rank(c)
    BY <2>1, <2>2 DEF Rank
  <2>3. CASE Step(c)
    <3>1. Rank(c)' < Rank(c) /\ Rank(c)' \in Nat
      <4>1. attempt'[c] \in 0..MaxAttempts
        BY <1>3, TypeStep DEF IInv, TypeOK
      <4> QED
        BY <1>2, <1>3, <2>3, <4>1, CallAssumption DEF Rank
    <3> QED
      BY <2>1, <3>1
  <2>4. CASE Crash(c)
    <3>1. Rank(c)' = 0
      BY <1>3, <2>4 DEF Crash, Goto, Rank, IInv, TypeOK
    <3> QED
      BY <2>1, <3>1
  <2>5. ASSUME NEW k \in Calls, k # c,
               \/ FindCoveringGrant(k) \/ Step(k) \/ ApproveQueued(k)
               \/ RejectQueued(k) \/ Crash(k) \/ AgeOut(k)
        PROVE  Rank(c)' <= Rank(c)
    BY <1>3, <2>2, <2>5, OthersAreSame DEF SameCall, IInv
  <2>6. ASSUME \/ RejectQueued(c) \/ AgeOut(c) \/ GrantTransition
               \/ \E g \in Grants : Lapse(g)
               \/ NextDay \/ UNCHANGED vars
        PROVE  Rank(c)' <= Rank(c)
    BY <2>2, <2>6 DEF RejectQueued, AgeOut, GrantTransition, Lapse, NextDay,
                      vars
  <2> QED
    BY <1>3, <2>3, <2>4, <2>5, <2>6 DEF Next
<1>4. IInv /\ StartsUnattempted /\ [Next]_vars
        => \A c \in Calls :
             /\ Rank(c) \in 0..(2 * MaxAttempts + 7)
             /\ Step(c) => Rank(c)' < Rank(c)
             /\ FindCoveringGrant(c) \/ ApproveQueued(c) \/ Rank(c)' <= Rank(c)
  BY <1>1, <1>2, <1>3
<1> QED
  BY <1>4, SpecIsSafe, StartsHold, PTL DEF Spec, Descends
=============================================================================

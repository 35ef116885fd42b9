------------------------- MODULE SystemEmail_proofs -------------------------
(***************************************************************************)
(* Theorems about SystemEmail, for any number of cycles, briefs, meetings  *)
(* and failures.  The inductive invariant says what a job may rely on      *)
(* where it waits (Sane), that the counter of a day is the number of jobs  *)
(* that hold one of its slots (CounterSane), that an email left without a  *)
(* slot only by a failure (LostSane), and that at most one job of a        *)
(* meeting got past its claim (ClaimSane).                                 *)
(***************************************************************************)
EXTENDS SystemEmail, FiniteSetTheorems, TLAPS

Unasked == {"idle", "generating", "claiming", "resolving", "duplicate"}
Holding == {"sending", "releasing", "recording"}

Sane(j) ==
  /\ pc[j] \in Unasked => slot[j] = NoDay /\ counted[j] = NoDay
  /\ pc[j] = "reserving" => slot[j] \in Days /\ counted[j] = NoDay
  /\ pc[j] \in Holding => slot[j] \in Days /\ counted[j] = slot[j]
  /\ counted[j] # NoDay => counted[j] = slot[j]
  /\ j \in mailed => pc[j] \notin Unasked \cup {"reserving", "sending"}
  /\ pc[j] \in {"generating", "claiming", "alerting"} => j \in Preps

OnSlots(d) == {j \in Jobs : counted[j] = d}
CounterSane ==
  \A d \in Days : amount[d] = Cardinality(OnSlots(d)) /\ amount[d] <= Cap

(* Emails whose slot was given back, or is about to be. *)
Lost == {j \in mailed : pc[j] = "releasing" \/ counted[j] = NoDay}
LostSane == Cardinality(Lost) <= faults

PastClaim(j) ==
  pc[j] \in Sending \cup {"alerting", "done"} \/ j \in mailed \cup alerted
ClaimSane ==
  /\ \A j \in Preps : PastClaim(j) => MeetingOf[j] \in claims
  /\ \A i, j \in Preps :
       MeetingOf[i] = MeetingOf[j] /\ PastClaim(i) /\ PastClaim(j) => i = j

IInv ==
  /\ TypeOK
  /\ \A j \in Jobs : Sane(j)
  /\ CounterSane
  /\ LostSane
  /\ ClaimSane

LEMMA DayFacts == NoDay \notin Days /\ Days \subseteq Nat /\ NoDay \in Nat
BY EmailAssumption DEF Days, NoDay

LEMMA JobsOnSlots ==
  \A d : IsFiniteSet(OnSlots(d)) /\ Cardinality(OnSlots(d)) \in Nat
<1> TAKE d
<1>1. OnSlots(d) \subseteq Jobs
  BY DEF OnSlots
<1> QED
  BY <1>1, FiniteJobs, FS_Subset, FS_CardinalityType

----------------------------------------------------------------------------
(* What a step does to the slots *)

Takes(j, d) ==
  /\ counted[j] = NoDay
  /\ amount[d] + 1 <= Cap
  /\ amount' = [amount EXCEPT ![d] = @ + 1]
  /\ counted' = [counted EXCEPT ![j] = d]

Returns(j, d) ==
  /\ counted[j] = d
  /\ amount' = [amount EXCEPT ![d] = IF @ > 0 THEN @ - 1 ELSE 0]
  /\ counted' = [counted EXCEPT ![j] = NoDay]

LEMMA StepMovesSlots ==
  ASSUME IInv, [Next]_vars
  PROVE  \/ UNCHANGED counterVars
         \/ \E j \in Jobs, d \in Days : Takes(j, d) \/ Returns(j, d)
<1> USE DEF IInv, counterVars
<1>1. ASSUME NEW j \in Jobs, ReserveSlot(j)
      PROVE  UNCHANGED counterVars \/ \E d \in Days : Takes(j, d)
  <2>1. slot[j] \in Days /\ counted[j] = NoDay
    BY <1>1 DEF ReserveSlot, Sane
  <2> QED
    BY <1>1, <2>1 DEF ReserveSlot, HasRoom, TakeSlot, Takes
<1>2. ASSUME NEW j \in Jobs, ReleaseSlot(j)
      PROVE  UNCHANGED counterVars \/ \E d \in Days : Returns(j, d)
  <2>1. slot[j] \in Days /\ counted[j] = slot[j]
    BY <1>2 DEF ReleaseSlot, Sane, Holding
  <2> QED
    BY <1>2, <2>1 DEF ReleaseSlot, ReturnSlot, Returns
<1>3. ASSUME NEW j \in Jobs,
             \/ Start(j) \/ Generate(j) \/ Claim(j) \/ Alert(j)
             \/ ResolveOwner(j) \/ Send(j) \/ RecordMail(j) \/ Crash(j)
      PROVE  UNCHANGED counterVars
  BY <1>3 DEF Start, Generate, Claim, Alert, ResolveOwner, Send, RecordMail,
              Crash
<1>4. CASE NextDay \/ UNCHANGED vars
  BY <1>4 DEF NextDay, vars
<1> QED
  BY <1>1, <1>2, <1>3, <1>4 DEF Next, Step

(* The set of holders of a day gains or loses the job. *)
LEMMA SlotTaken ==
  ASSUME TypeOK, NEW j \in Jobs, NEW d \in Days, Takes(j, d)
  PROVE  /\ j \notin OnSlots(d)
         /\ OnSlots(d)' = OnSlots(d) \cup {j}
         /\ \A e \in Days \ {d} : OnSlots(e)' = OnSlots(e)
<1> USE DayFacts DEF TypeOK, Takes, OnSlots
<1>1. \A i \in Jobs : counted'[i] = IF i = j THEN d ELSE counted[i]
  OBVIOUS
<1> QED
  BY <1>1

LEMMA SlotReturned ==
  ASSUME TypeOK, NEW j \in Jobs, NEW d \in Days, Returns(j, d)
  PROVE  /\ j \in OnSlots(d)
         /\ OnSlots(d)' = OnSlots(d) \ {j}
         /\ \A e \in Days \ {d} : OnSlots(e)' = OnSlots(e)
<1> USE DayFacts DEF TypeOK, Returns, OnSlots
<1>1. \A i \in Jobs : counted'[i] = IF i = j THEN NoDay ELSE counted[i]
  OBVIOUS
<1> QED
  BY <1>1

----------------------------------------------------------------------------
(* The parts of the invariant *)

LEMMA TypesKept == ASSUME IInv, [Next]_vars PROVE TypeOK'
<1> USE DEF IInv, Running, Ended, Sending, Goto, Fault
<1>1. amount' \in [Days -> Nat] /\ counted' \in [Jobs -> Days \cup {NoDay}]
  <2>1. CASE UNCHANGED counterVars
    BY <2>1 DEF TypeOK, counterVars
  <2>2. ASSUME NEW j \in Jobs, NEW d \in Days, Takes(j, d) \/ Returns(j, d)
        PROVE  /\ amount' \in [Days -> Nat]
               /\ counted' \in [Jobs -> Days \cup {NoDay}]
    <3>1. amount[d] \in Nat
      BY DEF TypeOK
    <3> QED
      BY <2>2, <3>1 DEF TypeOK, Takes, Returns
  <2> QED
    BY <2>1, <2>2, StepMovesSlots
<1>2. ASSUME NEW j \in Jobs, Start(j) PROVE TypeOK'
  BY <1>1, <1>2 DEF TypeOK, Start
<1>3. ASSUME NEW j \in Jobs, Generate(j) PROVE TypeOK'
  BY <1>1, <1>3, EmailAssumption DEF TypeOK, Generate
<1>4. ASSUME NEW j \in Jobs, Claim(j) PROVE TypeOK'
  <2>1. j \in Preps
    BY <1>4 DEF Claim, Sane
  <2> QED
    BY <1>1, <1>4, <2>1, EmailAssumption DEF TypeOK, Claim, Unclaimed
<1>5. ASSUME NEW j \in Jobs, Alert(j) PROVE TypeOK'
  <2>1. j \in Preps
    BY <1>5 DEF Alert, Sane
  <2> QED
    BY <1>1, <1>5, <2>1, EmailAssumption DEF TypeOK, Alert
<1>6. ASSUME NEW j \in Jobs, ResolveOwner(j) PROVE TypeOK'
  BY <1>1, <1>6, EmailAssumption DEF TypeOK, ResolveOwner, AfterMail
<1>7. ASSUME NEW j \in Jobs, ReserveSlot(j) PROVE TypeOK'
  BY <1>1, <1>7, EmailAssumption DEF TypeOK, ReserveSlot, AfterMail
<1>8. ASSUME NEW j \in Jobs, Send(j) PROVE TypeOK'
  BY <1>1, <1>8, EmailAssumption DEF TypeOK, Send
<1>9. ASSUME NEW j \in Jobs, ReleaseSlot(j) PROVE TypeOK'
  BY <1>1, <1>9, EmailAssumption DEF TypeOK, ReleaseSlot, AfterMail
<1>10. ASSUME NEW j \in Jobs, RecordMail(j) PROVE TypeOK'
  BY <1>1, <1>10, EmailAssumption DEF TypeOK, RecordMail, AfterMail
<1>11. ASSUME NEW j \in Jobs, Crash(j) PROVE TypeOK'
  BY <1>1, <1>11, EmailAssumption DEF TypeOK, Crash
<1>12. CASE NextDay
  BY <1>1, <1>12, EmailAssumption DEF TypeOK, NextDay, Days
<1>13. CASE UNCHANGED vars
  BY <1>13 DEF TypeOK, vars
<1> QED
  BY <1>2, <1>3, <1>4, <1>5, <1>6, <1>7, <1>8, <1>9, <1>10, <1>11, <1>12,
     <1>13 DEF Next, Step

(* An action of one job leaves what the others rely on alone. *)
LEMMA SanesKept ==
  ASSUME IInv, [Next]_vars PROVE (\A k \in Jobs : Sane(k))'
<1> SUFFICES ASSUME NEW k \in Jobs PROVE Sane(k)'
  OBVIOUS
<1> USE DayFacts
    DEF IInv, TypeOK, Sane, Goto, AfterMail, Unasked, Holding, counterVars
<1>1. ASSUME NEW j \in Jobs, Start(j) PROVE Sane(k)'
  BY <1>1 DEF Start
<1>2. ASSUME NEW j \in Jobs, Generate(j) PROVE Sane(k)'
  BY <1>2 DEF Generate
<1>3. ASSUME NEW j \in Jobs, Claim(j) PROVE Sane(k)'
  BY <1>3 DEF Claim
<1>4. ASSUME NEW j \in Jobs, Alert(j) PROVE Sane(k)'
  BY <1>4 DEF Alert
<1>5. ASSUME NEW j \in Jobs, ResolveOwner(j) PROVE Sane(k)'
  BY <1>5 DEF ResolveOwner
<1>6. ASSUME NEW j \in Jobs, ReserveSlot(j) PROVE Sane(k)'
  BY <1>6 DEF ReserveSlot, TakeSlot
<1>7. ASSUME NEW j \in Jobs, Send(j) PROVE Sane(k)'
  BY <1>7 DEF Send
<1>8. ASSUME NEW j \in Jobs, ReleaseSlot(j) PROVE Sane(k)'
  BY <1>8 DEF ReleaseSlot, ReturnSlot
<1>9. ASSUME NEW j \in Jobs, RecordMail(j) PROVE Sane(k)'
  BY <1>9 DEF RecordMail
<1>10. ASSUME NEW j \in Jobs, Crash(j) PROVE Sane(k)'
  BY <1>10 DEF Crash, Running, Sending
<1>11. CASE NextDay \/ UNCHANGED vars
  BY <1>11 DEF NextDay, vars
<1> QED
  BY <1>1, <1>2, <1>3, <1>4, <1>5, <1>6, <1>7, <1>8, <1>9, <1>10, <1>11
     DEF Next, Step

LEMMA CountersKept == ASSUME IInv, [Next]_vars PROVE CounterSane'
<1> USE DEF IInv
<1>1. CASE UNCHANGED counterVars
  BY <1>1 DEF CounterSane, counterVars, OnSlots
<1>2. ASSUME NEW j \in Jobs, NEW d \in Days, Takes(j, d) PROVE CounterSane'
  <2>1. Cardinality(OnSlots(d)') = Cardinality(OnSlots(d)) + 1
    BY <1>2, SlotTaken, JobsOnSlots, FS_AddElement
  <2>2. /\ amount'[d] = amount[d] + 1
        /\ \A e \in Days \ {d} : amount'[e] = amount[e]
    BY <1>2 DEF TypeOK, Takes
  <2> QED
    BY <1>2, <2>1, <2>2, SlotTaken DEF CounterSane, Takes
<1>3. ASSUME NEW j \in Jobs, NEW d \in Days, Returns(j, d) PROVE CounterSane'
  <2>1. Cardinality(OnSlots(d)') = Cardinality(OnSlots(d)) - 1
    BY <1>3, SlotReturned, JobsOnSlots, FS_RemoveElement
  <2>2. Cardinality(OnSlots(d)) > 0
    BY <1>3, SlotReturned, JobsOnSlots, FS_EmptySet
  <2>3. /\ amount'[d] = amount[d] - 1
        /\ \A e \in Days \ {d} : amount'[e] = amount[e]
    BY <1>3, <2>2 DEF TypeOK, Returns, CounterSane
  <2>4. amount[d] \in Nat /\ Cap \in Nat
    BY EmailAssumption DEF TypeOK
  <2> QED
    BY <1>3, <2>1, <2>3, <2>4, SlotReturned DEF CounterSane
<1> QED
  BY <1>1, <1>2, <1>3, StepMovesSlots

(* Only a failure loses the slot of an email that left. *)
LEMMA LosesByFault ==
  ASSUME IInv, [Next]_vars
  PROVE  \/ Lost' \subseteq Lost /\ faults' >= faults
         \/ \E j \in Jobs : Lost' \subseteq Lost \cup {j} /\ faults' = faults + 1
<1> USE DayFacts DEF IInv, TypeOK, Lost, Goto, Fault, AfterMail, counterVars
<1>1. ASSUME NEW j \in Jobs, Start(j)
      PROVE  Lost' \subseteq Lost /\ faults' >= faults
  BY <1>1 DEF Start
<1>2. ASSUME NEW j \in Jobs, Generate(j) \/ Claim(j) \/ Alert(j)
      PROVE  Lost' \subseteq Lost /\ faults' >= faults
  BY <1>2 DEF Generate, Claim, Alert
<1>3. ASSUME NEW j \in Jobs, ResolveOwner(j) \/ RecordMail(j)
      PROVE  Lost' \subseteq Lost /\ faults' >= faults
  BY <1>3 DEF ResolveOwner, RecordMail
<1>4. ASSUME NEW j \in Jobs, ReserveSlot(j)
      PROVE  Lost' \subseteq Lost /\ faults' >= faults
  <2>1. j \notin mailed /\ slot[j] \in Days
    BY <1>4 DEF ReserveSlot, Sane
  <2>2. \A i \in mailed : counted'[i] = counted[i]
    BY <1>4, <2>1 DEF ReserveSlot, TakeSlot
  <2> QED
    BY <1>4, <2>1, <2>2 DEF ReserveSlot
<1>5. ASSUME NEW j \in Jobs, Send(j)
      PROVE  \/ Lost' \subseteq Lost /\ faults' >= faults
             \/ Lost' \subseteq Lost \cup {j} /\ faults' = faults + 1
  <2>1. j \notin mailed /\ counted[j] # NoDay
    BY <1>5 DEF Send, Sane, Holding
  <2> QED
    BY <1>5, <2>1 DEF Send
<1>6. ASSUME NEW j \in Jobs, ReleaseSlot(j)
      PROVE  Lost' \subseteq Lost /\ faults' >= faults
  BY <1>6 DEF ReleaseSlot, ReturnSlot
<1>7. ASSUME NEW j \in Jobs, Crash(j)
      PROVE  Lost' \subseteq Lost /\ faults' >= faults
  BY <1>7 DEF Crash
<1>8. CASE NextDay \/ UNCHANGED vars
  BY <1>8 DEF NextDay, vars
<1> QED
  BY <1>1, <1>2, <1>3, <1>4, <1>5, <1>6, <1>7, <1>8 DEF Next, Step

LEMMA LostKept == ASSUME IInv, [Next]_vars PROVE LostSane'
<1> USE DEF IInv
<1>1. Lost \subseteq Jobs /\ IsFiniteSet(Lost) /\ Cardinality(Lost) \in Nat
  <2>1. Lost \subseteq Jobs
    BY DEF Lost, TypeOK
  <2> QED
    BY <2>1, FiniteJobs, FS_Subset, FS_CardinalityType
<1>2. faults \in Nat /\ faults' \in Nat
  BY TypesKept, EmailAssumption DEF TypeOK
<1>3. CASE Lost' \subseteq Lost /\ faults' >= faults
  <2>1. Cardinality(Lost') \in Nat /\ Cardinality(Lost') <= Cardinality(Lost)
    BY <1>1, <1>3, FS_Subset, FS_CardinalityType
  <2> QED
    BY <1>1, <1>2, <1>3, <2>1 DEF LostSane
<1>4. ASSUME NEW j \in Jobs, Lost' \subseteq Lost \cup {j},
             faults' = faults + 1
      PROVE  LostSane'
  <2>1. CASE j \in Lost
    <3>1. Lost' \subseteq Lost
      BY <1>4, <2>1
    <3>2. Cardinality(Lost') \in Nat /\ Cardinality(Lost') <= Cardinality(Lost)
      BY <1>1, <3>1, FS_Subset, FS_CardinalityType
    <3> QED
      BY <1>1, <1>2, <1>4, <3>2 DEF LostSane
  <2>2. CASE j \notin Lost
    <3>1. /\ IsFiniteSet(Lost \cup {j})
          /\ Cardinality(Lost \cup {j}) = Cardinality(Lost) + 1
      BY <1>1, <2>2, FS_AddElement
    <3>2. /\ Cardinality(Lost') \in Nat
          /\ Cardinality(Lost') <= Cardinality(Lost \cup {j})
      BY <1>4, <3>1, FS_Subset, FS_CardinalityType
    <3> QED
      BY <1>1, <1>2, <1>4, <3>1, <3>2 DEF LostSane
  <2> QED
    BY <2>1, <2>2
<1> QED
  BY <1>3, <1>4, LosesByFault

LEMMA ClaimsKept == ASSUME IInv, [Next]_vars PROVE ClaimSane'
<1> USE DEF IInv
<1>1. ASSUME NEW j \in Jobs, Claim(j) PROVE ClaimSane'
  <2> USE DEF TypeOK, Goto, Sending, PastClaim, ClaimSane, Jobs
  <2>1. j \in Preps
    BY <1>1 DEF Claim, Sane
  <2>2. \A k \in Preps \ {j} : PastClaim(k)' => PastClaim(k)
    BY <1>1 DEF Claim
  <2>3. claims \subseteq claims'
    BY <1>1 DEF Claim
  <2>4. CASE PastClaim(j)' => PastClaim(j)
    BY <2>2, <2>3, <2>4
  <2>5. CASE /\ PastClaim(j)'
             /\ MeetingOf[j] \notin claims
             /\ MeetingOf[j] \in claims'
    BY <2>1, <2>2, <2>3, <2>5
  <2> QED
    BY <1>1, <2>4, <2>5 DEF Claim, Unclaimed
<1>2. ASSUME \A k \in Preps : PastClaim(k)' => PastClaim(k),
             UNCHANGED claims
      PROVE  ClaimSane'
  BY <1>2 DEF ClaimSane
<1>3. ASSUME NEW j \in Jobs,
             Start(j) \/ Generate(j) \/ Alert(j) \/ ResolveOwner(j)
      PROVE  ClaimSane'
  <2>1. \A k \in Preps : PastClaim(k)' => PastClaim(k)
    BY <1>3 DEF TypeOK, Goto, AfterMail, Sending, PastClaim, Jobs, Start,
                Generate, Alert, ResolveOwner
  <2> QED
    BY <1>2, <1>3, <2>1 DEF Start, Generate, Alert, ResolveOwner
<1>4. ASSUME NEW j \in Jobs,
             \/ ReserveSlot(j) \/ Send(j) \/ ReleaseSlot(j) \/ RecordMail(j)
             \/ Crash(j)
      PROVE  ClaimSane'
  <2>1. \A k \in Preps : PastClaim(k)' => PastClaim(k)
    BY <1>4 DEF TypeOK, Goto, AfterMail, Sending, PastClaim, Jobs,
                ReserveSlot, Send, ReleaseSlot, RecordMail, Crash
  <2> QED
    BY <1>2, <1>4, <2>1 DEF ReserveSlot, Send, ReleaseSlot, RecordMail, Crash
<1>5. CASE NextDay \/ UNCHANGED vars
  BY <1>5 DEF NextDay, vars, ClaimSane, PastClaim
<1> QED
  BY <1>1, <1>3, <1>4, <1>5 DEF Next, Step

----------------------------------------------------------------------------
(* Theorems *)

LEMMA InitIsSafe == Init => IInv
<1> SUFFICES ASSUME Init PROVE IInv
  OBVIOUS
<1> USE DEF Init
<1>1. TypeOK
  BY EmailAssumption DEF TypeOK, Days
<1>2. \A j \in Jobs : Sane(j)
  BY DEF Sane, Unasked, Holding
<1>3. CounterSane
  <2>1. \A d \in Days : OnSlots(d) = {}
    BY DayFacts DEF OnSlots
  <2> QED
    BY <2>1, FS_EmptySet, EmailAssumption DEF CounterSane
<1>4. LostSane
  <2>1. Lost = {}
    BY DEF Lost
  <2> QED
    BY <2>1, FS_EmptySet DEF LostSane
<1>5. ClaimSane
  BY DEF ClaimSane, PastClaim, Sending, Jobs
<1> QED
  BY <1>1, <1>2, <1>3, <1>4, <1>5 DEF IInv

LEMMA SpecIsSafe == Spec => []IInv
<1>1. IInv /\ [Next]_vars => IInv'
  BY TypesKept, SanesKept, CountersKept, LostKept, ClaimsKept DEF IInv
<1> QED
  BY <1>1, InitIsSafe, PTL DEF Spec

(* Every reachable state is well typed. *)
THEOREM EmailTypeCorrect == Spec => []TypeOK
<1>1. IInv => TypeOK
  BY DEF IInv
<1> QED
  BY <1>1, SpecIsSafe, PTL

(* Of the cycles that list a meeting at most one delivers its prep.        *)
THEOREM PrepsDeliverOnce == Spec => []PrepOnce
<1>1. IInv => PrepOnce
  BY DEF IInv, ClaimSane, PastClaim, PrepOnce, Delivers
<1> QED
  BY <1>1, SpecIsSafe, PTL

(* The emails on a day's slots exceed the cap by no more than the calls    *)
(* that failed.                                                            *)
THEOREM OverCapIsFault == Spec => []OverCapOnlyByFault
<1>1. IInv => OverCapOnlyByFault
  <2> SUFFICES ASSUME IInv, NEW d \in Days
               PROVE  Cardinality({j \in mailed : slot[j] = d}) <= Cap + faults
    BY DEF OverCapOnlyByFault
  <2> USE DEF IInv
  <2>1. {j \in mailed : slot[j] = d} \subseteq OnSlots(d) \cup Lost
    BY DEF Lost, OnSlots, TypeOK, Sane
  <2>2. IsFiniteSet(Lost) /\ Cardinality(Lost) \in Nat
    <3>1. Lost \subseteq Jobs
      BY DEF Lost, TypeOK
    <3> QED
      BY <3>1, FiniteJobs, FS_Subset, FS_CardinalityType
  <2>3. IsFiniteSet(OnSlots(d)) /\ Cardinality(OnSlots(d)) \in Nat
    BY JobsOnSlots
  <2>4. /\ IsFiniteSet(OnSlots(d) \cap Lost)
        /\ Cardinality(OnSlots(d) \cap Lost) \in Nat
    BY <2>3, FS_Intersection, FS_CardinalityType
  <2>5. /\ IsFiniteSet(OnSlots(d) \cup Lost)
        /\ Cardinality(OnSlots(d) \cup Lost)
             = Cardinality(OnSlots(d)) + Cardinality(Lost)
               - Cardinality(OnSlots(d) \cap Lost)
    BY <2>2, <2>3, FS_Union
  <2>6. LET M == {j \in mailed : slot[j] = d}
        IN  /\ Cardinality(M) \in Nat
            /\ Cardinality(M) <= Cardinality(OnSlots(d) \cup Lost)
    BY <2>1, <2>5, FS_Subset, FS_CardinalityType
  <2>7. /\ Cardinality(OnSlots(d)) <= Cap
        /\ Cardinality(Lost) <= faults
        /\ Cap \in Nat /\ faults \in Nat
    BY EmailAssumption DEF CounterSane, LostSane, TypeOK
  <2> QED
    BY <2>2, <2>3, <2>4, <2>5, <2>6, <2>7
<1> QED
  BY <1>1, SpecIsSafe, PTL

(* One day of the one envelope changes. *)
LEMMA OneDayChanges ==
  ASSUME NEW key,
         NEW a \in [{key} -> [Days -> SUBSET Jobs]],
         NEW b \in [{key} -> [Days -> SUBSET Jobs]],
         NEW d \in Days, NEW X, b[key][d] = X,
         \A e \in Days \ {d} : b[key][e] = a[key][e]
  PROVE  b = [a EXCEPT ![key][d] = X]
<1>1. b[key] = [a[key] EXCEPT ![d] = X]
  OBVIOUS
<1> QED
  BY <1>1

(* The counter implements the envelope of claims: every reservation of a   *)
(* slot is a Hold, every release a GiveBack, every other step a stutter.   *)
THEOREM SlotsAreAnEnvelope == Spec => ImplementsEnvelope
<1> DEFINE E == {"system_email"}
           H == [g \in E |-> [d \in Days |-> {j \in Jobs : counted[j] = d}]]
<1>1. Init => Envelope!Init
  BY DayFacts DEF Init, Envelope!Init
<1>2. IInv /\ [Next]_vars => [Envelope!Next]_H
  <2> SUFFICES ASSUME IInv, [Next]_vars PROVE Envelope!Next \/ H' = H
    OBVIOUS
  <2> USE DEF IInv
  <2>0. \A d \in Days : /\ H["system_email"][d] = OnSlots(d)
                        /\ H'["system_email"][d] = OnSlots(d)'
    BY DEF OnSlots
  <2>00. /\ H \in [{"system_email"} -> [Days -> SUBSET Jobs]]
         /\ H' \in [{"system_email"} -> [Days -> SUBSET Jobs]]
    OBVIOUS
  <2>1. CASE UNCHANGED counterVars
    BY <2>1 DEF counterVars
  <2>2. ASSUME NEW j \in Jobs, NEW d \in Days, Takes(j, d)
        PROVE  Envelope!Hold(j, "system_email", d)
    <3>1. Envelope!Unheld(j)
      BY <2>2, DayFacts DEF Takes, Envelope!Unheld
    <3>2. Cap # NoCap
      BY EmailAssumption
    <3>3. Cardinality(OnSlots(d) \cup {j}) <= Cap
      <4>1. Cardinality(OnSlots(d) \cup {j}) = Cardinality(OnSlots(d)) + 1
        BY <2>2, SlotTaken, JobsOnSlots, FS_AddElement
      <4> QED
        BY <2>2, <4>1 DEF Takes, CounterSane
    <3>4. OnSlots(d) \cup {j} \in SUBSET Jobs
      BY DEF OnSlots
    <3>5. H' = [H EXCEPT !["system_email"][d] = @ \cup {j}]
      <4>1. /\ H'["system_email"][d] = H["system_email"][d] \cup {j}
            /\ \A e \in Days \ {d} :
                 H'["system_email"][e] = H["system_email"][e]
        BY <2>0, <2>2, SlotTaken
      <4> HIDE DEF H
      <4> QED
        BY <2>00, <4>1, OneDayChanges
    <3> QED
      BY <2>0, <3>1, <3>2, <3>3, <3>4, <3>5 DEF Envelope!Hold
  <2>3. ASSUME NEW j \in Jobs, NEW d \in Days, Returns(j, d)
        PROVE  Envelope!GiveBack(j, "system_email", d)
    <3>1. H' = [H EXCEPT !["system_email"][d] = @ \ {j}]
      <4>1. /\ H'["system_email"][d] = H["system_email"][d] \ {j}
            /\ \A e \in Days \ {d} :
                 H'["system_email"][e] = H["system_email"][e]
        BY <2>0, <2>3, SlotReturned
      <4> HIDE DEF H
      <4> QED
        BY <2>00, <4>1, OneDayChanges
    <3> QED
      BY <2>0, <2>3, <3>1, SlotReturned DEF Envelope!GiveBack
  <2> QED
    BY <2>1, <2>2, <2>3, StepMovesSlots DEF Envelope!Next
<1> QED
  BY <1>1, <1>2, SpecIsSafe, PTL
     DEF Spec, ImplementsEnvelope, Envelope!Spec

----------------------------------------------------------------------------
(* A claimed prep lands *)

(* When one job moves and no alert is taken back, only the meeting of that *)
(* job can drift away, or one that was claimed in the same step.           *)
LEMMA OthersKeepHold ==
  ASSUME TypeOK, NEW j \in Jobs,
         \A k \in Jobs \ {j} : pc'[k] = pc[k],
         alerted \subseteq alerted'
  PROVE  \A m : \/ InHand(m) => InHand(m)'
                \/ j \in Preps /\ m = MeetingOf[j]
<1> SUFFICES ASSUME NEW m, InHand(m), ~InHand(m)'
             PROVE  j \in Preps /\ m = MeetingOf[j]
  OBVIOUS
<1>1. PICK k \in Preps : /\ MeetingOf[k] = m
                         /\ pc[k] \in Sending \cup {"alerting"} \/ k \in alerted
  BY DEF InHand
<1>2. k # j => InHand(m)'
  BY <1>1 DEF InHand, Jobs
<1> QED
  BY <1>1, <1>2

LEMMA DriftsByFault ==
  ASSUME IInv, [Next]_vars
  PROVE  \/ Adrift' \subseteq Adrift /\ faults' \in {faults, faults + 1}
         \/ \E m : Adrift' \subseteq Adrift \cup {m} /\ faults' = faults + 1
<1> USE DEF IInv, Goto, Fault
<1>1. ASSUME NEW j \in Jobs, Start(j) \/ Generate(j)
      PROVE  Adrift' \subseteq Adrift /\ faults' \in {faults, faults + 1}
  <2>1. \A k \in Preps : pc[k] \in Sending \cup {"alerting"} => pc'[k] = pc[k]
    BY <1>1 DEF Start, Generate, TypeOK, Sending, Jobs
  <2> QED
    BY <1>1, <2>1 DEF Start, Generate, Adrift, InHand
<1>2. ASSUME NEW j \in Jobs, Claim(j)
      PROVE  \/ Adrift' \subseteq Adrift /\ faults' = faults
             \/ /\ Adrift' \subseteq Adrift \cup {MeetingOf[j]}
                /\ faults' = faults + 1
  <2>1. j \in Preps
    BY <1>2 DEF Claim, Sane
  <2>2. \A k \in Preps : pc[k] \in Sending \cup {"alerting"} => pc'[k] = pc[k]
    BY <1>2 DEF Claim, TypeOK, Sending, Jobs
  <2>3. \A m : InHand(m) => InHand(m)'
    BY <1>2, <2>2 DEF Claim, InHand
  <2>4. CASE Goto(j, "resolving") /\ claims' = claims \cup {MeetingOf[j]}
    <3>1. InHand(MeetingOf[j])'
      BY <2>1, <2>4 DEF InHand, Sending, TypeOK, Jobs
    <3> QED
      BY <1>2, <2>3, <2>4, <3>1 DEF Claim, Adrift
  <2>5. CASE UNCHANGED <<claims, faults>>
    BY <2>3, <2>5 DEF Adrift
  <2>6. CASE Fault /\ claims' \in {claims, claims \cup {MeetingOf[j]}}
    BY <2>3, <2>6 DEF Adrift
  <2> QED
    BY <1>2, <2>4, <2>5, <2>6 DEF Claim
<1>3. ASSUME NEW j \in Jobs, Alert(j)
      PROVE  \/ Adrift' \subseteq Adrift /\ faults' = faults
             \/ /\ Adrift' \subseteq Adrift \cup {MeetingOf[j]}
                /\ faults' = faults + 1
  <2>1. /\ \A k \in Jobs \ {j} : pc'[k] = pc[k]
        /\ alerted \subseteq alerted' /\ UNCHANGED claims
    BY <1>3 DEF Alert, TypeOK
  <2>2. j \in alerted' => (j \in Preps => InHand(MeetingOf[j])')
    BY DEF InHand
  <2>3. \A m : \/ InHand(m) => InHand(m)'
               \/ j \in Preps /\ m = MeetingOf[j]
    BY <2>1, OthersKeepHold
  <2> QED
    BY <1>3, <2>1, <2>2, <2>3 DEF Alert, Adrift
<1>4. ASSUME NEW j \in Jobs,
             \/ ResolveOwner(j) \/ ReserveSlot(j) \/ Send(j)
             \/ ReleaseSlot(j) \/ RecordMail(j)
      PROVE  Adrift' \subseteq Adrift /\ faults' \in {faults, faults + 1}
  <2>1. /\ \A k \in Jobs \ {j} : pc'[k] = pc[k]
        /\ UNCHANGED <<alerted, claims>>
        /\ faults' \in {faults, faults + 1}
        /\ j \in Preps => pc'[j] \in Sending \cup {"alerting"}
    BY <1>4 DEF TypeOK, AfterMail, Sending, ResolveOwner, ReserveSlot, Send,
                ReleaseSlot, RecordMail
  <2>2. \A m : InHand(m) => InHand(m)'
    BY <2>1 DEF InHand, Jobs
  <2> QED
    BY <2>1, <2>2 DEF Adrift
<1>5. ASSUME NEW j \in Jobs, Crash(j)
      PROVE  \E m : Adrift' \subseteq Adrift \cup {m} /\ faults' = faults + 1
  <2>1. /\ \A k \in Jobs \ {j} : pc'[k] = pc[k]
        /\ UNCHANGED <<alerted, claims>> /\ faults' = faults + 1
    BY <1>5 DEF Crash, TypeOK
  <2>2. \A m : \/ InHand(m) => InHand(m)'
               \/ j \in Preps /\ m = MeetingOf[j]
    BY <2>1, OthersKeepHold
  <2>3. Adrift' \subseteq Adrift \cup {MeetingOf[j]}
    BY <2>1, <2>2 DEF Adrift
  <2> QED
    BY <2>1, <2>3
<1>6. ASSUME NextDay \/ UNCHANGED vars
      PROVE  Adrift' = Adrift /\ faults' = faults
  BY <1>6 DEF NextDay, vars, Adrift, InHand
<1> QED
  BY <1>1, <1>2, <1>3, <1>4, <1>5, <1>6 DEF Next, Step

(* The claim that keeps every later cycle away from a meeting is made      *)
(* before its prep is delivered: of the claimed meetings, those that are   *)
(* neither on their way nor in the app are no more than the failures.      *)
THEOREM ClaimsLand == Spec => []AdriftOnlyByFault
<1> DEFINE Held == AdriftOnlyByFault /\ IsFiniteSet(Adrift) /\ faults \in Nat
<1>1. Init => Held
  <2> SUFFICES ASSUME Init PROVE Held
    OBVIOUS
  <2>1. Adrift = {} /\ faults = 0
    BY DEF Init, Adrift
  <2> QED
    BY <2>1, FS_EmptySet DEF AdriftOnlyByFault
<1>2. IInv /\ Held /\ [Next]_vars => Held'
  <2> SUFFICES ASSUME IInv, Held, [Next]_vars PROVE Held'
    OBVIOUS
  <2>1. Cardinality(Adrift) \in Nat
    BY FS_CardinalityType
  <2>2. CASE Adrift' \subseteq Adrift /\ faults' \in {faults, faults + 1}
    <3>1. /\ IsFiniteSet(Adrift') /\ Cardinality(Adrift') \in Nat
          /\ Cardinality(Adrift') <= Cardinality(Adrift)
      BY <2>2, FS_Subset, FS_CardinalityType
    <3> QED
      BY <2>1, <2>2, <3>1 DEF AdriftOnlyByFault
  <2>3. ASSUME NEW m, Adrift' \subseteq Adrift \cup {m}, faults' = faults + 1
        PROVE  Held'
    <3>1. /\ IsFiniteSet(Adrift \cup {m})
          /\ Cardinality(Adrift \cup {m}) \in
               {Cardinality(Adrift), Cardinality(Adrift) + 1}
      BY FS_AddElement
    <3>2. /\ IsFiniteSet(Adrift') /\ Cardinality(Adrift') \in Nat
          /\ Cardinality(Adrift') <= Cardinality(Adrift \cup {m})
      BY <2>3, <3>1, FS_Subset, FS_CardinalityType
    <3> QED
      BY <2>1, <2>3, <3>1, <3>2 DEF AdriftOnlyByFault
  <2> QED
    BY <2>2, <2>3, DriftsByFault
<1> QED
  BY <1>1, <1>2, SpecIsSafe, PTL DEF Spec

(* Both halves of "exactly-once": no prep twice, and none lost but by a    *)
(* failure of its own.                                                     *)
THEOREM PrepsLandExactlyOnce == Spec => []ExactlyOnceButForFaults
BY PrepsDeliverOnce, ClaimsLand, PTL DEF ExactlyOnceButForFaults

(* An upper bound on the steps a job has still to take by itself.          *)
Rank(j) ==
  CASE pc[j] = "generating" -> 7
    [] pc[j] = "claiming" -> 6
    [] pc[j] = "resolving" -> 5
    [] pc[j] = "reserving" -> 4
    [] pc[j] = "sending" -> 3
    [] pc[j] \in {"releasing", "recording"} -> 2
    [] pc[j] = "alerting" -> 1
    [] OTHER -> 0

(* Every step of a job brings it nearer to its end, and nothing but its    *)
(* start takes it further away.                                            *)
Descends ==
  [][\A j \in Jobs :
       /\ Step(j) => Rank(j)' < Rank(j)
       /\ Start(j) \/ Rank(j)' <= Rank(j)]_vars

(* With ClaimsLand: without a failure, a claimed prep is in the hands of a *)
(* job until it is in the app, and no job keeps it for more than seven     *)
(* steps.  What is left of FloorLands is the fairness.                     *)
THEOREM JobsDescend == Spec => Descends
<1>1. ASSUME TypeOK, NEW j \in Jobs, Step(j) PROVE Rank(j)' < Rank(j)
  <2>1. \/ pc[j] = "generating" /\ pc'[j] \in {"claiming", "failed"}
        \/ pc[j] = "claiming" /\ pc'[j] \in {"resolving", "duplicate", "failed"}
        \/ pc[j] = "alerting" /\ pc'[j] \in {"done", "failed"}
        \/ pc[j] = "resolving" /\ pc'[j] \in {"reserving", "alerting", "done"}
        \/ pc[j] = "reserving" /\ pc'[j] \in {"sending", "alerting", "done"}
        \/ pc[j] = "sending" /\ pc'[j] \in {"recording", "releasing"}
        \/ pc[j] \in {"releasing", "recording"} /\ pc'[j] \in {"alerting", "done"}
    BY <1>1 DEF TypeOK, Goto, AfterMail, Step, Generate, Claim, Alert,
                ResolveOwner, ReserveSlot, Send, ReleaseSlot, RecordMail
  <2> QED
    BY <2>1 DEF Rank
<1>2. ASSUME TypeOK, NEW i \in Jobs, NEW j \in Jobs, i # j,
             Start(i) \/ Step(i) \/ Crash(i)
      PROVE  Rank(j)' = Rank(j)
  <2>1. pc'[j] = pc[j]
    BY <1>2 DEF TypeOK, Goto, AfterMail, Start, Crash, Step, Generate, Claim,
                Alert, ResolveOwner, ReserveSlot, Send, ReleaseSlot, RecordMail
  <2> QED
    BY <2>1 DEF Rank
<1>3. ASSUME TypeOK, NEW j \in Jobs, Crash(j) PROVE Rank(j)' <= Rank(j)
  <2>1. pc'[j] = "crashed"
    BY <1>3 DEF TypeOK, Crash, Goto
  <2> QED
    BY <2>1 DEF Rank
<1>4. ASSUME NEW j \in Jobs, NextDay \/ UNCHANGED vars
      PROVE  Rank(j)' = Rank(j)
  BY <1>4 DEF NextDay, vars, Rank
<1>5. ASSUME NEW j \in Jobs PROVE Rank(j) \in 0..7 /\ Rank(j)' \in 0..7
  BY DEF Rank
<1>6. TypeOK /\ [Next]_vars =>
        [\A j \in Jobs : /\ Step(j) => Rank(j)' < Rank(j)
                         /\ Start(j) \/ Rank(j)' <= Rank(j)]_vars
  <2> SUFFICES ASSUME TypeOK, [Next]_vars, NEW j \in Jobs
               PROVE  /\ Step(j) => Rank(j)' < Rank(j)
                      /\ Start(j) \/ Rank(j)' <= Rank(j)
    OBVIOUS
  <2>1. \/ Rank(j)' = Rank(j) \/ Step(j) \/ Crash(j) \/ Start(j)
    BY <1>2, <1>4 DEF Next
  <2> QED
    BY <1>1, <1>3, <1>5, <2>1
<1> QED
  BY <1>6, EmailTypeCorrect, PTL DEF Spec, Descends
=============================================================================

----------------------------- MODULE SystemEmail -----------------------------
(***************************************************************************)
(* Email in the name of the customer's system (apps/id/src/lib/email/      *)
(* sender.ts), capped by the daily counter of migrations/00080, and its    *)
(* two callers: the meeting preps of overlapping cron cycles (lib/calendar/*)
(* prep.ts), each gated by a claim and ended by an in-app alert, and the   *)
(* briefs a customer asks to be sent (api/marcus/brief).                   *)
(*                                                                         *)
(* A job is a brief, or what one cycle does for one meeting it lists.  It  *)
(* stops at every await; jobs of one account interleave freely.            *)
(* The Slack leg of either is best effort and leaves no shared state.      *)
(***************************************************************************)
EXTENDS Naturals, FiniteSets

CONSTANTS
  Meetings,   \* pairs of a calendar event and its start
  Preps,      \* a cycle's turn on a meeting
  MeetingOf,  \* prep -> the meeting
  Briefs,     \* briefs to be sent by email
  Cap,        \* SYSTEM_EMAIL_DAILY_CAP
  NoCap,      \* the null cap of an envelope, which email does not have
  LastDay,    \* bound: the last UTC day explored
  MaxFaults   \* bound: failed calls, lost replies and crashes

Jobs == Preps \cup Briefs
Days == 0..LastDay
NoDay == LastDay + 1

ASSUME EmailAssumption ==
  /\ MeetingOf \in [Preps -> Meetings]
  /\ Preps \cap Briefs = {}
  /\ NoCap \notin Nat
  /\ Cap \in Nat /\ LastDay \in Nat /\ MaxFaults \in Nat
ASSUME FiniteJobs == IsFiniteSet(Jobs)

VARIABLES
  day,      \* current UTC day
  amount,   \* day -> the counter with the key system_email
  pc,       \* job -> the await it is suspended in, or how it ended
  slot,     \* job -> the day it asked a slot of
  counted,  \* job -> the day whose counter includes its slot (history)
  mailed,   \* jobs whose email left (history)
  claims,   \* meetings with a row in kinetiks_inbound_events
  alerted,  \* preps whose in-app alert was inserted
  faults    \* failures so far

vars == <<day, amount, pc, slot, counted, mailed, claims, alerted, faults>>
counterVars == <<amount, counted>>

Sending == {"resolving", "reserving", "sending", "releasing", "recording"}
Running == {"generating", "claiming", "alerting"} \cup Sending
Ended == {"done", "duplicate", "failed", "crashed"}

Init ==
  /\ day = 0
  /\ amount = [d \in Days |-> 0]
  /\ pc = [j \in Jobs |-> "idle"]
  /\ slot = [j \in Jobs |-> NoDay]
  /\ counted = [j \in Jobs |-> NoDay]
  /\ mailed = {}
  /\ claims = {}
  /\ alerted = {}
  /\ faults = 0

----------------------------------------------------------------------------
Goto(j, l) == pc' = [pc EXCEPT ![j] = l]
Fault == faults < MaxFaults /\ faults' = faults + 1

(* What a prep does when sendSystemEmail returned or threw: the alert      *)
(* follows either way.  The mutant lets the error end the turn.            *)
AfterMail_Throws(j) == Goto(j, "failed")
AfterMail(j) == Goto(j, IF j \in Preps THEN "alerting" ELSE "done")

(* The unique event_key; the mutant is a table without it.                 *)
Unclaimed_Anyway(m) == TRUE
Unclaimed(m) == m \notin claims

(* _kt_reserve_daily_counter with an amount of one. *)
HasRoom_OffByOne(d) == amount[d] <= Cap     \* mutant
HasRoom(d) == amount[d] + 1 <= Cap
TakeSlot(j) ==
  /\ amount' = [amount EXCEPT ![slot[j]] = @ + 1]
  /\ counted' = [counted EXCEPT ![j] = slot[j]]

(* _kt_release_daily_counter; the mutant gives back a slot of today, and   *)
(* without the floor.                                                      *)
ReturnSlot_Today(j) ==
  /\ amount' = [amount EXCEPT ![day] = @ - 1]
  /\ counted' = [counted EXCEPT ![j] = NoDay]
ReturnSlot(j) ==
  /\ amount' = [amount EXCEPT ![slot[j]] = IF @ > 0 THEN @ - 1 ELSE 0]
  /\ counted' = [counted EXCEPT ![j] = NoDay]

----------------------------------------------------------------------------
(* One meeting of a cycle: generate, claim, deliver *)

Start(j) ==
  /\ pc[j] = "idle"
  /\ Goto(j, IF j \in Preps THEN "generating" ELSE "resolving")
  /\ UNCHANGED <<day, counterVars, slot, mailed, claims, alerted, faults>>

Generate(j) ==
  /\ pc[j] = "generating"
  /\ \/ Goto(j, "claiming") /\ UNCHANGED faults
     \/ Goto(j, "failed") /\ Fault
  /\ UNCHANGED <<day, counterVars, slot, mailed, claims, alerted>>

(* The insert wins, loses against the row that is there, or throws, with   *)
(* or without a row when only the reply was lost.                          *)
Claim(j) ==
  /\ pc[j] = "claiming"
  /\ LET m == MeetingOf[j]
     IN  \/ /\ Unclaimed(m)
            /\ claims' = claims \cup {m}
            /\ Goto(j, "resolving")
            /\ UNCHANGED faults
         \/ /\ ~Unclaimed(m)
            /\ Goto(j, "duplicate")
            /\ UNCHANGED <<claims, faults>>
         \/ /\ Fault
            /\ claims' \in {claims, claims \cup {m}}
            /\ Goto(j, "failed")
  /\ UNCHANGED <<day, counterVars, slot, mailed, alerted>>

(* The floor.  A failed insert ends the turn.                              *)
Alert(j) ==
  /\ pc[j] = "alerting"
  /\ \/ alerted' = alerted \cup {j} /\ Goto(j, "done") /\ UNCHANGED faults
     \/ alerted' \in {alerted, alerted \cup {j}} /\ Goto(j, "failed") /\ Fault
  /\ UNCHANGED <<day, counterVars, slot, mailed, claims>>

----------------------------------------------------------------------------
(* sendSystemEmail *)

(* The owner's address is looked up; the day is read before the slot is    *)
(* asked for, so midnight may pass in between.                             *)
ResolveOwner(j) ==
  /\ pc[j] = "resolving"
  /\ \/ Goto(j, "reserving") /\ slot' = [slot EXCEPT ![j] = day]
        /\ UNCHANGED faults
     \/ AfterMail(j) /\ Fault /\ UNCHANGED slot
  /\ UNCHANGED <<day, counterVars, mailed, claims, alerted>>

(* Granted, refused, or thrown: then the slot may have been taken.         *)
ReserveSlot(j) ==
  /\ pc[j] = "reserving"
  /\ \/ HasRoom(slot[j]) /\ TakeSlot(j) /\ Goto(j, "sending")
        /\ UNCHANGED faults
     \/ ~HasRoom(slot[j]) /\ AfterMail(j) /\ UNCHANGED <<counterVars, faults>>
     \/ /\ Fault
        /\ AfterMail(j)
        /\ \/ UNCHANGED counterVars
           \/ HasRoom(slot[j]) /\ TakeSlot(j)
  /\ UNCHANGED <<day, slot, mailed, claims, alerted>>

(* The provider accepts the message, refuses it (or cannot be asked), or   *)
(* accepts it and its answer is lost.                                      *)
Send(j) ==
  /\ pc[j] = "sending"
  /\ \/ mailed' = mailed \cup {j} /\ Goto(j, "recording") /\ UNCHANGED faults
     \/ Goto(j, "releasing") /\ UNCHANGED <<mailed, faults>>
     \/ mailed' = mailed \cup {j} /\ Goto(j, "releasing") /\ Fault
  /\ UNCHANGED <<day, counterVars, slot, claims, alerted>>

(* releaseSendSlot never throws. *)
ReleaseSlot(j) ==
  /\ pc[j] = "releasing"
  /\ AfterMail(j)
  /\ \/ ReturnSlot(j) /\ UNCHANGED faults
     \/ Fault /\ (ReturnSlot(j) \/ UNCHANGED counterVars)
  /\ UNCHANGED <<day, slot, mailed, claims, alerted>>

(* The Ledger entry; without it sendSystemEmail throws after the email     *)
(* has left, and the slot stays taken.                                     *)
RecordMail(j) ==
  /\ pc[j] = "recording"
  /\ AfterMail(j)
  /\ UNCHANGED faults \/ Fault
  /\ UNCHANGED <<day, counterVars, slot, mailed, claims, alerted>>

----------------------------------------------------------------------------
(* The process dies; nobody takes over its claim or its slot. *)
Crash(j) ==
  /\ pc[j] \in Running
  /\ Fault
  /\ Goto(j, "crashed")
  /\ UNCHANGED <<day, counterVars, slot, mailed, claims, alerted>>

NextDay ==
  /\ day < LastDay
  /\ day' = day + 1
  /\ UNCHANGED <<counterVars, pc, slot, mailed, claims, alerted, faults>>

Step(j) ==
  \/ Generate(j) \/ Claim(j) \/ Alert(j)
  \/ ResolveOwner(j) \/ ReserveSlot(j) \/ Send(j) \/ ReleaseSlot(j)
  \/ RecordMail(j)

Next == (\E j \in Jobs : Start(j) \/ Step(j) \/ Crash(j)) \/ NextDay

Spec == Init /\ [][Next]_vars

(* An await of a running job is answered, or its client times out. *)
FairSpec == Spec /\ \A j \in Jobs : WF_vars(Step(j))

----------------------------------------------------------------------------
(* Properties *)

TypeOK ==
  /\ day \in Days
  /\ amount \in [Days -> Nat]
  /\ pc \in [Jobs -> Running \cup Ended \cup {"idle"}]
  /\ slot \in [Jobs -> Days \cup {NoDay}]
  /\ counted \in [Jobs -> Days \cup {NoDay}]
  /\ mailed \in SUBSET Jobs
  /\ claims \in SUBSET Meetings
  /\ alerted \in SUBSET Preps
  /\ faults \in 0..MaxFaults

(* "exactly-once per (event, start)", the half that must never fail: of    *)
(* the cycles that list a meeting at most one emails or alerts its prep,   *)
(* whatever overlaps, fails or is lost.                                    *)
Delivers(j) == j \in mailed \cup alerted
PrepOnce ==
  \A i, j \in Preps :
    MeetingOf[i] = MeetingOf[j] /\ Delivers(i) /\ Delivers(j) => i = j

(* The other half: a claim keeps every later cycle away, so its prep is in *)
(* the hands of its job or in the app.  Those that are neither are paid    *)
(* for by failures, one each.                                              *)
InHand(m) ==
  \E j \in Preps : /\ MeetingOf[j] = m
                   /\ pc[j] \in Sending \cup {"alerting"} \/ j \in alerted
Adrift == {m \in claims : ~InHand(m)}
AdriftOnlyByFault == Cardinality(Adrift) <= faults

ExactlyOnceButForFaults == PrepOnce /\ AdriftOnlyByFault

(* "The in-app alert: the floor that always lands": unless a call fails or *)
(* the process dies, a claimed prep reaches the customer, also when the    *)
(* email was refused by the cap or by the provider.                        *)
FloorLands ==
  \A m \in Meetings :
    m \in claims ~> faults > 0 \/ \E j \in alerted : MeetingOf[j] = m

(* "We under-send, never over-send": a lost answer makes the sender give   *)
(* back the slot of an email that left, so the emails on a day's slots do  *)
(* exceed the cap, but by no more than the calls that failed.              *)
OverCapOnlyByFault ==
  \A d \in Days : Cardinality({j \in mailed : slot[j] = d}) <= Cap + faults

(* The counter implements the envelope of claims that the agent runtime's  *)
(* spend also implements: a slot is held by one job, on the day it asked   *)
(* for, and is given back at most once.                                    *)
Envelope ==
  INSTANCE SpendEnvelope WITH
    Claims <- Jobs,
    Grants <- {"system_email"},
    DayCap <- [g \in {"system_email"} |-> Cap],
    NoCap <- NoCap,
    Total <- [S \in SUBSET Jobs |-> Cardinality(S)],
    holders <- [g \in {"system_email"} |->
                  [d \in Days |-> {j \in Jobs : counted[j] = d}]]
ImplementsEnvelope == Envelope!Spec
=============================================================================

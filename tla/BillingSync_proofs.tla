------------------------- MODULE BillingSync_proofs -------------------------
(***************************************************************************)
(* Proofs about BillingSync, for any subscriptions, plans, deliveries and  *)
(* bounds.  One inductive invariant carries all of them.  Its always-true  *)
(* half says who holds the claim of an event; its quiet half, for          *)
(* behaviours without overlap or failure, says that a handler read the row *)
(* it will write, and that whatever Stripe changed since is announced by   *)
(* an event that was not processed yet.                                    *)
(***************************************************************************)
EXTENDS BillingSync, SequenceTheorems, FiniteSetTheorems, TLAPS

----------------------------------------------------------------------------
(* The inductive invariant *)

Holding == {"claimed", "fetched", "failing", "written"}
Ended(status) == status \in {"canceled", "paused"}

(* A subscription without a status was not checked out; one that has a     *)
(* status has a paid plan.                                                 *)
TruthSane ==
  \A s \in Subs :
    /\ truth[s].status # "none" => truth[s].plan # "free"
    /\ s \in sessions => truth[s].status = "none"

(* Events are of subscriptions that exist; without a failure they are      *)
(* processed at most once and stay claimed; see ExactlyOnce for the rest.  *)
EventSane(n) ==
  /\ truth[events[n].sub].status # "none"
  /\ faults = 0 => events[n].times <= 1
  /\ faults = 0 /\ events[n].times # 0 => events[n].claimed
  /\ events[n].acked /\ events[n].times = 0 /\ overlaps = 0 =>
       events[n].claimed
EventsSane == \A n \in 1..Len(events) : EventSane(n)

(* A handler works on an event Stripe noted, and past the claim it is the  *)
(* only one that does.                                                     *)
HandlerSane(h) ==
  /\ handlers[h].at # "idle" => handlers[h].nth \in 1..Len(events)
  /\ handlers[h].at \in Holding => Ours(h).claimed
  /\ handlers[h].at = "written" => Ours(h).times # 0
  /\ handlers[h].at = "failing" => faults # 0
  /\ handlers[h].at \in {"claimed", "fetched"} /\ faults = 0 =>
       Ours(h).times = 0
  /\ handlers[h].at # "idle" /\ overlaps = 0 => ~Ours(h).acked
HandlersSane == \A h \in Handlers : HandlerSane(h)

(* What a handler fetched: a subscription that exists, and one that ended  *)
(* stays as it is.                                                         *)
SeenSane ==
  \A h \in Handlers :
    handlers[h].at = "fetched" =>
      /\ Ours(h).kind \in {"checkout", "subscription"}
      /\ handlers[h].seen.status # "none"
      /\ handlers[h].seen.plan # "free"
      /\ Ended(handlers[h].seen.status) =>
           truth[Ours(h).sub].status = handlers[h].seen.status

HoldersDiffer ==
  \A g, h \in Handlers :
    /\ handlers[g].at \in Holding
    /\ handlers[h].at \in Holding
    /\ handlers[g].nth = handlers[h].nth
    => g = h

OneAtATime ==
  overlaps = 0 =>
    \A g, h \in Handlers :
      handlers[g].at # "idle" /\ handlers[h].at # "idle" => g = h

(* An event that will tell of the change Stripe made to s. *)
Announced(s, n) ==
  events[n].kind = "subscription" /\ events[n].sub = s /\ events[n].times = 0

QuietRow ==
  Quiet =>
    /\ row.seeds \in {row.plan, "none"}
    /\ row.sub = NoSub => row.plan = "free"
    /\ row.sub # NoSub =>
         \/ Live(row.sub) /\ truth[row.sub].plan \in {Unmapped, row.plan}
         \/ \E n \in 1..Len(events) : Announced(row.sub, n)

QuietRead ==
  Quiet =>
    \A h \in Handlers :
      /\ handlers[h].at \in {"resolved", "claimed", "fetched"} =>
           handlers[h].read = row
      /\ handlers[h].at = "fetched" =>
           \/ handlers[h].seen = truth[Ours(h).sub]
           \/ \E n \in 1..Len(events) :
                n # handlers[h].nth /\ Announced(Ours(h).sub, n)

(* The Ledger's sum for a row of which so many writes left a free row with *)
(* a subscription: a free row that has one was told once too often less    *)
(* than it was left so.                                                    *)
Owed(r) == IF r.sub = NoSub THEN 0 ELSE 1
Odd(r) == IF r.sub # NoSub /\ r.plan = "free" THEN 1 ELSE 0
Fits(sum, r, writes) ==
  Owed(r) <= sum /\ sum + Odd(r) <= Owed(r) + writes
QuietLedger ==
  Quiet =>
    /\ (\A h \in Handlers : handlers[h].at # "written") =>
         Fits(ledger, row, unpriced)
    /\ \A h \in Handlers :
         handlers[h].at = "written" =>
           Fits(ledger + handlers[h].tells, row, unpriced)

IInv ==
  /\ TypeOK
  /\ TruthSane
  /\ EventsSane
  /\ HandlersSane
  /\ SeenSane
  /\ HoldersDiffer
  /\ OneAtATime
  /\ QuietRow
  /\ QuietRead
  /\ QuietLedger

THEOREM InitIInv == Init => IInv
<1> SUFFICES ASSUME Init PROVE IInv
  OBVIOUS
<1> USE BillingAssumption
<1>1. FirstRow \in Row /\ Unborn \in Subscription
  BY DEF FirstRow, Row, Unborn, Subscription, Plans, Statuses
<1>2. Idle \in Handler /\ Idle.at = "idle"
  BY <1>1 DEF Idle, Handler, Places
<1>3. TypeOK
  BY <1>1, <1>2 DEF Init, TypeOK
<1>4. \A h \in Handlers : handlers[h].at = "idle"
  BY <1>2 DEF Init
<1>5. Len(events) = 0
  BY DEF Init
<1>6. TruthSane
  BY DEF Init, TruthSane, Unborn
<1>7. EventsSane
  BY <1>5 DEF EventsSane
<1>8. HandlersSane /\ SeenSane /\ HoldersDiffer /\ OneAtATime
  BY <1>4 DEF HandlersSane, HandlerSane, SeenSane, HoldersDiffer, OneAtATime,
    Holding
<1>9. QuietRow
  BY DEF Init, QuietRow, FirstRow
<1>10. QuietRead /\ QuietLedger
  BY <1>4 DEF QuietRead, QuietLedger, Init, Fits, Owed, Odd, FirstRow
<1> QED
  BY <1>3, <1>6, <1>7, <1>8, <1>9, <1>10 DEF IInv

----------------------------------------------------------------------------
(* What the helpers do *)

(* Set replaces one event and leaves the others alone. *)
LEMMA SetForm ==
  ASSUME events \in Seq(Event), NEW n \in 1..Len(events), NEW e \in Event,
         Set(n, e)
  PROVE  /\ events' \in Seq(Event)
         /\ Len(events') = Len(events)
         /\ events'[n] = e
         /\ \A m \in 1..Len(events) : m # n => events'[m] = events[m]
  BY DEF Set

(* A handler's record is replaced and the others' are not. *)
LEMMA HandlerForm ==
  ASSUME handlers \in [Handlers -> Handler], NEW h \in Handlers,
         NEW r \in Handler, handlers' = [handlers EXCEPT ![h] = r]
  PROVE  /\ handlers' \in [Handlers -> Handler]
         /\ handlers'[h] = r
         /\ \A g \in Handlers : g # h => handlers'[g] = handlers[g]
  OBVIOUS

(* Note appends new events of one subscription. *)
LEMMA NoteForm ==
  ASSUME events \in Seq(Event), NEW s \in Subs, NEW kinds \in Seq(Kinds),
         Len(kinds) # 0, kinds[Len(kinds)] = "subscription", Note(kinds, s)
  PROVE  /\ events' \in Seq(Event)
         /\ Len(events') >= Len(events)
         /\ \A n \in 1..Len(events) : events'[n] = events[n]
         /\ \A n \in 1..Len(events') :
              n \notin 1..Len(events) =>
                \E kind \in Kinds : events'[n] = Noted(kind, s)
         /\ \E n \in 1..Len(events') :
              n \notin 1..Len(events) /\ events'[n] = Noted("subscription", s)
<1> DEFINE new == [i \in 1..Len(kinds) |-> Noted(kinds[i], s)]
<1>1. \A i \in 1..Len(kinds) : kinds[i] \in Kinds
  OBVIOUS
<1>2. \A kind \in Kinds : Noted(kind, s) \in Event
  BY DEF Noted, Event
<1>3. Len(kinds) \in Nat /\ \A i \in 1..Len(kinds) : new[i] = Noted(kinds[i], s)
  OBVIOUS
<1>4. new \in Seq(Event) /\ Len(new) = Len(kinds)
  <2>1. new \in [1..Len(kinds) -> Event]
    BY <1>1, <1>2
  <2> QED
    BY <1>3, <2>1, SeqDef
<1>5. events' = events \o new
  BY DEF Note
<1> HIDE DEF new
<1>6. /\ events' \in Seq(Event)
      /\ Len(events') = Len(events) + Len(kinds)
      /\ \A n \in 1..Len(events) : events'[n] = events[n]
      /\ \A n \in Len(events) + 1..Len(events) + Len(kinds) :
           events'[n] = new[n - Len(events)]
  BY <1>4, <1>5
<1>7. \A n \in 1..Len(events') :
       n \notin 1..Len(events) =>
         \E kind \in Kinds : events'[n] = Noted(kind, s)
  <2> SUFFICES ASSUME NEW n \in 1..Len(events'), n \notin 1..Len(events)
               PROVE  \E kind \in Kinds : events'[n] = Noted(kind, s)
    OBVIOUS
  <2>1. /\ n \in Len(events) + 1..Len(events) + Len(kinds)
        /\ n - Len(events) \in 1..Len(kinds)
    BY <1>3, <1>6
  <2> QED
    BY <2>1, <1>1, <1>3, <1>6
<1>8. \E n \in 1..Len(events') :
       n \notin 1..Len(events) /\ events'[n] = Noted("subscription", s)
  <2>1. /\ Len(events') \in Len(events) + 1..Len(events) + Len(kinds)
        /\ Len(events') - Len(events) = Len(kinds)
        /\ Len(kinds) \in 1..Len(kinds)
    BY <1>3, <1>6
  <2>2. events'[Len(events')] = Noted("subscription", s)
    BY <2>1, <1>3, <1>6
  <2> QED
    BY <1>3, <1>6, <2>1, <2>2
<1> QED
  BY <1>3, <1>6, <1>7, <1>8

----------------------------------------------------------------------------
(* Stripe's steps: a change is announced by an event nobody processed yet. *)

Announcements ==
  {<<"subscription">>, <<"checkout", "subscription">>,
   <<"paid", "subscription">>, <<"failed", "subscription">>}

LEMMA AnnouncementForm ==
  ASSUME NEW kinds \in Announcements
  PROVE  /\ kinds \in Seq(Kinds)
         /\ Len(kinds) # 0
         /\ kinds[Len(kinds)] = "subscription"
<1>1. CASE kinds = <<"subscription">>
  BY <1>1 DEF Kinds
<1>2. CASE kinds = <<"checkout", "subscription">>
  BY <1>2 DEF Kinds
<1>3. CASE kinds = <<"paid", "subscription">>
  BY <1>3 DEF Kinds
<1>4. CASE kinds = <<"failed", "subscription">>
  BY <1>4 DEF Kinds
<1> QED
  BY <1>1, <1>2, <1>3, <1>4 DEF Announcements

LEMMA BecomesStep ==
  ASSUME IInv, NEW s \in Subs, NEW status \in Statuses \ {"none"},
         NEW plan \in Prices, NEW kinds \in Announcements,
         Becomes(s, status, plan, kinds),
         ~Ended(truth[s].status),
         sessions' \in SUBSET sessions, s \notin sessions'
  PROVE  IInv'
<1> USE BillingAssumption
<1> DEFINE new == [status |-> status, plan |-> plan]
<1>1. TypeOK
  BY DEF IInv
<1>2. new \in Subscription
  BY DEF Subscription, Plans, Prices
<1>3. truth' = [truth EXCEPT ![s] = new] /\ UNCHANGED <<row, ledger, handlers, unpriced, overlaps, faults>>
  BY DEF Becomes
<1>4. /\ truth' \in [Subs -> Subscription]
      /\ truth'[s] = new
      /\ \A t \in Subs : t # s => truth'[t] = truth[t]
  BY <1>1, <1>2, <1>3 DEF TypeOK
<1>5. new.status = status /\ new.plan = plan
  OBVIOUS
<1> HIDE DEF new
<1>6. /\ events' \in Seq(Event)
      /\ Len(events') >= Len(events)
      /\ \A n \in 1..Len(events) : events'[n] = events[n]
      /\ \A n \in 1..Len(events') :
           n \notin 1..Len(events) =>
             \E kind \in Kinds : events'[n] = Noted(kind, s)
      /\ \E n \in 1..Len(events') :
           n \notin 1..Len(events) /\ events'[n] = Noted("subscription", s)
  BY <1>1, AnnouncementForm, NoteForm DEF Becomes, TypeOK
<1>7. \A n \in 1..Len(events) : n \in 1..Len(events')
  BY <1>1, <1>6 DEF TypeOK
<1>8. \A kind \in Kinds : /\ Noted(kind, s).sub = s
                          /\ Noted(kind, s).kind = kind
                          /\ Noted(kind, s).times = 0
                          /\ Noted(kind, s).acked = FALSE
  BY DEF Noted
<1>9. \A n \in 1..Len(events) : events[n] \in Event
  BY <1>1 DEF TypeOK
<1>10. \A h \in Handlers :
        handlers[h].at # "idle" =>
          handlers[h].nth \in 1..Len(events) /\ Ours(h)' = Ours(h) /\ Ours(h) \in Event
  BY <1>3, <1>6, <1>9 DEF IInv, HandlersSane, HandlerSane, Ours
<1>11. \A t \in Subs : truth[t].status # "none" => truth'[t].status # "none"
  BY <1>4, <1>5
<1>12. \A t \in Subs : Ended(truth[t].status) => truth'[t] = truth[t]
  BY <1>4
<1>13. TypeOK'
  BY <1>1, <1>3, <1>4, <1>6 DEF TypeOK
<1>14. TruthSane'
  BY <1>4, <1>5 DEF IInv, TruthSane, Prices
<1>15. EventsSane'
  <2> SUFFICES ASSUME NEW n \in 1..Len(events') PROVE EventSane(n)'
    BY DEF EventsSane
  <2>1. CASE n \in 1..Len(events)
    <3>1. EventSane(n) /\ events'[n] = events[n] /\ events[n].sub \in Subs
      BY <2>1, <1>6, <1>9 DEF IInv, EventsSane, Event
    <3> QED
      BY <3>1, <1>3, <1>11 DEF EventSane
  <2>2. CASE n \notin 1..Len(events)
    <3>1. PICK kind \in Kinds : events'[n] = Noted(kind, s)
      BY <2>2, <1>6
    <3>2. /\ events'[n].sub = s /\ events'[n].times = 0
          /\ events'[n].acked = FALSE
      BY <3>1, <1>8
    <3> QED
      BY <3>2, <1>4, <1>5 DEF EventSane
  <2> QED
    BY <2>1, <2>2
<1>16. HandlersSane'
  BY <1>3, <1>7, <1>10 DEF IInv, HandlersSane, HandlerSane, Holding
<1>17. SeenSane'
  <2> SUFFICES ASSUME NEW h \in Handlers, handlers[h].at = "fetched"
               PROVE  /\ Ours(h).kind \in {"checkout", "subscription"}
                      /\ handlers[h].seen.status # "none"
                      /\ handlers[h].seen.plan # "free"
                      /\ Ended(handlers[h].seen.status) =>
                           truth'[Ours(h).sub].status = handlers[h].seen.status
    BY <1>3, <1>10 DEF SeenSane
  <2>1. Ours(h).sub \in Subs
    BY <1>10 DEF Event
  <2> QED
    BY <2>1, <1>12 DEF IInv, SeenSane, Ended
<1>18. HoldersDiffer' /\ OneAtATime'
  BY <1>3 DEF IInv, HoldersDiffer, OneAtATime
<1>19. \A t \in Subs, n \in 1..Len(events) : Announced(t, n) => Announced(t, n)'
  BY <1>6 DEF Announced
<1>20. \E n \in 1..Len(events') : n \notin 1..Len(events) /\ Announced(s, n)'
  BY <1>6, <1>8 DEF Announced, Kinds
<1>21. QuietRow'
  <2> SUFFICES ASSUME Quiet PROVE QuietRow'
    BY <1>3 DEF QuietRow, Quiet
  <2>1. /\ row.seeds \in {row.plan, "none"}
        /\ row.sub = NoSub => row.plan = "free"
        /\ row.sub # NoSub =>
             \/ Live(row.sub) /\ truth[row.sub].plan \in {Unmapped, row.plan}
             \/ \E n \in 1..Len(events) : Announced(row.sub, n)
    BY DEF IInv, QuietRow
  <2>2. row.sub # NoSub => row.sub \in Subs
    BY <1>1 DEF TypeOK, Row
  <2>3. row.sub # NoSub =>
         \/ Live(row.sub)' /\ truth'[row.sub].plan \in {Unmapped, row.plan}
         \/ \E n \in 1..Len(events') : Announced(row.sub, n)'
    <3>1. CASE row.sub = s
      BY <3>1, <1>3, <1>20 DEF Announced
    <3>2. CASE row.sub # s
      BY <3>2, <2>1, <2>2, <1>4, <1>3, <1>7, <1>19 DEF Live, Announced
    <3> QED
      BY <3>1, <3>2
  <2> QED
    BY <2>1, <2>3, <1>3 DEF QuietRow, Announced
<1>22. QuietRead'
  <2> SUFFICES ASSUME Quiet, NEW h \in Handlers
               PROVE  /\ handlers[h].at \in {"resolved", "claimed", "fetched"} =>
                           handlers[h].read = row
                      /\ handlers[h].at = "fetched" =>
                           \/ handlers[h].seen = truth'[Ours(h).sub]
                           \/ \E n \in 1..Len(events') :
                                n # handlers[h].nth /\ Announced(Ours(h).sub, n)'
    BY <1>3, <1>10 DEF QuietRead, Quiet, Announced
  <2>1. CASE handlers[h].at = "fetched" /\ Ours(h).sub = s
    BY <2>1, <1>10, <1>20 DEF IInv, QuietRead
  <2>2. CASE handlers[h].at = "fetched" /\ Ours(h).sub # s
    <3>1. Ours(h).sub \in Subs
      BY <2>2, <1>10 DEF Event
    <3> QED
      BY <2>2, <3>1, <1>4, <1>7, <1>10, <1>19 DEF IInv, QuietRead, Announced
  <2>3. CASE handlers[h].at # "fetched"
    BY <2>3 DEF IInv, QuietRead
  <2> QED
    BY <2>1, <2>2, <2>3
<1>23. QuietLedger'
  BY <1>3 DEF IInv, QuietLedger, Quiet
<1> QED
  BY <1>13, <1>14, <1>15, <1>16, <1>17, <1>18, <1>21, <1>22, <1>23 DEF IInv

LEMMA StripeStep ==
  ASSUME IInv, NEW s \in Subs,
         \/ OpenCheckout(s) \/ Renew(s) \/ Dun(s) \/ EndSub(s)
         \/ \E plan \in Prices : Complete(s, plan) \/ ChangePlan(s, plan)
  PROVE  IInv'
<1> USE BillingAssumption
<1>1. TypeOK /\ TruthSane
  BY DEF IInv
<1>2. Live(s) => truth[s].plan \in Prices /\ ~Ended(truth[s].status)
  BY <1>1 DEF TypeOK, TruthSane, Live, Subscription, Plans, Prices, Ended
<1>3. Live(s) => s \notin sessions
  BY <1>1 DEF TruthSane, Live
<1>4. /\ <<"subscription">> \in Announcements
      /\ <<"checkout", "subscription">> \in Announcements
      /\ <<"paid", "subscription">> \in Announcements
      /\ <<"failed", "subscription">> \in Announcements
  BY DEF Announcements
<1>5. CASE OpenCheckout(s)
  <2>1. /\ truth[s].status = "none" /\ sessions' = sessions \cup {s}
        /\ UNCHANGED <<truth, events, row, ledger, handlers, unpriced, overlaps,
                       faults>>
    BY <1>5 DEF OpenCheckout
  <2>2. TypeOK' /\ TruthSane'
    BY <1>1, <2>1 DEF TypeOK, TruthSane
  <2>3. EventsSane' /\ HandlersSane' /\ SeenSane'
    BY <2>1 DEF IInv, EventsSane, EventSane, HandlersSane, HandlerSane,
      SeenSane, Ours
  <2>4. HoldersDiffer' /\ OneAtATime'
    BY <2>1 DEF IInv, HoldersDiffer, OneAtATime
  <2>5. QuietRow' /\ QuietRead' /\ QuietLedger'
    BY <2>1 DEF IInv, QuietRow, QuietRead, QuietLedger, Quiet, Live,
      Announced, Ours
  <2> QED
    BY <2>2, <2>3, <2>4, <2>5 DEF IInv
<1>6. CASE Renew(s)
  <2>1. /\ Live(s) /\ sessions' = sessions
        /\ Becomes(s, "active", truth[s].plan, <<"paid", "subscription">>)
    BY <1>6 DEF Renew
  <2> QED
    BY <1>2, <1>3, <1>4, <2>1, BecomesStep DEF Statuses
<1>7. CASE Dun(s)
  <2>1. /\ Live(s) /\ sessions' = sessions
        /\ Becomes(s, "past_due", truth[s].plan, <<"failed", "subscription">>)
    BY <1>7 DEF Dun
  <2> QED
    BY <1>2, <1>3, <1>4, <2>1, BecomesStep DEF Statuses
<1>8. CASE EndSub(s)
  <2>1. Live(s) /\ sessions' = sessions
    BY <1>8 DEF EndSub
  <2>2. PICK status \in {"canceled", "paused"} :
          Becomes(s, status, truth[s].plan, <<"subscription">>)
    BY <1>8 DEF EndSub
  <2> QED
    BY <1>2, <1>3, <1>4, <2>1, <2>2, BecomesStep DEF Statuses
<1>9. ASSUME NEW plan \in Prices, Complete(s, plan) PROVE IInv'
  <2>1. /\ s \in sessions /\ sessions' = sessions \ {s}
        /\ Becomes(s, "active", plan, <<"checkout", "subscription">>)
    BY <1>9 DEF Complete
  <2>2. ~Ended(truth[s].status)
    BY <1>1, <2>1 DEF TruthSane, Ended
  <2> QED
    BY <1>4, <2>1, <2>2, BecomesStep DEF Statuses
<1>10. ASSUME NEW plan \in Prices, ChangePlan(s, plan) PROVE IInv'
  <2>1. /\ Live(s) /\ sessions' = sessions
        /\ Becomes(s, truth[s].status, plan, <<"subscription">>)
    BY <1>10 DEF ChangePlan
  <2>2. truth[s].status \in Statuses \ {"none"}
    BY <2>1 DEF Live, Statuses
  <2> QED
    BY <1>2, <1>3, <1>4, <2>1, <2>2, BecomesStep
<1> QED
  BY <1>5, <1>6, <1>7, <1>8, <1>9, <1>10

----------------------------------------------------------------------------
(* The webhook's steps *)

(* The records handlers get. *)
Reading(nth, read) == [Idle EXCEPT !.at = "resolved", !.nth = nth, !.read = read]
Left(at, nth, tells) == [Idle EXCEPT !.at = at, !.nth = nth, !.tells = tells]

LEMMA IdleForm ==
  /\ FirstRow \in Row /\ Unborn \in Subscription
  /\ Idle \in Handler /\ Idle.at = "idle"
<1> USE BillingAssumption
<1>1. FirstRow \in Row /\ Unborn \in Subscription
  BY DEF FirstRow, Row, Unborn, Subscription, Plans, Statuses
<1> QED
  BY <1>1 DEF Idle, Handler, Places

LEMMA ReadingForm ==
  ASSUME NEW nth \in Nat, NEW read \in Row
  PROVE  /\ Reading(nth, read) \in Handler
         /\ Reading(nth, read).at = "resolved"
         /\ Reading(nth, read).nth = nth
         /\ Reading(nth, read).read = read
  BY IdleForm DEF Reading, Handler, Places

LEMMA LeftForm ==
  ASSUME NEW at \in Places, NEW nth \in Nat, NEW tells \in {-1, 0, 1}
  PROVE  /\ Left(at, nth, tells) \in Handler
         /\ Left(at, nth, tells).at = at
         /\ Left(at, nth, tells).nth = nth
         /\ Left(at, nth, tells).tells = tells
  BY IdleForm DEF Left, Handler, Places

LEMMA ReceiveStep ==
  ASSUME IInv, NEW h \in Handlers, NEW n \in 1..Len(events), Receive(h, n)
  PROVE  IInv'
<1> USE BillingAssumption
<1> DEFINE r == Reading(n, row)
<1>1. TypeOK
  BY DEF IInv
<1>2. /\ r \in Handler /\ r.at = "resolved" /\ r.nth = n /\ r.read = row
  BY <1>1, ReadingForm DEF TypeOK
<1>3. /\ handlers[h].at = "idle" /\ ~events[n].acked
      /\ UNCHANGED <<truth, sessions, events, row, ledger, unpriced, faults>>
  BY DEF Receive, stripeVars
<1>4. handlers' = [handlers EXCEPT ![h] = r]
  BY DEF Receive, Reading
<1> HIDE DEF r
<1>5. /\ handlers' \in [Handlers -> Handler] /\ handlers'[h] = r
      /\ \A g \in Handlers : g # h => handlers'[g] = handlers[g]
  BY <1>1, <1>2, <1>4, HandlerForm DEF TypeOK
<1>6. /\ overlaps' \in 0..MaxOverlaps
      /\ overlaps' = 0 =>
           overlaps = 0 /\ \A g \in Handlers : handlers[g].at = "idle"
  <2>1. overlaps \in 0..MaxOverlaps /\ MaxOverlaps \in Nat
    BY <1>1 DEF TypeOK
  <2>2. CASE Busy = {} /\ UNCHANGED overlaps
    BY <2>1, <2>2 DEF Busy
  <2>3. CASE Busy # {} /\ overlaps < MaxOverlaps /\ overlaps' = overlaps + 1
    BY <2>1, <2>3
  <2> QED
    BY <2>2, <2>3 DEF Receive
<1>7. TypeOK' /\ TruthSane'
  BY <1>1, <1>3, <1>5, <1>6 DEF IInv, TypeOK, TruthSane
<1>8. EventsSane'
  BY <1>3, <1>6 DEF IInv, EventsSane, EventSane
<1>9. HandlersSane'
  BY <1>2, <1>3, <1>5, <1>6 DEF IInv, HandlersSane, HandlerSane, Ours, Holding
<1>10. SeenSane'
  BY <1>2, <1>3, <1>5 DEF IInv, SeenSane, Ours
<1>11. HoldersDiffer' /\ OneAtATime'
  BY <1>2, <1>5, <1>6 DEF IInv, HoldersDiffer, OneAtATime, Holding
<1>12. Quiet' => Quiet
  BY <1>3, <1>6 DEF Quiet
<1>13. QuietRow'
  BY <1>3, <1>12 DEF IInv, QuietRow, Live, Announced
<1>14. QuietRead'
  BY <1>2, <1>3, <1>5, <1>12 DEF IInv, QuietRead, Ours, Announced
<1>15. QuietLedger'
  BY <1>2, <1>3, <1>5, <1>12 DEF IInv, QuietLedger
<1> QED
  BY <1>7, <1>8, <1>9, <1>10, <1>11, <1>13, <1>14, <1>15 DEF IInv

(* A handler that gives up, at any place, and leaves the events alone. *)
LEMMA LeaveStep ==
  ASSUME IInv, NEW h \in Handlers, NEW r \in Handler,
         handlers' = [handlers EXCEPT ![h] = r],
         \/ r.at = "idle"
         \/ /\ r.at = "failing" /\ r.nth = handlers[h].nth
            /\ handlers[h].at \in Holding,
         faults' \in 0..MaxFaults, faults' # 0, faults # 0 => faults' # 0,
         UNCHANGED <<truth, sessions, events, row, ledger, unpriced, overlaps>>
  PROVE  IInv'
<1>1. TypeOK
  BY DEF IInv
<1>2. /\ handlers' \in [Handlers -> Handler] /\ handlers'[h] = r
      /\ \A g \in Handlers : g # h => handlers'[g] = handlers[g]
  BY <1>1, HandlerForm DEF TypeOK
<1>3. TypeOK' /\ TruthSane'
  BY <1>1, <1>2 DEF IInv, TypeOK, TruthSane
<1>4. EventsSane'
  BY DEF IInv, EventsSane, EventSane
<1>5. HandlersSane'
  BY <1>2 DEF IInv, HandlersSane, HandlerSane, Ours, Holding
<1>6. SeenSane'
  BY <1>2 DEF IInv, SeenSane, Ours
<1>7. HoldersDiffer' /\ OneAtATime'
  BY <1>2 DEF IInv, HoldersDiffer, OneAtATime, Holding
<1>8. QuietRow' /\ QuietRead' /\ QuietLedger'
  BY DEF QuietRow, QuietRead, QuietLedger, Quiet
<1> QED
  BY <1>3, <1>4, <1>5, <1>6, <1>7, <1>8 DEF IInv

LEMMA FaultForm ==
  ASSUME IInv, Fault
  PROVE  faults' \in 0..MaxFaults /\ faults' # 0 /\ faults' > faults
<1>1. faults \in 0..MaxFaults /\ MaxFaults \in Nat
  BY BillingAssumption DEF IInv, TypeOK
<1> QED
  BY <1>1 DEF Fault

LEMMA ThrowStep ==
  ASSUME IInv, NEW h \in Handlers, Throw(h)
  PROVE  IInv'
<1>1. handlers[h].at \in Holding /\ handlers[h].nth \in Nat
  BY DEF IInv, TypeOK, Handler, Throw, Holding
<1> DEFINE r == Left("failing", handlers[h].nth, 0)
<1>2. r \in Handler /\ r.at = "failing" /\ r.nth = handlers[h].nth
  BY <1>1, LeftForm DEF Places
<1>3. handlers' = [handlers EXCEPT ![h] = r]
  BY DEF Throw, Done, Left
<1> HIDE DEF r
<1>4. UNCHANGED <<truth, sessions, events, row, ledger, unpriced, overlaps>>
  BY DEF Throw, stripeVars
<1>5. faults' \in 0..MaxFaults /\ faults' # 0
  BY FaultForm DEF Throw
<1> QED
  BY <1>1, <1>2, <1>3, <1>4, <1>5, LeaveStep

LEMMA CrashStep ==
  ASSUME IInv, NEW h \in Handlers, Crash(h)
  PROVE  IInv'
<1>1. handlers' = [handlers EXCEPT ![h] = Idle]
  BY DEF Crash, Finish
<1>2. UNCHANGED <<truth, sessions, events, row, ledger, unpriced, overlaps>>
  BY DEF Crash, stripeVars
<1>3. faults' \in 0..MaxFaults /\ faults' # 0
  BY FaultForm DEF Crash
<1> QED
  BY <1>1, <1>2, <1>3, IdleForm, LeaveStep

(* The event of a busy handler, and what the invariant says of the two.    *)
LEMMA OursForm ==
  ASSUME IInv, NEW h \in Handlers, handlers[h].at # "idle"
  PROVE  /\ handlers[h] \in Handler
         /\ handlers[h].nth \in Nat
         /\ handlers[h].nth \in 1..Len(events)
         /\ Ours(h) = events[handlers[h].nth]
         /\ Ours(h) \in Event
         /\ HandlerSane(h)
         /\ EventSane(handlers[h].nth)
  BY DEF IInv, TypeOK, HandlersSane, HandlerSane, EventsSane, Ours

(* A handler acknowledges its event, which is claimed, and is done. *)
LEMMA AcknowledgeStep ==
  ASSUME IInv, NEW h \in Handlers, NEW n \in 1..Len(events),
         handlers[h].at # "idle", handlers[h].nth = n, events[n].claimed,
         NEW e \in Event, e.kind = events[n].kind, e.sub = events[n].sub,
         e.times = events[n].times, e.claimed, Set(n, e), Finish(h),
         ledger' \in Int,
         Quiet => ledger' =
           ledger + IF handlers[h].at = "written" THEN handlers[h].tells ELSE 0,
         UNCHANGED <<truth, sessions, row, unpriced, overlaps, faults>>
  PROVE  IInv'
<1>1. TypeOK /\ EventSane(n)
  BY DEF IInv, EventsSane
<1>2. /\ events' \in Seq(Event) /\ Len(events') = Len(events)
      /\ events'[n] = e
      /\ \A m \in 1..Len(events) : m # n => events'[m] = events[m]
  BY <1>1, SetForm DEF TypeOK
<1>3. /\ handlers' \in [Handlers -> Handler] /\ handlers'[h] = Idle
      /\ \A g \in Handlers : g # h => handlers'[g] = handlers[g]
  BY <1>1, IdleForm, HandlerForm DEF TypeOK, Finish
<1>4. \A m \in 1..Len(events) :
       /\ events'[m].kind = events[m].kind /\ events'[m].sub = events[m].sub
       /\ events'[m].times = events[m].times
       /\ events[m].claimed => events'[m].claimed
  BY <1>2
<1>5. TypeOK' /\ TruthSane'
  BY <1>1, <1>2, <1>3 DEF IInv, TypeOK, TruthSane
<1>6. EventsSane'
  BY <1>2, <1>4 DEF IInv, EventsSane, EventSane
<1>7. HandlersSane'
  <2> SUFFICES ASSUME NEW g \in Handlers, g # h PROVE HandlerSane(g)'
    BY <1>3, IdleForm DEF HandlersSane, HandlerSane, Holding
  <2>1. HandlerSane(g) /\ handlers'[g] = handlers[g]
    BY <1>3 DEF IInv, HandlersSane
  <2>2. overlaps = 0 => handlers[g].at = "idle"
    BY DEF IInv, OneAtATime
  <2> QED
    BY <2>1, <2>2, <1>2, <1>4 DEF HandlerSane, Ours, Holding
<1>8. SeenSane'
  <2> SUFFICES ASSUME NEW g \in Handlers, handlers'[g].at = "fetched"
               PROVE  /\ handlers'[g] = handlers[g]
                      /\ handlers[g].nth \in 1..Len(events)
    BY <1>4 DEF IInv, SeenSane, Ours
  <2> QED
    BY <1>3, IdleForm DEF IInv, HandlersSane, HandlerSane
<1>9. HoldersDiffer' /\ OneAtATime'
  BY <1>3, IdleForm DEF IInv, HoldersDiffer, OneAtATime, Holding
<1>10. QuietRow'
  BY <1>2, <1>4 DEF IInv, QuietRow, Quiet, Live, Announced
<1>11. Quiet => \A g \in Handlers : handlers'[g].at = "idle"
  BY <1>3, IdleForm DEF IInv, OneAtATime, Quiet
<1>12. QuietRead'
  BY <1>11 DEF QuietRead, Quiet
<1>13. QuietLedger'
  <2> SUFFICES ASSUME Quiet PROVE Fits(ledger', row, unpriced)
    BY <1>11 DEF QuietLedger, Quiet
  <2>1. CASE handlers[h].at = "written"
    BY <2>1 DEF IInv, QuietLedger
  <2>2. CASE handlers[h].at # "written"
    <3>1. \A g \in Handlers : handlers[g].at # "written"
      BY <2>2 DEF IInv, OneAtATime, Quiet
    <3>2. ledger' = ledger
      BY <1>1, <2>2 DEF TypeOK
    <3> QED
      BY <3>1, <3>2 DEF IInv, QuietLedger
  <2> QED
    BY <2>1, <2>2
<1> QED
  BY <1>5, <1>6, <1>7, <1>8, <1>9, <1>10, <1>12, <1>13 DEF IInv

(* The last statement of a handler in a behaviour that had a failure: it   *)
(* acknowledges what it processed, or releases what nobody acknowledged.   *)
LEMMA FaultySetStep ==
  ASSUME IInv, NEW h \in Handlers, NEW n \in 1..Len(events),
         handlers[h].at \in Holding, handlers[h].nth = n,
         NEW e \in Event, e.kind = events[n].kind, e.sub = events[n].sub,
         e.times = events[n].times, e.claimed \/ (overlaps = 0 => ~e.acked),
         Set(n, e), Finish(h), faults' \in 0..MaxFaults, faults' # 0,
         UNCHANGED <<truth, sessions, row, ledger, unpriced, overlaps>>
  PROVE  IInv'
<1>1. TypeOK
  BY DEF IInv
<1>2. /\ events' \in Seq(Event) /\ Len(events') = Len(events)
      /\ events'[n] = e
      /\ \A m \in 1..Len(events) : m # n => events'[m] = events[m]
  BY <1>1, SetForm DEF TypeOK
<1>3. /\ handlers' \in [Handlers -> Handler] /\ handlers'[h] = Idle
      /\ \A g \in Handlers : g # h => handlers'[g] = handlers[g]
  BY <1>1, IdleForm, HandlerForm DEF TypeOK, Finish
<1>4. TypeOK' /\ TruthSane'
  BY <1>1, <1>2, <1>3 DEF IInv, TypeOK, TruthSane
<1>5. EventsSane'
  BY <1>2 DEF IInv, EventsSane, EventSane
<1>6. HandlersSane'
  <2> SUFFICES ASSUME NEW g \in Handlers, g # h PROVE HandlerSane(g)'
    BY <1>3, IdleForm DEF HandlersSane, HandlerSane, Holding
  <2>1. HandlerSane(g) /\ handlers'[g] = handlers[g]
    BY <1>3 DEF IInv, HandlersSane
  <2>2. overlaps = 0 => handlers[g].at = "idle"
    BY DEF IInv, OneAtATime, Holding
  <2>3. handlers[g].at \in Holding => handlers[g].nth # n
    BY DEF IInv, HoldersDiffer
  <2>4. /\ handlers[g].at = "failing" => handlers[g].at \in Holding
        /\ handlers[g].at = "written" => handlers[g].at \in Holding
        /\ handlers[g].at \in Holding => handlers[g].at # "idle"
    BY DEF Holding
  <2> QED
    BY <2>1, <2>2, <2>3, <2>4, <1>2 DEF HandlerSane, Ours
<1>7. SeenSane'
  <2> SUFFICES ASSUME NEW g \in Handlers, handlers'[g].at = "fetched"
               PROVE  /\ handlers'[g] = handlers[g]
                      /\ handlers[g].nth \in 1..Len(events)
    BY <1>2 DEF IInv, SeenSane, Ours
  <2> QED
    BY <1>3, IdleForm DEF IInv, HandlersSane, HandlerSane
<1>8. HoldersDiffer' /\ OneAtATime'
  BY <1>3, IdleForm DEF IInv, HoldersDiffer, OneAtATime, Holding
<1>9. QuietRow' /\ QuietRead' /\ QuietLedger'
  BY DEF QuietRow, QuietRead, QuietLedger, Quiet
<1> QED
  BY <1>4, <1>5, <1>6, <1>7, <1>8, <1>9 DEF IInv

LEMMA ClaimStep ==
  ASSUME IInv, NEW h \in Handlers, Claim(h)
  PROVE  IInv'
<1> DEFINE n == handlers[h].nth
<1>1. TypeOK /\ handlers[h].at = "resolved"
  BY DEF IInv, Claim
<1>2. /\ handlers[h] \in Handler /\ n \in 1..Len(events)
      /\ Ours(h) = events[n] /\ events[n] \in Event
      /\ HandlerSane(h) /\ EventSane(n)
  BY <1>1, OursForm
<1>3. UNCHANGED <<truth, sessions, row, ledger, unpriced, overlaps, faults>>
  BY DEF Claim, stripeVars
<1>4. ASSUME ~Ours(h).claimed,
             Set(n, [Ours(h) EXCEPT !.claimed = TRUE]), Go(h, "claimed")
      PROVE  IInv'
  <2> DEFINE e == [Ours(h) EXCEPT !.claimed = TRUE]
             r == [handlers[h] EXCEPT !.at = "claimed"]
  <2>1. /\ e \in Event /\ e.kind = events[n].kind /\ e.sub = events[n].sub
        /\ e.times = events[n].times /\ e.acked = events[n].acked
        /\ e.claimed = TRUE
    BY <1>2 DEF Event
  <2>2. /\ r \in Handler /\ r.at = "claimed" /\ r.nth = n
        /\ r.read = handlers[h].read
    BY <1>2 DEF Handler, Places
  <2>3. Set(n, e)
    BY <1>4
  <2>4. handlers' = [handlers EXCEPT ![h] = r]
    BY <1>4 DEF Go
  <2> HIDE DEF n, e, r
  <2>5. /\ events' \in Seq(Event) /\ Len(events') = Len(events)
        /\ events'[n] = e
        /\ \A m \in 1..Len(events) : m # n => events'[m] = events[m]
    BY <1>1, <1>2, <2>1, <2>3, SetForm DEF TypeOK
  <2>6. /\ handlers' \in [Handlers -> Handler] /\ handlers'[h] = r
        /\ \A g \in Handlers : g # h => handlers'[g] = handlers[g]
    BY <1>1, <2>2, <2>4, HandlerForm DEF TypeOK
  <2>7. \A g \in Handlers :
         handlers[g].at \in Holding => g # h /\ handlers[g].nth # n
    BY <1>1, <1>2, <1>4 DEF IInv, HandlersSane, HandlerSane, Ours, Holding
  <2>8. \A m \in 1..Len(events) :
         /\ events'[m].kind = events[m].kind /\ events'[m].sub = events[m].sub
         /\ events'[m].times = events[m].times
         /\ events'[m].acked = events[m].acked
         /\ events[m].claimed => events'[m].claimed
    BY <2>1, <2>5
  <2>9. n = handlers[h].nth
    BY DEF n
  <2>10. TypeOK' /\ TruthSane'
    BY <1>1, <1>3, <2>5, <2>6 DEF IInv, TypeOK, TruthSane
  <2>11. EventsSane'
    BY <1>3, <2>5, <2>8 DEF IInv, EventsSane, EventSane
  <2>12. HandlersSane'
    <3> SUFFICES ASSUME NEW g \in Handlers PROVE HandlerSane(g)'
      BY DEF HandlersSane
    <3>1. CASE g = h
      <4>1. /\ Ours(g)' = e /\ handlers'[g].at = "claimed"
            /\ handlers'[g].nth \in 1..Len(events')
        BY <3>1, <1>2, <2>2, <2>5, <2>6 DEF Ours
      <4>2. faults = 0 => e.times = 0
        BY <1>2, <1>4, <2>1 DEF EventSane
      <4>3. overlaps = 0 => ~e.acked
        BY <1>1, <1>2, <2>1 DEF HandlerSane
      <4> QED
        BY <4>1, <4>2, <4>3, <1>3, <2>1 DEF HandlerSane, Holding
    <3>2. CASE g # h
      <4>1. HandlerSane(g) /\ handlers'[g] = handlers[g]
        BY <3>2, <2>6 DEF IInv, HandlersSane
      <4> QED
        BY <4>1, <1>3, <2>5, <2>8 DEF HandlerSane, Ours, Holding
    <3> QED
      BY <3>1, <3>2
  <2>13. SeenSane'
    <3> SUFFICES ASSUME NEW g \in Handlers, handlers'[g].at = "fetched"
                 PROVE  /\ g # h /\ handlers'[g] = handlers[g]
                        /\ handlers[g].nth \in 1..Len(events)
      BY <1>3, <2>8 DEF IInv, SeenSane, Ours
    <3> QED
      BY <2>2, <2>6 DEF IInv, HandlersSane, HandlerSane
  <2>14. HoldersDiffer' /\ OneAtATime'
    BY <1>1, <1>3, <2>2, <2>6, <2>7 DEF IInv, HoldersDiffer, OneAtATime
  <2>15. \A t \in Subs, m \in 1..Len(events) :
          Announced(t, m) => Announced(t, m)'
    BY <2>8 DEF Announced
  <2>16. QuietRow'
    BY <1>3, <2>5, <2>8 DEF IInv, QuietRow, Quiet, Live, Announced
  <2>17. QuietRead'
    <3> SUFFICES ASSUME Quiet, NEW g \in Handlers, handlers'[g].at # "idle"
                 PROVE  g = h
      BY <1>1, <1>3, <2>2, <2>6 DEF IInv, QuietRead, Quiet
    <3> QED
      BY <1>1, <2>6 DEF IInv, OneAtATime, Quiet
  <2>18. QuietLedger'
    BY <1>1, <1>3, <2>2, <2>6 DEF IInv, QuietLedger, Quiet
  <2> QED
    BY <2>10, <2>11, <2>12, <2>13, <2>14, <2>16, <2>17, <2>18 DEF IInv
<1>5. ASSUME Ours(h).claimed,
             Set(n, [Ours(h) EXCEPT !.acked = TRUE]), Finish(h)
      PROVE  IInv'
  <2> DEFINE e == [Ours(h) EXCEPT !.acked = TRUE]
  <2>1. /\ e \in Event /\ e.kind = events[n].kind /\ e.sub = events[n].sub
        /\ e.times = events[n].times /\ e.claimed
    BY <1>2, <1>5 DEF Event
  <2>2. Set(n, e) /\ handlers' = [handlers EXCEPT ![h] = Idle]
    BY <1>5 DEF Finish
  <2>3. Finish(h) /\ ledger' \in Int /\ ledger' = ledger + 0
    BY <1>1, <1>3, <1>5 DEF TypeOK
  <2> HIDE DEF e
  <2> QED
    BY <1>1, <1>2, <1>3, <1>5, <2>1, <2>2, <2>3, AcknowledgeStep
<1> QED
  BY <1>4, <1>5 DEF Claim

LEMMA FetchStep ==
  ASSUME IInv, NEW h \in Handlers, Fetch(h)
  PROVE  IInv'
<1> DEFINE n == handlers[h].nth
           r == [handlers[h] EXCEPT !.at = "fetched", !.seen = truth[Ours(h).sub]]
<1>1. /\ TypeOK /\ handlers[h].at = "claimed"
      /\ Ours(h).kind \in {"checkout", "subscription"}
  BY DEF IInv, Fetch
<1>2. /\ handlers[h] \in Handler /\ n \in 1..Len(events)
      /\ Ours(h) = events[n] /\ events[n] \in Event
      /\ HandlerSane(h) /\ EventSane(n)
  BY <1>1, OursForm
<1>3. UNCHANGED <<truth, sessions, events, row, ledger, unpriced, overlaps, faults>>
  BY DEF Fetch, stripeVars
<1>4. /\ Ours(h).sub \in Subs
      /\ truth[Ours(h).sub] \in Subscription
      /\ truth[Ours(h).sub].status # "none"
      /\ truth[Ours(h).sub].plan # "free"
  BY <1>1, <1>2 DEF IInv, TypeOK, TruthSane, EventSane, Event
<1>5. /\ r \in Handler /\ r.at = "fetched" /\ r.nth = n
      /\ r.read = handlers[h].read /\ r.seen = truth[Ours(h).sub]
  BY <1>2, <1>4 DEF Handler, Places
<1>6. handlers' = [handlers EXCEPT ![h] = r]
  BY <1>1 DEF Fetch, TypeOK
<1> HIDE DEF n, r
<1>7. /\ handlers' \in [Handlers -> Handler] /\ handlers'[h] = r
      /\ \A g \in Handlers : g # h => handlers'[g] = handlers[g]
  BY <1>1, <1>5, <1>6, HandlerForm DEF TypeOK
<1>8. n = handlers[h].nth
  BY DEF n
<1>9. TypeOK' /\ TruthSane' /\ EventsSane'
  BY <1>1, <1>3, <1>7 DEF IInv, TypeOK, TruthSane, EventsSane, EventSane
<1>10. HandlersSane'
  BY <1>1, <1>2, <1>3, <1>5, <1>7, <1>8 DEF IInv, HandlersSane, HandlerSane,
    Ours, Holding
<1>11. SeenSane'
  <2> SUFFICES ASSUME NEW g \in Handlers, handlers'[g].at = "fetched"
               PROVE  /\ Ours(g)'.kind \in {"checkout", "subscription"}
                      /\ handlers'[g].seen.status # "none"
                      /\ handlers'[g].seen.plan # "free"
                      /\ Ended(handlers'[g].seen.status) =>
                           truth'[Ours(g)'.sub].status = handlers'[g].seen.status
    BY DEF SeenSane
  <2>1. CASE g = h
    <3>1. Ours(g)' = Ours(h)
      BY <2>1, <1>2, <1>3, <1>5, <1>7 DEF Ours
    <3> QED
      BY <3>1, <2>1, <1>1, <1>3, <1>4, <1>5, <1>7
  <2>2. CASE g # h
    BY <2>2, <1>3, <1>7 DEF IInv, SeenSane, Ours
  <2> QED
    BY <2>1, <2>2
<1>12. HoldersDiffer' /\ OneAtATime'
  BY <1>1, <1>3, <1>5, <1>7, <1>8 DEF IInv, HoldersDiffer, OneAtATime, Holding
<1>13. QuietRow'
  BY <1>3 DEF IInv, QuietRow, Quiet, Live, Announced
<1>14. QuietRead'
  <2> SUFFICES ASSUME Quiet, NEW g \in Handlers, handlers'[g].at # "idle"
               PROVE  g = h /\ Ours(h)' = Ours(h)
    BY <1>1, <1>3, <1>5, <1>7 DEF IInv, QuietRead, Quiet
  <2>1. g = h
    BY <1>1, <1>7 DEF IInv, OneAtATime, Quiet
  <2> QED
    BY <2>1, <1>2, <1>3, <1>5, <1>7 DEF Ours
<1>15. QuietLedger'
  BY <1>1, <1>3, <1>5, <1>7 DEF IInv, QuietLedger, Quiet
<1> QED
  BY <1>9, <1>10, <1>11, <1>12, <1>13, <1>14, <1>15 DEF IInv

LEMMA AnswerStep ==
  ASSUME IInv, NEW h \in Handlers, Answer(h)
  PROVE  IInv'
<1> DEFINE n == handlers[h].nth
           e == [Ours(h) EXCEPT !.acked = TRUE]
<1>1. /\ TypeOK /\ handlers[h].at = "written"
  BY DEF IInv, Answer
<1>2. /\ handlers[h] \in Handler /\ n \in 1..Len(events)
      /\ Ours(h) = events[n] /\ events[n] \in Event
      /\ HandlerSane(h)
  BY <1>1, OursForm
<1>3. events[n].claimed
  BY <1>1, <1>2 DEF HandlerSane, Holding
<1>4. /\ e \in Event /\ e.kind = events[n].kind /\ e.sub = events[n].sub
      /\ e.times = events[n].times /\ e.claimed /\ e.acked = TRUE
  BY <1>2, <1>3 DEF Event
<1>5. Set(n, e) /\ Finish(h) /\ UNCHANGED <<truth, sessions, row, unpriced, overlaps>>
  BY DEF Answer, stripeVars
<1> HIDE DEF e
<1>6. CASE ledger' = ledger + handlers[h].tells /\ UNCHANGED faults
  <2>1. ledger' \in Int
    BY <1>1, <1>2, <1>6 DEF TypeOK, Handler
  <2> QED
    BY <1>1, <1>2, <1>3, <1>4, <1>5, <1>6, <2>1, AcknowledgeStep
<1>7. CASE Fault /\ UNCHANGED ledger
  <2>1. faults' \in 0..MaxFaults /\ faults' # 0
    BY <1>7, FaultForm
  <2>2. handlers[h].at \in Holding
    BY <1>1 DEF Holding
  <2> QED
    BY <1>2, <1>3, <1>4, <1>5, <1>7, <2>1, <2>2, FaultySetStep
<1> QED
  BY <1>6, <1>7 DEF Answer

LEMMA ReleaseStep ==
  ASSUME IInv, NEW h \in Handlers, Release(h)
  PROVE  IInv'
<1> DEFINE n == handlers[h].nth
           e == [Ours(h) EXCEPT !.claimed = FALSE]
<1>1. /\ TypeOK /\ handlers[h].at = "failing"
      /\ Finish(h) /\ UNCHANGED <<truth, sessions, row, ledger, unpriced, overlaps>>
  BY DEF IInv, Release, stripeVars
<1>2. /\ handlers[h] \in Handler /\ n \in 1..Len(events)
      /\ Ours(h) = events[n] /\ events[n] \in Event
      /\ HandlerSane(h) /\ EventSane(n)
  BY <1>1, OursForm
<1>3. CASE Set(n, e) /\ UNCHANGED faults
  <2>1. faults # 0 /\ faults' \in 0..MaxFaults
    BY <1>1, <1>2, <1>3 DEF HandlerSane, TypeOK
  <2>2. /\ e \in Event /\ e.kind = events[n].kind /\ e.sub = events[n].sub
        /\ e.times = events[n].times /\ e.acked = events[n].acked
    BY <1>2 DEF Event
  <2>3. overlaps = 0 => ~e.acked
    BY <1>1, <1>2, <2>2 DEF HandlerSane
  <2> HIDE DEF e
  <2> QED
    BY <1>1, <1>2, <1>3, <2>1, <2>2, <2>3, FaultySetStep DEF Holding
<1>4. CASE Fault /\ UNCHANGED events
  <2>1. faults' \in 0..MaxFaults /\ faults' # 0
    BY <1>4, FaultForm
  <2> QED
    BY <1>1, <1>4, <2>1, IdleForm, LeaveStep DEF Finish
<1> QED
  BY <1>3, <1>4 DEF Release

(* What a handler that is ready to write knows. *)
LEMMA ReadyForm ==
  ASSUME IInv, NEW h \in Handlers, Ready(h)
  PROVE  /\ handlers[h].at \in {"claimed", "fetched"}
         /\ handlers[h].at \in Holding
         /\ Ours(h).kind \notin {"paid", "failed"} =>
              /\ handlers[h].at = "fetched"
              /\ handlers[h].seen.status \in Statuses \ {"none"}
              /\ handlers[h].seen.plan \in Prices
<1>1. handlers[h].at \in {"claimed", "fetched"}
  BY DEF Ready
<1>2. handlers[h] \in Handler
  BY <1>1, OursForm
<1>3. /\ handlers[h].seen.status \in Statuses
      /\ handlers[h].seen.plan \in Plans \cup {Unmapped}
  BY <1>2 DEF Handler, Subscription
<1>4. Ours(h).kind \notin {"paid", "failed"} => handlers[h].at = "fetched"
  BY DEF Ready
<1> QED
  BY <1>1, <1>3, <1>4 DEF IInv, SeenSane, Plans, Prices, Holding

LEMMA SyncedForm ==
  ASSUME NEW r \in Row, NEW read \in Row, NEW sub \in Subs,
         NEW seen \in Subscription, seen.status # "none"
  PROVE  /\ Synced(r, read, sub, seen) \in Row
         /\ Synced(r, read, sub, seen).plan =
              IF Ended(seen.status) THEN "free"
              ELSE IF seen.plan = Unmapped THEN read.plan ELSE seen.plan
         /\ Synced(r, read, sub, seen).sub =
              IF Ended(seen.status) THEN NoSub ELSE sub
         /\ r = read /\ r.seeds \in {r.plan, "none"} =>
              Synced(r, read, sub, seen).seeds \in
                {Synced(r, read, sub, seen).plan, "none"}
<1> DEFINE ended == StatusOf(seen.status) = "canceled"
           plan == PlanOf(read, seen)
           seeds == IF Resets(read, sub, plan, ended) THEN plan ELSE r.seeds
<1>1. /\ ended <=> Ended(seen.status)
      /\ StatusOf(seen.status) \in {"active", "past_due", "canceled"}
  BY DEF StatusOf, Ended, Subscription, Statuses
<1>2. /\ plan \in Plans
      /\ plan = IF Ended(seen.status) THEN "free"
                ELSE IF seen.plan = Unmapped THEN read.plan ELSE seen.plan
  BY <1>1 DEF PlanOf, Plans, Subscription, Row
<1>3. seeds \in Plans \cup {"none"}
  BY <1>2 DEF Row
<1>4. r = read /\ r.seeds \in {r.plan, "none"} => seeds \in {plan, "none"}
  BY DEF Resets
<1>5. Synced(r, read, sub, seen) =
        [plan |-> plan, status |-> StatusOf(seen.status),
         sub |-> IF ended THEN NoSub ELSE sub, seeds |-> seeds]
  BY DEF Synced
<1> HIDE DEF ended, plan, seeds
<1> QED
  BY <1>1, <1>2, <1>3, <1>4, <1>5 DEF Row

LEMMA WrittenForm ==
  ASSUME IInv, NEW h \in Handlers, Ready(h)
  PROVE  Written(h) \in Row /\ Told(h) \in {-1, 0, 1}
<1>1. /\ handlers[h] \in Handler /\ Ours(h) \in Event /\ row \in Row
  BY ReadyForm, OursForm DEF IInv, TypeOK, Holding
<1>2. handlers[h].read \in Row /\ handlers[h].seen \in Subscription
      /\ Ours(h).sub \in Subs
  BY <1>1 DEF Handler, Event
<1>3. Told(h) \in {-1, 0, 1}
  BY DEF Told, Tells
<1>4. CASE Ours(h).kind = "paid"
  <2>1. Written(h) = [row EXCEPT !.seeds = handlers[h].read.plan, !.status = "active"]
    BY <1>4 DEF Written
  <2>2. handlers[h].read.plan \in Plans
    BY <1>2 DEF Row
  <2> QED
    BY <1>1, <1>3, <2>1, <2>2 DEF Row
<1>5. CASE Ours(h).kind = "failed"
  <2>1. Written(h) = [row EXCEPT !.status = "past_due"]
    BY <1>5 DEF Written
  <2> QED
    BY <1>1, <1>3, <2>1 DEF Row
<1>6. CASE Ours(h).kind \notin {"paid", "failed"} /\ Skips(h)
  BY <1>1, <1>3, <1>6 DEF Written
<1>7. CASE Ours(h).kind \notin {"paid", "failed"} /\ ~Skips(h)
  <2>1. Written(h) =
          Synced(row, handlers[h].read, Ours(h).sub, handlers[h].seen)
    BY <1>7 DEF Written
  <2>2. handlers[h].seen.status # "none"
    BY <1>7, ReadyForm
  <2> QED
    BY <1>1, <1>2, <1>3, <2>1, <2>2, SyncedForm
<1> QED
  BY <1>4, <1>5, <1>6, <1>7

(* Without overlap or failure the row that is written tells what Stripe    *)
(* has, unless another event will tell it, and the Ledger is told the      *)
(* difference.                                                             *)
Counted(h) == IF Unpriced(h) THEN unpriced + 1 ELSE unpriced
LEMMA WrittenTracks ==
  ASSUME IInv, NEW h \in Handlers, Ready(h), Quiet
  PROVE  /\ Written(h).seeds \in {Written(h).plan, "none"}
         /\ Written(h).sub = NoSub => Written(h).plan = "free"
         /\ Written(h).sub # NoSub =>
              \/ /\ Live(Written(h).sub)
                 /\ truth[Written(h).sub].plan \in {Unmapped, Written(h).plan}
              \/ \E n \in 1..Len(events) :
                   n # handlers[h].nth /\ Announced(Written(h).sub, n)
         /\ Fits(ledger + Told(h), Written(h), Counted(h))
<1> USE BillingAssumption
<1>1. /\ handlers[h] \in Handler /\ Ours(h) \in Event /\ row \in Row
      /\ Ours(h) = events[handlers[h].nth]
      /\ ledger \in Int /\ unpriced \in Nat
      /\ handlers[h].nth \in 1..Len(events)
  BY ReadyForm, OursForm DEF IInv, TypeOK, Holding
<1>2. /\ handlers[h].read \in Row /\ handlers[h].seen \in Subscription
      /\ Ours(h).sub \in Subs /\ Ours(h).kind \in Kinds
  BY <1>1 DEF Handler, Event
<1>3. handlers[h].read = row
  BY ReadyForm DEF IInv, QuietRead
<1>4. /\ row.seeds \in {row.plan, "none"}
      /\ row.sub = NoSub => row.plan = "free"
      /\ row.sub # NoSub =>
           \/ Live(row.sub) /\ truth[row.sub].plan \in {Unmapped, row.plan}
           \/ \E n \in 1..Len(events) : Announced(row.sub, n)
  BY DEF IInv, QuietRow
<1>5. Fits(ledger, row, unpriced)
  <2>1. \A g \in Handlers : handlers[g].at # "written"
    BY ReadyForm DEF IInv, OneAtATime, Quiet
  <2> QED
    BY <2>1 DEF IInv, QuietLedger
<1>6. ASSUME Written(h).plan = row.plan, Written(h).sub = row.sub,
             Written(h).seeds \in {row.plan, row.seeds}, Told(h) = 0,
             ~Unpriced(h),
             ~Announced(row.sub, handlers[h].nth)
      PROVE  /\ Written(h).seeds \in {Written(h).plan, "none"}
             /\ Written(h).sub = NoSub => Written(h).plan = "free"
             /\ Written(h).sub # NoSub =>
                  \/ /\ Live(Written(h).sub)
                     /\ truth[Written(h).sub].plan \in {Unmapped, Written(h).plan}
                  \/ \E n \in 1..Len(events) :
                       n # handlers[h].nth /\ Announced(Written(h).sub, n)
             /\ Fits(ledger + Told(h), Written(h), Counted(h))
  <2>1. ledger + Told(h) = ledger
    BY <1>1, <1>6
  <2> QED
    BY <1>4, <1>5, <1>6, <2>1 DEF Fits, Owed, Odd, Counted
<1>7. CASE Ours(h).kind = "paid"
  <2>1. Written(h) = [row EXCEPT !.seeds = row.plan, !.status = "active"]
    BY <1>3, <1>7 DEF Written
  <2>2. /\ Written(h).plan = row.plan /\ Written(h).sub = row.sub
        /\ Written(h).seeds = row.plan
    BY <1>1, <2>1 DEF Row
  <2>3. Told(h) = 0 /\ ~Unpriced(h) /\ ~Announced(row.sub, handlers[h].nth)
    BY <1>1, <1>7 DEF Told, Unpriced, Announced
  <2> QED
    BY <1>6, <2>2, <2>3
<1>8. CASE Ours(h).kind = "failed"
  <2>1. Written(h) = [row EXCEPT !.status = "past_due"]
    BY <1>8 DEF Written
  <2>2. /\ Written(h).plan = row.plan /\ Written(h).sub = row.sub
        /\ Written(h).seeds = row.seeds
    BY <1>1, <2>1 DEF Row
  <2>3. Told(h) = 0 /\ ~Unpriced(h) /\ ~Announced(row.sub, handlers[h].nth)
    BY <1>1, <1>8 DEF Told, Unpriced, Announced
  <2> QED
    BY <1>6, <2>2, <2>3
<1>9. CASE Ours(h).kind \notin {"paid", "failed"} /\ Skips(h)
  <2>1. Written(h) = row /\ Told(h) = 0 /\ ~Unpriced(h)
    BY <1>9 DEF Written, Told, Unpriced
  <2>2. ~Announced(row.sub, handlers[h].nth)
    BY <1>1, <1>3, <1>9 DEF Skips, OldTail, Announced
  <2> QED
    BY <1>6, <2>1, <2>2
<1>10. CASE Ours(h).kind \notin {"paid", "failed"} /\ ~Skips(h)
  <2> DEFINE seen == handlers[h].seen
             sub == Ours(h).sub
  <2>1. /\ handlers[h].at = "fetched" /\ seen.status \in Statuses \ {"none"}
        /\ seen.plan \in Prices
    BY <1>10, ReadyForm
  <2>2. /\ Written(h) = Synced(row, row, sub, seen)
        /\ Told(h) = Tells(row, sub, seen)
    BY <1>3, <1>10 DEF Written, Told
  <2>3. /\ Written(h).plan =
              IF Ended(seen.status) THEN "free"
              ELSE IF seen.plan = Unmapped THEN row.plan ELSE seen.plan
        /\ Written(h).sub = IF Ended(seen.status) THEN NoSub ELSE sub
        /\ Written(h).seeds \in {Written(h).plan, "none"}
    <3>1. row \in Row /\ sub \in Subs /\ seen \in Subscription
          /\ seen.status # "none" /\ row.seeds \in {row.plan, "none"}
      BY <1>1, <1>2, <1>4, <2>1
    <3> HIDE DEF seen, sub
    <3> QED
      BY <2>2, <3>1, SyncedForm
  <2>4. StatusOf(seen.status) = "canceled" <=> Ended(seen.status)
    BY <2>1 DEF StatusOf, Ended
  <2>5. Counted(h) = unpriced + Odd(Written(h))
    <3>1. Ours(h).kind \in {"checkout", "subscription"}
      BY <1>1, <1>2, <1>10 DEF Kinds
    <3>2. Unpriced(h) <=> Written(h).plan = "free" /\ Written(h).sub # NoSub
      BY <1>10, <3>1 DEF Unpriced
    <3> QED
      BY <1>1, <3>2 DEF Counted, Odd
  <2>6. CASE Ended(seen.status)
    <3>1. Told(h) = IF row.sub = NoSub THEN 0 ELSE -1
      BY <1>4, <2>2, <2>4, <2>6 DEF Tells
    <3>2. Fits(ledger + Told(h), Written(h), Counted(h))
      BY <1>1, <1>5, <2>3, <2>5, <2>6, <3>1 DEF Fits, Owed, Odd
    <3> QED
      BY <2>3, <2>6, <3>2
  <2>7. CASE ~Ended(seen.status)
    <3>1. Told(h) = IF row.sub = NoSub \/ row.plan = "free" THEN 1 ELSE 0
      BY <1>4, <2>2, <2>4, <2>7 DEF Tells
    <3>2. Written(h).sub = sub /\ sub # NoSub
      BY <1>2, <2>3, <2>7
    <3>3. Fits(ledger + Told(h), Written(h), Counted(h))
      <4>1. Owed(Written(h)) = 1 /\ Odd(Written(h)) \in {0, 1}
        BY <3>2 DEF Owed, Odd
      <4> QED
        BY <1>1, <1>4, <1>5, <2>5, <3>1, <4>1 DEF Fits, Owed, Odd
    <3>4. \/ seen = truth[sub]
          \/ \E n \in 1..Len(events) :
               n # handlers[h].nth /\ Announced(sub, n)
      BY <2>1 DEF IInv, QuietRead
    <3>5. seen = truth[sub] => Live(sub)
      BY <2>1, <2>7 DEF Live, Ended, Statuses
    <3>6. seen.plan \in {Unmapped, Written(h).plan}
      BY <2>3, <2>7
    <3> QED
      BY <2>3, <3>2, <3>3, <3>4, <3>5, <3>6
  <2> QED
    BY <2>6, <2>7
<1> QED
  BY <1>2, <1>7, <1>8, <1>9, <1>10

LEMMA WriteStep ==
  ASSUME IInv, NEW h \in Handlers, Write(h)
  PROVE  IInv'
<1> DEFINE n == handlers[h].nth
           e == [Ours(h) EXCEPT !.times = @ + 1]
<1>1. /\ TypeOK /\ Ready(h) /\ Apply(h)
      /\ UNCHANGED <<truth, sessions, ledger, overlaps>>
  BY DEF IInv, Write, stripeVars
<1>2. /\ handlers[h].at \in {"claimed", "fetched"}
      /\ handlers[h].at \in Holding /\ handlers[h].at # "idle"
  BY <1>1, ReadyForm
<1>3. /\ handlers[h] \in Handler /\ n \in 1..Len(events) /\ n \in Nat
      /\ Ours(h) = events[n] /\ events[n] \in Event
      /\ HandlerSane(h) /\ EventSane(n)
  BY <1>2, OursForm
<1>4. events[n].times \in Nat
  BY <1>3 DEF Event
<1>5. /\ e \in Event /\ e.kind = events[n].kind /\ e.sub = events[n].sub
      /\ e.times = events[n].times + 1 /\ e.times # 0
      /\ e.acked = events[n].acked /\ e.claimed
  BY <1>2, <1>3, <1>4 DEF Event, HandlerSane
<1>6. /\ row' = Written(h) /\ row' \in Row /\ Told(h) \in {-1, 0, 1} /\ Set(n, e)
      /\ unpriced' = Counted(h) /\ unpriced' \in Nat
  BY <1>1, WrittenForm DEF Apply, Counted, TypeOK
<1> HIDE DEF e
<1>7. \E r \in Handler :
       /\ handlers' = [handlers EXCEPT ![h] = r]
       /\ r.nth = n
       /\ \/ r.at = "written" /\ r.tells = Told(h) /\ faults' = faults
          \/ r.at = "failing" /\ faults' # 0
       /\ faults' \in 0..MaxFaults
  <2>1. CASE Done(h, "written", Told(h)) /\ UNCHANGED faults
    <3>1. handlers' = [handlers EXCEPT ![h] = Left("written", n, Told(h))]
      BY <2>1 DEF Done, Left
    <3>2. "written" \in Places /\ faults \in 0..MaxFaults
      BY <1>1 DEF Places, TypeOK
    <3>3. /\ Left("written", n, Told(h)) \in Handler
          /\ Left("written", n, Told(h)).nth = n
          /\ Left("written", n, Told(h)).at = "written"
          /\ Left("written", n, Told(h)).tells = Told(h)
      BY <3>2, <1>3, <1>6, LeftForm
    <3> HIDE DEF n
    <3> QED
      BY <2>1, <3>1, <3>2, <3>3
  <2>2. CASE Fault /\ Done(h, "failing", 0)
    <3>1. handlers' = [handlers EXCEPT ![h] = Left("failing", n, 0)]
      BY <2>2 DEF Done, Left
    <3>2. "failing" \in Places /\ 0 \in {-1, 0, 1}
      BY DEF Places
    <3>3. /\ Left("failing", n, 0) \in Handler
          /\ Left("failing", n, 0).nth = n /\ Left("failing", n, 0).at = "failing"
      BY <3>2, <1>3, LeftForm
    <3>4. faults' \in 0..MaxFaults /\ faults' # 0
      BY <2>2, FaultForm
    <3> HIDE DEF n
    <3> QED
      BY <3>1, <3>3, <3>4
  <2> QED
    BY <2>1, <2>2 DEF Write
<1>8. PICK r \in Handler :
       /\ handlers' = [handlers EXCEPT ![h] = r]
       /\ r.nth = n
       /\ \/ r.at = "written" /\ r.tells = Told(h) /\ faults' = faults
          \/ r.at = "failing" /\ faults' # 0
       /\ faults' \in 0..MaxFaults
  BY <1>7
<1>9. /\ events' \in Seq(Event) /\ Len(events') = Len(events)
      /\ events'[n] = e
      /\ \A m \in 1..Len(events) : m # n => events'[m] = events[m]
  BY <1>1, <1>3, <1>5, <1>6, SetForm DEF TypeOK
<1>10. /\ handlers' \in [Handlers -> Handler] /\ handlers'[h] = r
       /\ \A g \in Handlers : g # h => handlers'[g] = handlers[g]
  BY <1>1, <1>8, HandlerForm DEF TypeOK
<1>11. faults' = 0 => faults = 0 /\ r.at = "written" /\ r.tells = Told(h)
  BY <1>8
<1>12. TypeOK' /\ TruthSane'
  BY <1>1, <1>6, <1>8, <1>9, <1>10 DEF IInv, TypeOK, TruthSane
<1>13. EventsSane'
  <2> SUFFICES ASSUME NEW m \in 1..Len(events) PROVE EventSane(m)'
    BY <1>9 DEF EventsSane
  <2>1. CASE m = n
    <3>1. faults = 0 => e.times = 1
      BY <1>2, <1>3, <1>5 DEF HandlerSane
    <3> QED
      BY <2>1, <3>1, <1>1, <1>3, <1>5, <1>9, <1>11 DEF EventSane
  <2>2. CASE m # n
    <3>1. EventSane(m) /\ events'[m] = events[m]
      BY <2>2, <1>9 DEF IInv, EventsSane
    <3> QED
      BY <3>1, <1>1, <1>11 DEF EventSane
  <2> QED
    BY <2>1, <2>2
<1>14. HandlersSane'
  <2> SUFFICES ASSUME NEW g \in Handlers PROVE HandlerSane(g)'
    BY DEF HandlersSane
  <2>1. CASE g = h
    <3>1. Ours(g)' = e /\ handlers'[g] = r /\ r.nth \in 1..Len(events')
      BY <2>1, <1>3, <1>8, <1>9, <1>10 DEF Ours
    <3>2. overlaps = 0 => ~e.acked
      BY <1>2, <1>3, <1>5 DEF HandlerSane
    <3>3. /\ r.at \in {"written", "failing"}
          /\ r.at = "failing" => faults' # 0
      BY <1>8
    <3> QED
      BY <3>1, <3>2, <3>3, <1>1, <1>5 DEF HandlerSane
  <2>2. CASE g # h
    <3>1. HandlerSane(g) /\ handlers'[g] = handlers[g]
      BY <2>2, <1>10 DEF IInv, HandlersSane
    <3>2. handlers[g].at \in Holding => handlers[g].nth # n
      BY <2>2, <1>2 DEF IInv, HoldersDiffer
    <3>3. handlers[g].at # "idle" => overlaps # 0
      BY <2>2, <1>2 DEF IInv, OneAtATime
    <3> QED
      BY <3>1, <3>2, <3>3, <1>1, <1>9, <1>11 DEF HandlerSane, Ours, Holding
  <2> QED
    BY <2>1, <2>2
<1>15. SeenSane'
  <2> SUFFICES ASSUME NEW g \in Handlers, handlers'[g].at = "fetched"
               PROVE  /\ handlers'[g] = handlers[g] /\ handlers[g].nth # n
                      /\ handlers[g].nth \in 1..Len(events)
    BY <1>1, <1>9 DEF IInv, SeenSane, Ours
  <2>1. g # h /\ handlers'[g] = handlers[g]
    BY <1>8, <1>10
  <2> QED
    BY <2>1, <1>2 DEF IInv, HoldersDiffer, HandlersSane, HandlerSane, Holding
<1>16. HoldersDiffer' /\ OneAtATime'
  BY <1>1, <1>2, <1>8, <1>10 DEF IInv, HoldersDiffer, OneAtATime
<1>17. Quiet' => Quiet /\ r.at = "written" /\ r.tells = Told(h)
  BY <1>1, <1>11 DEF Quiet
<1>18. QuietRow'
  <2> SUFFICES ASSUME Quiet PROVE QuietRow'
    BY <1>17 DEF QuietRow
  <2>1. \A t, m : m \in 1..Len(events) /\ m # n /\ Announced(t, m) =>
                  events'[m].kind = "subscription" /\ events'[m].sub = t
                  /\ events'[m].times = 0
    BY <1>9 DEF Announced
  <2>2. row'.sub # NoSub =>
          \/ Live(row'.sub) /\ truth[row'.sub].plan \in {Unmapped, row'.plan}
          \/ \E m \in 1..Len(events') :
               /\ events'[m].kind = "subscription" /\ events'[m].sub = row'.sub
               /\ events'[m].times = 0
    BY <2>1, <1>1, <1>6, <1>9, WrittenTracks
  <2>3. /\ row'.seeds \in {row'.plan, "none"}
        /\ row'.sub = NoSub => row'.plan = "free"
    BY <1>1, <1>6, WrittenTracks
  <2> QED
    BY <2>2, <2>3, <1>1 DEF QuietRow, Live, Announced
<1>19. Quiet => \A g \in Handlers : g # h => handlers'[g].at = "idle"
  BY <1>2, <1>10 DEF IInv, OneAtATime, Quiet
<1>20. QuietRead'
  <2> SUFFICES ASSUME Quiet, r.at = "written", NEW g \in Handlers
               PROVE  handlers'[g].at \notin {"resolved", "claimed", "fetched"}
    BY <1>17 DEF QuietRead
  <2> QED
    BY <1>10, <1>19
<1>21. QuietLedger'
  <2> SUFFICES ASSUME Quiet, r.at = "written", r.tells = Told(h)
               PROVE  QuietLedger'
    BY <1>17 DEF QuietLedger
  <2>1. Fits(ledger + Told(h), row', unpriced')
    BY <1>1, <1>6, WrittenTracks
  <2> QED
    BY <2>1, <1>1, <1>10, <1>19 DEF QuietLedger
<1> QED
  BY <1>12, <1>13, <1>14, <1>15, <1>16, <1>18, <1>20, <1>21 DEF IInv

----------------------------------------------------------------------------
(* The invariant, and what it implies *)

THEOREM NextIInv == IInv /\ [Next]_vars => IInv'
<1> SUFFICES ASSUME IInv, [Next]_vars PROVE IInv'
  OBVIOUS
<1>1. CASE UNCHANGED vars
  <2>1. UNCHANGED <<truth, sessions, events, row, ledger, handlers, unpriced,
                    overlaps, faults>>
    BY <1>1 DEF vars
  <2> QED
    BY <2>1 DEF IInv, TypeOK, TruthSane, EventsSane, EventSane, HandlersSane,
      HandlerSane, SeenSane, HoldersDiffer, OneAtATime, QuietRow, QuietRead,
      QuietLedger, Quiet, Live, Announced, Ours
<1>2. ASSUME NEW s \in Subs,
             \/ OpenCheckout(s) \/ Renew(s) \/ Dun(s) \/ EndSub(s)
             \/ \E plan \in Prices : Complete(s, plan) \/ ChangePlan(s, plan)
      PROVE  IInv'
  BY <1>2, StripeStep
<1>3. ASSUME NEW h \in Handlers, Handle(h) \/ Throw(h) \/ Crash(h)
      PROVE  IInv'
  BY <1>3, ClaimStep, FetchStep, WriteStep, AnswerStep, ReleaseStep, ThrowStep,
    CrashStep DEF Handle
<1>4. ASSUME NEW h \in Handlers, NEW n \in 1..Len(events), Receive(h, n)
      PROVE  IInv'
  BY <1>4, ReceiveStep
<1> QED
  BY <1>1, <1>2, <1>3, <1>4 DEF Next

THEOREM AlwaysIInv == Spec => []IInv
<1>1. Init => IInv
  BY InitIInv
<1>2. IInv /\ [Next]_vars => IInv'
  BY NextIInv
<1> QED
  BY <1>1, <1>2, PTL DEF Spec

(* Every reachable state is well typed; no Stripe status but the four that *)
(* planStatusFromStripe gives reaches the row.                             *)
THEOREM BillingTypeCorrect == Spec => []TypeOK
<1>1. IInv => TypeOK
  BY DEF IInv
<1> QED
  BY <1>1, AlwaysIInv, PTL

(* Without a failure no event is processed twice, however many deliveries  *)
(* overlap; and no event is acknowledged unprocessed with its claim        *)
(* released, unless deliveries overlapped.                                 *)
THEOREM EventsProcessedOnce == Spec => []ExactlyOnce
<1>1. IInv => ExactlyOnce
  BY DEF IInv, EventsSane, EventSane, ExactlyOnce
<1> QED
  BY <1>1, AlwaysIInv, PTL

(* Without overlap or failure the row has Stripe's plan as soon as the     *)
(* events of its subscription were processed, in whatever order.           *)
THEOREM RowFollowsStripe == Spec => []RowTracksStripe
<1>1. IInv => RowTracksStripe
  <2> SUFFICES ASSUME IInv, Quiet
               PROVE  /\ row.seeds \in {row.plan, "none"}
                      /\ row.sub = NoSub => row.plan = "free"
                      /\ /\ row.sub # NoSub
                         /\ \A n \in 1..Len(events) :
                              /\ events[n].kind = "subscription"
                              /\ events[n].sub = row.sub
                              => events[n].times > 0
                         => /\ Live(row.sub)
                            /\ truth[row.sub].plan \in {Unmapped, row.plan}
    BY DEF RowTracksStripe
  <2>1. /\ row.seeds \in {row.plan, "none"}
        /\ row.sub = NoSub => row.plan = "free"
        /\ row.sub # NoSub =>
             \/ Live(row.sub) /\ truth[row.sub].plan \in {Unmapped, row.plan}
             \/ \E n \in 1..Len(events) : Announced(row.sub, n)
    BY DEF IInv, QuietRow
  <2> QED
    BY <2>1 DEF Announced
<1> QED
  BY <1>1, AlwaysIInv, PTL

(* Without overlap or failure, and between deliveries, the starts less the *)
(* cancellations the Ledger tells are what the row has, or more by no more *)
(* than the writes that left a live subscription on a free row.            *)
THEOREM LedgerFollowsRow == Spec => []LedgerTellsTransitions
<1>1. IInv => LedgerTellsTransitions
  BY DEF IInv, TypeOK, QuietLedger, LedgerTellsTransitions, Fits, Owed, Odd
<1> QED
  BY <1>1, AlwaysIInv, PTL

(* Without overlap or failure a live subscription leaves the row only      *)
(* through the two holes the code leaves.                                  *)
THEOREM LiveSubscriptionStays == Spec => LiveStaysInRow
<1>1. IInv /\ [Next]_vars =>
        [Quiet /\ row.sub # NoSub /\ row'.sub = NoSub
           => ~Live(row.sub) \/ Holes(row.sub)]_vars
  <2> SUFFICES ASSUME IInv, Next, Quiet, row.sub # NoSub, row'.sub = NoSub
               PROVE  ~Live(row.sub) \/ Holes(row.sub)
    OBVIOUS
  <2>1. row' # row
    OBVIOUS
  <2>2. PICK h \in Handlers : Write(h)
    BY <2>1 DEF Next, OpenCheckout, Renew, Dun, EndSub, Complete, ChangePlan,
      Becomes, Handle, Claim, Fetch, Answer, Release, Throw, Crash, Receive,
      stripeVars
  <2> DEFINE seen == handlers[h].seen
             sub == Ours(h).sub
  <2>3. Ready(h) /\ row' = Written(h)
    BY <2>2 DEF Write, Apply
  <2>4. /\ handlers[h] \in Handler /\ Ours(h) \in Event /\ row \in Row
        /\ Ours(h) = events[handlers[h].nth] /\ HandlerSane(h)
        /\ handlers[h].nth \in 1..Len(events) /\ handlers[h].read = row
    BY <2>3, ReadyForm, OursForm DEF IInv, TypeOK, Holding, QuietRead
  <2>5. Ours(h).kind \notin {"paid", "failed"} /\ ~Skips(h)
    <3>1. row.sub = [row EXCEPT !.seeds = handlers[h].read.plan,
                                !.status = "active"].sub
      BY <2>4 DEF Row
    <3>2. row.sub = [row EXCEPT !.status = "past_due"].sub
      BY <2>4 DEF Row
    <3> QED
      BY <2>3, <3>1, <3>2 DEF Written
  <2>6. /\ handlers[h].at = "fetched" /\ seen.status # "none"
        /\ seen \in Subscription /\ sub \in Subs
        /\ Ours(h).kind \in {"checkout", "subscription"}
    BY <2>3, <2>4, <2>5, ReadyForm DEF Handler, Event, IInv, SeenSane
  <2>7. Ended(seen.status)
    <3>1. row' = Synced(row, row, sub, seen)
      BY <2>3, <2>4, <2>5 DEF Written
    <3>2. sub # NoSub
      BY <2>6, BillingAssumption
    <3> QED
      BY <2>4, <2>6, <3>1, <3>2, SyncedForm
  <2>8. truth[sub].status = seen.status
    BY <2>6, <2>7 DEF IInv, SeenSane
  <2>9. CASE sub = row.sub
    BY <2>7, <2>8, <2>9 DEF Live, Ended
  <2>10. CASE sub # row.sub
    <3>1. CASE seen.status = "paused"
      BY <2>6, <2>8, <2>10, <3>1 DEF Holes
    <3>2. CASE seen.status = "canceled"
      <4>1. Ours(h).kind = "checkout"
        BY <2>4, <2>5, <2>6, <2>10, <3>2 DEF Skips, OldTail
      <4>2. Ours(h).times = 0
        BY <2>4, <2>6 DEF HandlerSane, Quiet
      <4> QED
        BY <2>4, <2>6, <2>8, <2>10, <3>2, <4>1, <4>2 DEF Holes
    <3> QED
      BY <2>7, <3>1, <3>2 DEF Ended
  <2> QED
    BY <2>9, <2>10
<1> QED
  BY <1>1, AlwaysIInv, PTL DEF Spec, LiveStaysInRow

----------------------------------------------------------------------------
(* What failures cost *)

(* A handler whose end will leave event n as it finds it, or processed     *)
(* once more.                                                              *)
Retrying(n) ==
  \E h \in Handlers : /\ handlers[h].nth = n
                      /\ handlers[h].at \in {"claimed", "fetched", "failing"}

(* Astray is not inductive: an event goes astray long after the failure    *)
(* that is to blame.  A failure spoils one event: one that was not         *)
(* processed and keeps a claim or an acknowledgement with nobody at it, or *)
(* one that was processed and can be claimed again.                        *)
Spoils(n) ==
  \/ events[n].times > 1
  \/ events[n].times = 1 /\ (~events[n].claimed \/ Retrying(n))
  \/ /\ events[n].times = 0
     /\ events[n].acked \/ events[n].claimed
     /\ ~InProcess(n)
Spoiled == {n \in 1..Len(events) : Spoils(n)}
SpoiledOnlyByFault == Cardinality(Spoiled) <= faults

LEMMA EventsCounted ==
  ASSUME IInv, NEW S \in SUBSET (1..Len(events)), NEW T \in SUBSET S
  PROVE  /\ IsFiniteSet(S) /\ IsFiniteSet(T)
         /\ Cardinality(S) \in Nat /\ Cardinality(T) \in Nat
         /\ Cardinality(T) <= Cardinality(S)
<1>1. Len(events) \in Nat
  BY LenProperties DEF IInv, TypeOK
<1>2. IsFiniteSet(1..Len(events))
  BY <1>1, FS_Interval
<1>3. IsFiniteSet(S)
  BY <1>2, FS_Subset
<1> QED
  BY <1>3, FS_Subset, FS_CardinalityType

(* A step of a handler concerns its own event only.                        *)
LEMMA OthersUnspoiled ==
  ASSUME IInv, NEW h \in Handlers, NEW m \in 1..Len(events),
         handlers[h].nth = m,
         NEW r \in Handler, handlers' = [handlers EXCEPT ![h] = r],
         r.nth = m \/ r.at = "idle",
         Len(events') = Len(events),
         \A n \in 1..Len(events) : n # m => events'[n] = events[n]
  PROVE  /\ Spoiled' \subseteq Spoiled \cup {m}
         /\ (Spoils(m)' => Spoils(m)) => Spoiled' \subseteq Spoiled
         /\ InProcess(m)' <=>
              \/ r.nth = m /\ r.at \in {"claimed", "fetched"}
              \/ \E g \in Handlers \ {h} :
                   handlers[g].nth = m /\ handlers[g].at \in {"claimed", "fetched"}
         /\ Retrying(m)' <=>
              \/ r.nth = m /\ r.at \in {"claimed", "fetched", "failing"}
              \/ \E g \in Handlers \ {h} :
                   /\ handlers[g].nth = m
                   /\ handlers[g].at \in {"claimed", "fetched", "failing"}
<1>1. /\ handlers' \in [Handlers -> Handler] /\ handlers'[h] = r
      /\ \A g \in Handlers : g # h => handlers'[g] = handlers[g]
  BY HandlerForm DEF IInv, TypeOK
<1>2. ASSUME NEW n \in 1..Len(events), n # m
      PROVE  Spoils(n)' <=> Spoils(n)
  <2>1. InProcess(n)' <=> InProcess(n)
    BY <1>1, <1>2 DEF InProcess
  <2>2. Retrying(n)' <=> Retrying(n)
    BY <1>1, <1>2 DEF Retrying
  <2>3. events'[n] = events[n]
    BY <1>2
  <2> QED
    BY <2>1, <2>2, <2>3 DEF Spoils
<1>3. Spoiled' = {n \in 1..Len(events) : Spoils(n)'}
  BY DEF Spoiled
<1>4. Spoiled' \subseteq Spoiled \cup {m}
  BY <1>2, <1>3 DEF Spoiled
<1>5. (Spoils(m)' => Spoils(m)) => Spoiled' \subseteq Spoiled
  BY <1>2, <1>3 DEF Spoiled
<1>6. InProcess(m)' <=>
        \/ r.nth = m /\ r.at \in {"claimed", "fetched"}
        \/ \E g \in Handlers \ {h} :
             handlers[g].nth = m /\ handlers[g].at \in {"claimed", "fetched"}
  BY <1>1 DEF InProcess
<1>7. Retrying(m)' <=>
        \/ r.nth = m /\ r.at \in {"claimed", "fetched", "failing"}
        \/ \E g \in Handlers \ {h} :
             /\ handlers[g].nth = m
             /\ handlers[g].at \in {"claimed", "fetched", "failing"}
  BY <1>1 DEF Retrying
<1> QED
  BY <1>4, <1>5, <1>6, <1>7

(* A handler that ends leaves at most its own event spoiled. *)
LEMMA EndUnspoiled ==
  ASSUME IInv, NEW h \in Handlers, NEW m \in 1..Len(events),
         handlers[h].nth = m,
         handlers' = [handlers EXCEPT ![h] = Idle],
         Len(events') = Len(events),
         \A n \in 1..Len(events) : n # m => events'[n] = events[n]
  PROVE  /\ Spoiled' \subseteq Spoiled \cup {m}
         /\ (Spoils(m)' => Spoils(m)) => Spoiled' \subseteq Spoiled
<1>1. /\ handlers'[h].at = "idle"
      /\ \A g \in Handlers : g # h => handlers'[g] = handlers[g]
  BY IdleForm, HandlerForm DEF IInv, TypeOK
<1>2. ASSUME NEW n \in 1..Len(events), n # m
      PROVE  Spoils(n)' <=> Spoils(n)
  <2>1. InProcess(n)' <=> InProcess(n)
    BY <1>1, <1>2 DEF InProcess
  <2>2. Retrying(n)' <=> Retrying(n)
    BY <1>1, <1>2 DEF Retrying
  <2>3. events'[n] = events[n]
    BY <1>2
  <2> QED
    BY <2>1, <2>2, <2>3 DEF Spoils
<1>3. Spoiled' = {n \in 1..Len(events) : Spoils(n)'}
  BY DEF Spoiled
<1> QED
  BY <1>2, <1>3 DEF Spoiled

(* The handler that holds an event is the only one at it. *)
LEMMA Sole ==
  ASSUME IInv, NEW h \in Handlers, NEW m \in 1..Len(events),
         handlers[h].nth = m, handlers[h].at \in Holding
  PROVE  /\ events[m].claimed
         /\ ~\E g \in Handlers \ {h} :
               /\ handlers[g].nth = m
               /\ handlers[g].at \in {"claimed", "fetched", "failing"}
         /\ ~\E g \in Handlers \ {h} :
               handlers[g].nth = m /\ handlers[g].at \in {"claimed", "fetched"}
BY DEF IInv, HandlersSane, HandlerSane, HoldersDiffer, Holding, Ours

(* What a handler's step does to its event. *)
LEMMA HandlerSpoils ==
  ASSUME IInv, NEW h \in Handlers, Handle(h) \/ Throw(h) \/ Crash(h)
  PROVE  \/ Spoiled' \subseteq Spoiled /\ faults' \in {faults, faults + 1}
         \/ /\ faults' = faults + 1
            /\ \E m \in 1..Len(events) : Spoiled' \subseteq Spoiled \cup {m}
<1>1. handlers[h].at # "idle"
  BY DEF Handle, Claim, Fetch, Write, Ready, Answer, Release, Throw, Crash
<1> DEFINE m == handlers[h].nth
<1>2. /\ handlers[h] \in Handler /\ m \in 1..Len(events) /\ m \in Nat
      /\ Ours(h) = events[m] /\ events[m] \in Event /\ HandlerSane(h)
      /\ events \in Seq(Event) /\ faults \in Nat
  BY <1>1, OursForm, BillingAssumption DEF IInv, TypeOK
<1>3. PICK n \in 1..Len(events) : n = m
  BY <1>2
<1>4. /\ handlers[h].nth = n /\ Ours(h) = events[n] /\ events[n] \in Event
      /\ events[n].times \in Nat
  BY <1>2, <1>3 DEF Event
<1>5. ASSUME NEW e \in Event, Set(n, e)
      PROVE  /\ Len(events') = Len(events) /\ events'[n] = e
             /\ \A k \in 1..Len(events) : k # n => events'[k] = events[k]
  BY <1>2, <1>5, SetForm
<1>6. CASE Claim(h)
  <2>1. handlers[h].at = "resolved" /\ faults' = faults
    BY <1>6 DEF Claim
  <2>2. CASE ~events[n].claimed
    <3> DEFINE e == [events[n] EXCEPT !.claimed = TRUE]
               r == [handlers[h] EXCEPT !.at = "claimed"]
    <3>1. /\ e \in Event /\ e.claimed = TRUE /\ e.times = events[n].times
          /\ e.acked = events[n].acked
          /\ r \in Handler /\ r.at = "claimed" /\ r.nth = n
      BY <1>2, <1>4 DEF Event, Handler, Places
    <3>2. Set(n, e) /\ handlers' = [handlers EXCEPT ![h] = r]
      BY <1>2, <1>4, <1>6, <2>2 DEF Claim, Go, IInv, TypeOK
    <3> HIDE DEF e, r
    <3>3. /\ Len(events') = Len(events) /\ events'[n] = e
          /\ \A k \in 1..Len(events) : k # n => events'[k] = events[k]
      BY <1>5, <3>1, <3>2
    <3>4. InProcess(n)'
      BY <1>4, <3>1, <3>2, <3>3, OthersUnspoiled
    <3>5. Spoils(n)' => Spoils(n)
      BY <1>4, <2>2, <3>1, <3>3, <3>4 DEF Spoils
    <3> QED
      BY <1>4, <2>1, <3>1, <3>2, <3>3, <3>5, OthersUnspoiled
  <2>3. CASE events[n].claimed
    <3> DEFINE e == [events[n] EXCEPT !.acked = TRUE]
    <3>1. /\ e \in Event /\ e.claimed = events[n].claimed
          /\ e.times = events[n].times
      BY <1>4 DEF Event
    <3>2. Set(n, e) /\ handlers' = [handlers EXCEPT ![h] = Idle]
      BY <1>4, <1>6, <2>3 DEF Claim, Finish
    <3> HIDE DEF e
    <3>3. /\ Len(events') = Len(events) /\ events'[n] = e
          /\ \A k \in 1..Len(events) : k # n => events'[k] = events[k]
      BY <1>5, <3>1, <3>2
    <3>4. /\ InProcess(n)' <=> InProcess(n)
          /\ Retrying(n)' <=> Retrying(n)
      BY <1>4, <2>1, <3>2, <3>3, IdleForm, OthersUnspoiled
         DEF InProcess, Retrying
    <3>5. Spoils(n)' => Spoils(n)
      BY <2>3, <3>1, <3>3, <3>4 DEF Spoils
    <3>6. Spoiled' \subseteq Spoiled
      BY <1>4, <3>2, <3>3, <3>5, EndUnspoiled
    <3> QED
      BY <2>1, <3>6
  <2> QED
    BY <2>2, <2>3
<1>7. CASE Fetch(h)
  <2> DEFINE r == [handlers[h] EXCEPT !.at = "fetched", !.seen = truth[events[n].sub]]
  <2>1. /\ handlers[h].at = "claimed" /\ faults' = faults /\ events' = events
    BY <1>7 DEF Fetch
  <2>2. r \in Handler /\ r.at = "fetched" /\ r.nth = n
    BY <1>2, <1>4 DEF Handler, Places, IInv, TypeOK, Event
  <2>3. handlers' = [handlers EXCEPT ![h] = r]
    BY <1>2, <1>4, <1>7 DEF Fetch, IInv, TypeOK
  <2> HIDE DEF r
  <2>4. InProcess(n)' /\ Retrying(n)
    <3>1. InProcess(n)'
      BY <1>4, <2>1, <2>2, <2>3, OthersUnspoiled
    <3>2. Retrying(n)
      BY <1>4, <2>1 DEF Retrying
    <3> QED
      BY <3>1, <3>2
  <2>5. Spoils(n)' => Spoils(n)
    BY <2>1, <2>4 DEF Spoils
  <2> QED
    BY <1>4, <2>1, <2>2, <2>3, <2>5, OthersUnspoiled
<1>8. CASE Write(h)
  <2>1. /\ handlers[h].at \in {"claimed", "fetched"} /\ handlers[h].at \in Holding
        /\ Told(h) \in {-1, 0, 1}
    BY <1>8, ReadyForm, WrittenForm DEF Write
  <2> DEFINE e == [events[n] EXCEPT !.times = @ + 1]
  <2>2. /\ e \in Event /\ e.claimed = events[n].claimed
        /\ e.times = events[n].times + 1
    BY <1>4 DEF Event
  <2>3. Set(n, e)
    BY <1>4, <1>8 DEF Write, Apply
  <2> HIDE DEF e
  <2>4. /\ Len(events') = Len(events) /\ events'[n] = e
        /\ \A k \in 1..Len(events) : k # n => events'[k] = events[k]
    BY <1>5, <2>2, <2>3
  <2>5. CASE Done(h, "written", Told(h)) /\ UNCHANGED faults
    <3> DEFINE r == Left("written", n, Told(h))
    <3>1. r \in Handler /\ r.at = "written" /\ r.nth = n
      BY <2>1, LeftForm DEF Places
    <3>2. handlers' = [handlers EXCEPT ![h] = r]
      BY <1>4, <2>5 DEF Done, Left
    <3> HIDE DEF r
    <3>3. /\ events[n].claimed
          /\ ~\E g \in Handlers \ {h} :
                /\ handlers[g].nth = n
                /\ handlers[g].at \in {"claimed", "fetched", "failing"}
      BY <1>4, <2>1, Sole
    <3>4. ~Retrying(n)'
      <4>1. Retrying(n)' <=>
              \/ r.nth = n /\ r.at \in {"claimed", "fetched", "failing"}
              \/ \E g \in Handlers \ {h} :
                   /\ handlers[g].nth = n
                   /\ handlers[g].at \in {"claimed", "fetched", "failing"}
        BY <1>4, <2>4, <3>1, <3>2, OthersUnspoiled
      <4>2. r.at \notin {"claimed", "fetched", "failing"}
        BY <3>1
      <4> QED
        BY <3>3, <4>1, <4>2
    <3>5. Retrying(n)
      BY <1>4, <2>1 DEF Retrying
    <3>6. events'[n].times = events[n].times + 1 /\ events'[n].claimed
      BY <2>2, <2>4, <3>3
    <3>7. Spoils(n)' => events[n].times >= 1
      BY <1>4, <3>4, <3>6 DEF Spoils
    <3>8. events[n].times >= 1 => Spoils(n)
      BY <1>4, <3>5 DEF Spoils
    <3>9. Spoils(n)' => Spoils(n)
      BY <3>7, <3>8
    <3> QED
      BY <1>4, <2>4, <2>5, <3>1, <3>2, <3>9, OthersUnspoiled
  <2>6. CASE Done(h, "failing", 0) /\ Fault
    <3> DEFINE r == Left("failing", n, 0)
    <3>1. r \in Handler /\ r.nth = n
      BY LeftForm DEF Places
    <3>2. handlers' = [handlers EXCEPT ![h] = r]
      BY <1>4, <2>6 DEF Done, Left
    <3> HIDE DEF r
    <3> QED
      BY <1>4, <2>4, <2>6, <3>1, <3>2, OthersUnspoiled DEF Fault
  <2> QED
    BY <1>8, <2>5, <2>6 DEF Write
<1>9. CASE Answer(h)
  <2> DEFINE e == [events[n] EXCEPT !.acked = TRUE]
  <2>1. /\ handlers[h].at = "written" /\ faults' \in {faults, faults + 1}
        /\ handlers' = [handlers EXCEPT ![h] = Idle]
    BY <1>9 DEF Answer, Finish, Fault
  <2>2. /\ e \in Event /\ e.claimed = events[n].claimed
        /\ e.times = events[n].times
    BY <1>4 DEF Event
  <2>3. Set(n, e)
    BY <1>4, <1>9 DEF Answer
  <2> HIDE DEF e
  <2>4. /\ Len(events') = Len(events) /\ events'[n] = e
        /\ \A k \in 1..Len(events) : k # n => events'[k] = events[k]
    BY <1>5, <2>2, <2>3
  <2>5. events[n].times # 0
    BY <1>2, <1>4, <2>1 DEF HandlerSane
  <2>6. Retrying(n)' <=> Retrying(n)
    BY <1>4, <2>1, <2>4, IdleForm, OthersUnspoiled DEF Retrying
  <2>7. Spoils(n)' => Spoils(n)
    BY <2>2, <2>4, <2>5, <2>6 DEF Spoils
  <2>8. Spoiled' \subseteq Spoiled
    BY <1>4, <2>1, <2>4, <2>7, EndUnspoiled
  <2> QED
    BY <2>1, <2>8
<1>10. CASE Release(h)
  <2> DEFINE e == [events[n] EXCEPT !.claimed = FALSE]
  <2>1. /\ handlers[h].at = "failing"
        /\ handlers' = [handlers EXCEPT ![h] = Idle]
    BY <1>10 DEF Release, Finish
  <2>2. CASE Set(n, e) /\ UNCHANGED faults
    <3>1. e \in Event /\ e.times = events[n].times
      BY <1>4 DEF Event
    <3> HIDE DEF e
    <3>2. /\ Len(events') = Len(events) /\ events'[n] = e
          /\ \A k \in 1..Len(events) : k # n => events'[k] = events[k]
      BY <1>5, <2>2, <3>1
    <3>3. /\ events[n].claimed /\ ~InProcess(n) /\ Retrying(n)
      BY <1>4, <2>1, Sole DEF InProcess, Retrying, Holding
    <3>4. Spoils(n)' => Spoils(n)
      BY <1>4, <3>1, <3>2, <3>3 DEF Spoils
    <3>5. Spoiled' \subseteq Spoiled
      BY <1>4, <2>1, <3>2, <3>4, EndUnspoiled
    <3> QED
      BY <2>2, <3>5
  <2>3. CASE Fault /\ UNCHANGED events
    BY <1>4, <2>1, <2>3, EndUnspoiled DEF Fault
  <2> QED
    BY <1>4, <1>10, <2>2, <2>3 DEF Release
<1>11. CASE Throw(h)
  <2> DEFINE r == Left("failing", n, 0)
  <2>1. r \in Handler /\ r.nth = n
    BY LeftForm DEF Places
  <2>2. /\ handlers' = [handlers EXCEPT ![h] = r] /\ events' = events /\ Fault
    BY <1>4, <1>11 DEF Throw, Done, Left
  <2> HIDE DEF r
  <2> QED
    BY <1>4, <2>1, <2>2, OthersUnspoiled DEF Fault
<1>12. CASE Crash(h)
  <2>1. handlers' = [handlers EXCEPT ![h] = Idle] /\ events' = events /\ Fault
    BY <1>12 DEF Crash, Finish
  <2> QED
    BY <1>4, <2>1, IdleForm, OthersUnspoiled DEF Fault
<1> QED
  BY <1>6, <1>7, <1>8, <1>9, <1>10, <1>11, <1>12 DEF Handle

(* Which steps spoil an event: failures, one each. *)
LEMMA OneSpoiledPerFault ==
  ASSUME IInv, [Next]_vars
  PROVE  \/ Spoiled' \subseteq Spoiled /\ faults' \in {faults, faults + 1}
         \/ /\ faults' = faults + 1
            /\ \E m \in 1..Len(events) : Spoiled' \subseteq Spoiled \cup {m}
<1>1. TypeOK /\ events \in Seq(Event) /\ Len(events) \in Nat
  BY LenProperties DEF IInv, TypeOK
<1>2. ASSUME NEW h \in Handlers, NEW n \in 1..Len(events), Receive(h, n)
      PROVE  Spoiled' = Spoiled /\ faults' = faults
  <2>1. /\ handlers' = [handlers EXCEPT ![h] = Reading(n, row)]
        /\ handlers[h].at = "idle" /\ UNCHANGED <<events, faults>>
    BY <1>2 DEF Receive, Reading
  <2>2. Reading(n, row).at = "resolved"
    BY <1>1, ReadingForm DEF TypeOK
  <2>3. \A g \in Handlers :
          /\ handlers'[g] = handlers[g]
             \/ (handlers[g].at = "idle" /\ handlers'[g].at = "resolved")
    BY <1>1, <2>1, <2>2 DEF TypeOK
  <2>4. \A m : (InProcess(m)' <=> InProcess(m)) /\ (Retrying(m)' <=> Retrying(m))
    BY <2>3 DEF InProcess, Retrying
  <2> QED
    BY <2>1, <2>4 DEF Spoiled, Spoils
<1>3. ASSUME NEW s \in Subs,
             \/ OpenCheckout(s) \/ Renew(s) \/ Dun(s) \/ EndSub(s)
             \/ \E plan \in Prices : Complete(s, plan) \/ ChangePlan(s, plan)
      PROVE  Spoiled' \subseteq Spoiled /\ faults' = faults
  <2>1. handlers' = handlers /\ faults' = faults
    BY <1>3 DEF OpenCheckout, Renew, Dun, EndSub, Complete, ChangePlan, Becomes
  <2>2. CASE events' = events
    BY <2>1, <2>2 DEF Spoiled, Spoils, InProcess, Retrying
  <2>3. ASSUME NEW kinds \in Announcements, Note(kinds, s)
        PROVE  Spoiled' \subseteq Spoiled
    <3>1. /\ \A n \in 1..Len(events) : events'[n] = events[n]
          /\ \A n \in 1..Len(events') :
               n \notin 1..Len(events) =>
                 \E kind \in Kinds : events'[n] = Noted(kind, s)
      BY <1>1, <2>3, AnnouncementForm, NoteForm
    <3>2. \A n \in 1..Len(events') :
            n \notin 1..Len(events) => ~Spoils(n)'
      <4>1. \A kind : /\ Noted(kind, s).times = 0
                      /\ ~Noted(kind, s).acked /\ ~Noted(kind, s).claimed
        BY DEF Noted
      <4>2. \A n \in 1..Len(events') :
              n \notin 1..Len(events) =>
                /\ events'[n].times = 0
                /\ ~events'[n].acked /\ ~events'[n].claimed
        BY <3>1, <4>1
      <4> QED
        BY <4>2 DEF Spoils
    <3>3. \A n \in 1..Len(events) : Spoils(n)' <=> Spoils(n)
      BY <2>1, <3>1 DEF Spoils, InProcess, Retrying
    <3> QED
      BY <3>2, <3>3 DEF Spoiled
  <2>4. events' = events \/ \E kinds \in Announcements : Note(kinds, s)
    BY <1>3 DEF OpenCheckout, Renew, Dun, EndSub, Complete, ChangePlan, Becomes,
      Announcements
  <2> QED
    BY <2>1, <2>2, <2>3, <2>4
<1>4. ASSUME NEW h \in Handlers, Handle(h) \/ Throw(h) \/ Crash(h)
      PROVE  \/ Spoiled' \subseteq Spoiled /\ faults' \in {faults, faults + 1}
             \/ /\ faults' = faults + 1
                /\ \E m \in 1..Len(events) : Spoiled' \subseteq Spoiled \cup {m}
  BY <1>4, HandlerSpoils
<1>5. CASE UNCHANGED vars
  BY <1>5 DEF vars, Spoiled, Spoils, InProcess, Retrying
<1> QED
  BY <1>2, <1>3, <1>4, <1>5 DEF Next

(* The events of an account are astray by failures only, one for each.     *)
THEOREM AstrayIsCounted == Spec => []AstrayOnlyByFault
<1>1. Init => SpoiledOnlyByFault
  <2> SUFFICES ASSUME Init PROVE SpoiledOnlyByFault
    OBVIOUS
  <2>1. Spoiled = {}
    BY DEF Init, Spoiled
  <2> QED
    BY <2>1, FS_EmptySet DEF SpoiledOnlyByFault, Init
<1>2. IInv /\ SpoiledOnlyByFault /\ [Next]_vars /\ IInv' => SpoiledOnlyByFault'
  <2> SUFFICES ASSUME IInv, SpoiledOnlyByFault, [Next]_vars, IInv'
               PROVE  SpoiledOnlyByFault'
    OBVIOUS
  <2>1. faults \in Nat /\ Spoiled \in SUBSET (1..Len(events))
    BY BillingAssumption DEF IInv, TypeOK, Spoiled
  <2>2. IsFiniteSet(Spoiled) /\ Cardinality(Spoiled) \in Nat
    BY <2>1, EventsCounted
  <2>3. ASSUME Spoiled' \subseteq Spoiled, faults' \in {faults, faults + 1}
        PROVE  SpoiledOnlyByFault'
    <3>1. /\ Cardinality(Spoiled') <= Cardinality(Spoiled)
          /\ Cardinality(Spoiled') \in Nat
      BY <2>1, <2>3, EventsCounted
    <3> QED
      BY <2>1, <2>2, <2>3, <3>1 DEF SpoiledOnlyByFault
  <2>4. ASSUME NEW m \in 1..Len(events), faults' = faults + 1,
               Spoiled' \subseteq Spoiled \cup {m}
        PROVE  SpoiledOnlyByFault'
    <3>1. Cardinality(Spoiled \cup {m}) <= Cardinality(Spoiled) + 1
      <4>1. \/ Cardinality(Spoiled \cup {m}) = Cardinality(Spoiled)
            \/ Cardinality(Spoiled \cup {m}) = Cardinality(Spoiled) + 1
        BY <2>2, FS_AddElement
      <4> QED
        BY <2>2, <4>1
    <3>2. /\ Cardinality(Spoiled \cup {m}) \in Nat
          /\ Cardinality(Spoiled') \in Nat
          /\ Cardinality(Spoiled') <= Cardinality(Spoiled \cup {m})
      <4>1. Spoiled \cup {m} \in SUBSET (1..Len(events))
        BY <2>1
      <4> QED
        BY <2>4, <4>1, EventsCounted
    <3> QED
      BY <2>1, <2>2, <2>4, <3>1, <3>2 DEF SpoiledOnlyByFault
  <2> QED
    BY <2>3, <2>4, OneSpoiledPerFault
<1>3. IInv /\ SpoiledOnlyByFault => AstrayOnlyByFault
  <2> SUFFICES ASSUME IInv, SpoiledOnlyByFault PROVE AstrayOnlyByFault
    OBVIOUS
  <2>1. Spoiled \in SUBSET (1..Len(events)) /\ Astray \in SUBSET Spoiled
    BY DEF Spoiled, Astray, Spoils
  <2>2. /\ Cardinality(Astray) \in Nat /\ Cardinality(Spoiled) \in Nat
        /\ Cardinality(Astray) <= Cardinality(Spoiled) /\ faults \in Nat
    BY <2>1, EventsCounted, BillingAssumption DEF IInv, TypeOK
  <2> QED
    BY <2>2 DEF SpoiledOnlyByFault, AstrayOnlyByFault
<1> QED
  BY <1>1, <1>2, <1>3, AlwaysIInv, PTL DEF Spec

(* Both halves: nothing is processed twice or lost but for failures.       *)
THEOREM EventsLandExactlyOnce == Spec => []ExactlyOnceButForFaults
BY EventsProcessedOnce, AstrayIsCounted, PTL DEF ExactlyOnceButForFaults
=============================================================================

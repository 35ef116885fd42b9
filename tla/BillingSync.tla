---------------------------- MODULE BillingSync ----------------------------
(***************************************************************************)
(* What an account has paid for: the Stripe webhook                        *)
(* (apps/id/src/app/api/billing/webhook/route.ts) and the writer of the    *)
(* billing row (lib/billing/sync.ts), for one account, one Stripe customer *)
(* and the subscriptions its checkouts make.                               *)
(*                                                                         *)
(* Stripe is external: it changes a subscription, notes an event for it    *)
(* and delivers the event, in any order and again after a delivery that    *)
(* timed out, until a delivery is answered with 200.  A handler is one     *)
(* delivery on its way through the route.                                  *)
(***************************************************************************)
EXTENDS Integers, Sequences, FiniteSets

CONSTANTS
  Subs,      \* Stripe subscriptions
  NoSub,     \* stripe_subscription_id is null
  Paid,      \* the paid plans
  Unmapped,  \* in place of a plan: a price that maps to no configured one
  Handlers,  \* bound: deliveries processed at the same time
  MaxEvents, \* bound: events Stripe notes
  MaxOverlaps,  \* bound: deliveries that start while another is processed
  MaxFaults     \* bound: failed requests and statements, and crashes

ASSUME BillingAssumption ==
  /\ NoSub \notin Subs
  /\ "free" \notin Paid /\ "none" \notin Paid
  /\ Unmapped \notin Paid \cup {"free", "none"}
  /\ {MaxEvents, MaxOverlaps, MaxFaults} \subseteq Nat

VARIABLES
  truth,     \* Stripe: subscription -> its status and plan
  sessions,  \* checkout sessions that are open, by their subscription
  events,    \* Stripe: the events noted so far, with what became of them
  row,       \* kinetiks_billing; seeds is the plan whose quota was set last
  ledger,    \* kinetiks_ledger: subscriptions started less those canceled
  handlers,  \* handler -> where it is, its event, what it read
  unpriced,  \* history: writes that left a live subscription on a free row
  overlaps,  \* deliveries that started while another was processed
  faults     \* failures so far

vars == <<truth, sessions, events, row, ledger, handlers, unpriced, overlaps,
          faults>>
stripeVars == <<truth, sessions>>

Plans == Paid \cup {"free"}
Prices == Paid \cup {Unmapped}
(* paused stands for incomplete_expired too, past_due for incomplete and   *)
(* unpaid, active for trialing.                                            *)
Statuses == {"none", "active", "past_due", "canceled", "paused"}
Kinds == {"checkout", "subscription", "paid", "failed"}
Places == {"idle", "resolved", "claimed", "fetched", "failing", "written"}

Subscription == [status : Statuses, plan : Plans \cup {Unmapped}]
Event == [kind : Kinds, sub : Subs, acked : BOOLEAN, claimed : BOOLEAN,
          times : Nat]
Row == [plan : Plans, status : {"active", "past_due", "canceled"},
        sub : Subs \cup {NoSub}, seeds : Plans \cup {"none"}]
Handler == [at : Places, nth : Nat, read : Row, seen : Subscription,
            tells : {-1, 0, 1}]

Unborn == [status |-> "none", plan |-> "free"]
FirstRow == [plan |-> "free", status |-> "active", sub |-> NoSub,
             seeds |-> "none"]
Idle == [at |-> "idle", nth |-> 0, read |-> FirstRow, seen |-> Unborn,
         tells |-> 0]

TypeOK ==
  /\ truth \in [Subs -> Subscription]
  /\ sessions \in SUBSET Subs
  /\ events \in Seq(Event)
  /\ row \in Row
  /\ ledger \in Int
  /\ handlers \in [Handlers -> Handler]
  /\ unpriced \in Nat
  /\ overlaps \in 0..MaxOverlaps
  /\ faults \in 0..MaxFaults

Init ==
  /\ truth = [s \in Subs |-> Unborn]
  /\ sessions = {}
  /\ events = <<>>
  /\ row = FirstRow
  /\ ledger = 0
  /\ handlers = [h \in Handlers |-> Idle]
  /\ unpriced = 0
  /\ overlaps = 0
  /\ faults = 0

----------------------------------------------------------------------------
(* Helpers *)

Fault == faults < MaxFaults /\ faults' = faults + 1
Busy == {h \in Handlers : handlers[h].at # "idle"}

(* planStatusFromStripe; the mutant hands the status through.              *)
StatusOf_Raw(status) == status
StatusOf(status) ==
  IF status \in {"canceled", "paused"} THEN "canceled" ELSE status

(* The fetched subscription is an old one's end: an event for it is        *)
(* skipped.  The mutant forgets which subscription is the row's.           *)
OldTail_Never(read, sub, seen) == FALSE
OldTail(read, sub, seen) ==
  read.sub # NoSub /\ read.sub # sub /\ seen.status = "canceled"

(* The seeds are set on a change of plan and when a subscription attaches; *)
(* the mutant forgets the change of plan.                                  *)
Resets_OnAttach(read, sub, plan, ended) == ~ended /\ read.sub # sub
Resets(read, sub, plan, ended) ==
  plan # read.plan \/ (~ended /\ read.sub # sub)

(* The plan of the row: a live subscription on a price that maps to no     *)
(* plan leaves the one that was read.                                      *)
PlanOf(read, seen) ==
  IF StatusOf(seen.status) = "canceled" THEN "free"
  ELSE IF seen.plan = Unmapped THEN read.plan
  ELSE seen.plan

(* syncSubscriptionToBilling: the row after the update of a handler that   *)
(* read one row and fetched one state of the subscription.                 *)
Synced(r, read, sub, seen) ==
  LET ended == StatusOf(seen.status) = "canceled"
      plan == PlanOf(read, seen)
  IN  [plan |-> plan, status |-> StatusOf(seen.status),
       sub |-> IF ended THEN NoSub ELSE sub,
       seeds |-> IF Resets(read, sub, plan, ended) THEN plan ELSE r.seeds]

(* ... and the transition the Ledger is told: started, canceled or none    *)
(* that counts: a live subscription of a free row is started, be it the    *)
(* row's own.  The mutant takes every new subscription for a start.        *)
Tells_EveryAttach(read, sub, seen) ==
  IF StatusOf(seen.status) = "canceled"
  THEN IF read.plan # "free" \/ read.sub # NoSub THEN -1 ELSE 0
  ELSE IF read.sub # sub THEN 1 ELSE 0
Tells(read, sub, seen) ==
  IF StatusOf(seen.status) = "canceled"
  THEN IF read.plan # "free" \/ read.sub # NoSub THEN -1 ELSE 0
  ELSE IF read.plan = "free" \/ read.sub = NoSub THEN 1 ELSE 0

----------------------------------------------------------------------------
(* Stripe and the customer *)

Noted(kind, s) ==
  [kind |-> kind, sub |-> s, acked |-> FALSE, claimed |-> FALSE, times |-> 0]
Note(kinds, s) ==
  /\ Len(events) + Len(kinds) <= MaxEvents
  /\ events' = events \o [i \in 1..Len(kinds) |-> Noted(kinds[i], s)]

(* A change of the subscription, and the events for it. *)
Becomes(s, status, plan, kinds) ==
  /\ truth' = [truth EXCEPT ![s] = [status |-> status, plan |-> plan]]
  /\ Note(kinds, s)
  /\ UNCHANGED <<row, ledger, handlers, unpriced, overlaps, faults>>

Live(s) == truth[s].status \in {"active", "past_due"}

(* POST /api/billing/checkout opens a session unless the row has a live    *)
(* subscription.                                                           *)
OpenCheckout(s) ==
  /\ truth[s].status = "none"
  /\ s \notin sessions
  /\ row.sub = NoSub \/ row.status = "canceled"
  /\ sessions' = sessions \cup {s}
  /\ UNCHANGED <<truth, events, row, ledger, handlers, unpriced, overlaps,
                 faults>>

(* The customer completes it. *)
Complete(s, plan) ==
  /\ s \in sessions
  /\ sessions' = sessions \ {s}
  /\ Becomes(s, "active", plan, <<"checkout", "subscription">>)

(* The customer changes the plan in the portal. *)
ChangePlan(s, plan) ==
  /\ Live(s)
  /\ truth[s].plan # plan
  /\ Becomes(s, truth[s].status, plan, <<"subscription">>)
  /\ UNCHANGED sessions

(* A renewal is paid, or not. *)
Renew(s) ==
  /\ Live(s)
  /\ Becomes(s, "active", truth[s].plan, <<"paid", "subscription">>)
  /\ UNCHANGED sessions
Dun(s) ==
  /\ Live(s)
  /\ Becomes(s, "past_due", truth[s].plan, <<"failed", "subscription">>)
  /\ UNCHANGED sessions

(* The subscription ends, or is paused. *)
EndSub(s) ==
  /\ Live(s)
  /\ \E status \in {"canceled", "paused"} :
       Becomes(s, status, truth[s].plan, <<"subscription">>)
  /\ UNCHANGED sessions

----------------------------------------------------------------------------
(* The webhook *)

Go(h, at) == handlers' = [handlers EXCEPT ![h].at = at]
(* What the handler read is of no use any more. *)
Done(h, at, tells) ==
  handlers' = [handlers EXCEPT ![h] =
    [Idle EXCEPT !.at = at, !.nth = handlers[h].nth, !.tells = tells]]
Finish(h) == handlers' = [handlers EXCEPT ![h] = Idle]
Set(n, e) == events' = [events EXCEPT ![n] = e]
Ours(h) == events[handlers[h].nth]

(* A delivery of an event that has not been acknowledged: the first one,   *)
(* or again.  resolveBillingRow reads the row.                             *)
Receive(h, n) ==
  /\ handlers[h].at = "idle"
  /\ ~events[n].acked
  /\ handlers' = [handlers EXCEPT ![h] =
       [Idle EXCEPT !.at = "resolved", !.nth = n, !.read = row]]
  /\ \/ Busy = {} /\ UNCHANGED overlaps
     \/ Busy # {} /\ overlaps < MaxOverlaps /\ overlaps' = overlaps + 1
  /\ UNCHANGED <<stripeVars, events, row, ledger, unpriced, faults>>

(* The claim: the insert of the event's key.  The loser answers 200.  The  *)
(* mutant's insert knows no duplicate.                                     *)
Claim_Blind(h) ==
  /\ handlers[h].at = "resolved"
  /\ Set(handlers[h].nth, [Ours(h) EXCEPT !.claimed = TRUE])
  /\ Go(h, "claimed")
  /\ UNCHANGED <<stripeVars, row, ledger, unpriced, overlaps, faults>>
Claim(h) ==
  /\ handlers[h].at = "resolved"
  /\ \/ /\ ~Ours(h).claimed
        /\ Set(handlers[h].nth, [Ours(h) EXCEPT !.claimed = TRUE])
        /\ Go(h, "claimed")
     \/ /\ Ours(h).claimed
        /\ Set(handlers[h].nth, [Ours(h) EXCEPT !.acked = TRUE])
        /\ Finish(h)
  /\ UNCHANGED <<stripeVars, row, ledger, unpriced, overlaps, faults>>

(* fetchSubscription: Stripe's current truth.  An invoice fetches nothing. *)
Fetch(h) ==
  /\ handlers[h].at = "claimed"
  /\ Ours(h).kind \in {"checkout", "subscription"}
  /\ handlers' = [handlers EXCEPT ![h].at = "fetched",
                                  ![h].seen = truth[Ours(h).sub]]
  /\ UNCHANGED <<stripeVars, events, row, ledger, unpriced, overlaps, faults>>

(* The update of the row by its account; the row may have changed since    *)
(* the handler read it.                                                    *)
Skips(h) ==
  /\ Ours(h).kind = "subscription"
  /\ OldTail(handlers[h].read, Ours(h).sub, handlers[h].seen)
Written(h) ==
  LET a == handlers[h]
  IN  IF Ours(h).kind = "paid"
      THEN [row EXCEPT !.seeds = a.read.plan, !.status = "active"]
      ELSE IF Ours(h).kind = "failed" THEN [row EXCEPT !.status = "past_due"]
      ELSE IF Skips(h) THEN row
      ELSE Synced(row, a.read, Ours(h).sub, a.seen)
Unpriced(h) ==
  /\ Ours(h).kind \in {"checkout", "subscription"} /\ ~Skips(h)
  /\ Written(h).sub # NoSub /\ Written(h).plan = "free"
Told(h) ==
  IF Ours(h).kind \in {"paid", "failed"} \/ Skips(h) THEN 0
  ELSE Tells(handlers[h].read, Ours(h).sub, handlers[h].seen)
Ready(h) ==
  \/ handlers[h].at = "fetched"
  \/ handlers[h].at = "claimed" /\ Ours(h).kind \in {"paid", "failed"}
Apply(h) ==
  /\ row' = Written(h)
  /\ unpriced' = IF Unpriced(h) THEN unpriced + 1 ELSE unpriced
  /\ Set(handlers[h].nth, [Ours(h) EXCEPT !.times = @ + 1])
Write(h) ==
  /\ Ready(h)
  /\ \/ /\ Apply(h)
        /\ Done(h, "written", Told(h))
        /\ UNCHANGED faults
     \/ Fault /\ Apply(h) /\ Done(h, "failing", 0)
  /\ UNCHANGED <<stripeVars, ledger, overlaps>>

(* The fetch or the update fails. *)
Throw(h) ==
  /\ handlers[h].at \in {"claimed", "fetched"}
  /\ Fault
  /\ Done(h, "failing", 0)
  /\ UNCHANGED <<stripeVars, events, row, ledger, unpriced, overlaps>>

(* The Ledger is told, or its error is reported and no more; then 200.     *)
Answer(h) ==
  /\ handlers[h].at = "written"
  /\ \/ ledger' = ledger + handlers[h].tells /\ UNCHANGED faults
     \/ Fault /\ UNCHANGED ledger
  /\ Set(handlers[h].nth, [Ours(h) EXCEPT !.acked = TRUE])
  /\ Finish(h)
  /\ UNCHANGED <<stripeVars, row, unpriced, overlaps>>

(* The failure path releases the claim and answers 500; a release that     *)
(* fails leaves the claim.  The mutant answers 200.                        *)
Release_Acks(h) ==
  /\ handlers[h].at = "failing"
  /\ Set(handlers[h].nth, [Ours(h) EXCEPT !.claimed = FALSE, !.acked = TRUE])
  /\ Finish(h)
  /\ UNCHANGED <<stripeVars, row, ledger, unpriced, overlaps, faults>>
Release(h) ==
  /\ handlers[h].at = "failing"
  /\ \/ /\ Set(handlers[h].nth, [Ours(h) EXCEPT !.claimed = FALSE])
        /\ UNCHANGED faults
     \/ Fault /\ UNCHANGED events
  /\ Finish(h)
  /\ UNCHANGED <<stripeVars, row, ledger, unpriced, overlaps>>

(* The server dies. *)
Crash(h) ==
  /\ handlers[h].at # "idle"
  /\ Fault
  /\ Finish(h)
  /\ UNCHANGED <<stripeVars, events, row, ledger, unpriced, overlaps>>

Handle(h) ==
  Claim(h) \/ Fetch(h) \/ Write(h) \/ Answer(h) \/ Release(h)

Next ==
  \/ \E s \in Subs :
        \/ OpenCheckout(s) \/ Renew(s) \/ Dun(s) \/ EndSub(s)
        \/ \E plan \in Prices : Complete(s, plan) \/ ChangePlan(s, plan)
  \/ \E h \in Handlers :
        \/ Handle(h) \/ Throw(h) \/ Crash(h)
        \/ \E n \in 1..Len(events) : Receive(h, n)

Spec == Init /\ [][Next]_vars

----------------------------------------------------------------------------
(* Properties *)

Quiet == overlaps = 0 /\ faults = 0

(* "whatever order events arrive in, the write reflects Stripe's current   *)
(* truth at processing time" (sync.ts): without overlap or failure, once   *)
(* the events of the row's subscription were processed the row has the     *)
(* plan Stripe has, if its price maps to one, and a subscription that      *)
(* ended is not in the row; the seeds are always those of the plan.        *)
RowTracksStripe ==
  Quiet =>
    /\ row.seeds \in {row.plan, "none"}
    /\ row.sub = NoSub => row.plan = "free"
    /\ /\ row.sub # NoSub
       /\ \A n \in 1..Len(events) :
            /\ events[n].kind = "subscription"
            /\ events[n].sub = row.sub
            => events[n].times > 0
       => /\ Live(row.sub)
          /\ truth[row.sub].plan \in {Unmapped, row.plan}

(* "guards against a brand-new subscription being clobbered by the tail of *)
(* an old one's event stream" (the webhook route): without overlap or      *)
(* failure a subscription leaves the row when it has ended, or replaced by *)
(* another.  The code leaves two holes: another one that is paused, and    *)
(* the checkout event of another one that is canceled already.             *)
Holes(s) ==
  \E t \in Subs \ {s} :
    \/ truth[t].status = "paused"
    \/ /\ truth[t].status = "canceled"
       /\ \E n \in 1..Len(events) :
            /\ events[n].kind = "checkout"
            /\ events[n].sub = t
            /\ events[n].times = 0
LiveStaysInRow ==
  [][Quiet /\ row.sub # NoSub /\ row'.sub = NoSub
       => ~Live(row.sub) \/ Holes(row.sub)]_vars

(* "Ledger events on real transitions only" (sync.ts): what was started    *)
(* and not canceled is what the row has.  The code leaves a hole: a first  *)
(* subscription on an unmapped price leaves the row free, and each sync of *)
(* a free row's live subscription is told as its start.  The Ledger tells  *)
(* a start too often for nothing else, and never too few.                  *)
LedgerTellsTransitions ==
  Quiet /\ (\A h \in Handlers : handlers[h].at # "written") =>
    LET owed == IF row.sub = NoSub THEN 0 ELSE 1
    IN ledger \in owed..(owed + unpriced)

(* "exactly-once per event id": without a failure no event is processed    *)
(* twice, however deliveries overlap; and an event that was not processed  *)
(* is acknowledged only with its claim still in place (it is being         *)
(* processed, or was lost in a crash), unless deliveries overlapped.       *)
ExactlyOnce ==
  \A n \in 1..Len(events) :
    /\ faults = 0 => events[n].times <= 1
    /\ events[n].acked /\ events[n].times = 0 /\ overlaps = 0 =>
         events[n].claimed

(* "Exactly-once" in numbers, for overlapping deliveries too: the events   *)
(* that were processed twice, and those that Stripe takes for delivered    *)
(* although nobody has processed them or is about to, are paid for by      *)
(* failures, one each.  A duplicate that is answered 200 while the first   *)
(* delivery may still fail loses no event by itself.                       *)
InProcess(n) ==
  \E h \in Handlers :
    handlers[h].nth = n /\ handlers[h].at \in {"claimed", "fetched"}
Astray ==
  {n \in 1..Len(events) :
     \/ events[n].times > 1
     \/ events[n].acked /\ events[n].times = 0 /\ ~InProcess(n)}
AstrayOnlyByFault == Cardinality(Astray) <= faults

(* Both halves of "exactly-once per event id" (the webhook's claim and its *)
(* release): what fails is released and redelivered, and only failures     *)
(* cost an event.                                                          *)
ExactlyOnceButForFaults == ExactlyOnce /\ AstrayOnlyByFault
=============================================================================

# Verification of Kinetiks

TLA+ specifications of the core of Kinetiks: what lets agents act on a
customer's behalf, and what stops them. The models are translated from the
source; line numbers in this file refer to the repository root (`src/` in
`PROJECT.json`). TLC checks every specification on small instances, TLAPS proves
the most important properties for every value of the constants.

Run, in this directory: `tlc -config runtime_faults.cfg MCAgentRuntime`,
`tlapm AgentRuntime_proofs.tla`, and likewise for the others.

## 1. The system

Kinetiks is a platform (apps/id) with products on top (Harvest in apps/hv).
Agents run tools through a runtime package; consequential tools need the
customer's authority, either standing (an Authority Grant) or per action (an
approval). State lives in Postgres (Supabase), written by serverless handlers and
by hourly or nightly cron functions. There is no lock and, but for a few SQL functions,
no transaction that spans two statements: each handler is a chain of awaited
statements, each atomic, and any two handlers interleave between them. A
handler may die after any statement.

| Component | State | Operations | Correct when |
|---|---|---|---|
| Agent runtime (`packages/runtime/src/run.ts`, `authority.ts`) | invocation in memory, `kinetiks_daily_counters`, tool-call rows | invokeTool: resolve authority, reserve spend, retry loop, record, release | no effect without authority, cap and rate limit hold, reservations are exact |
| Authority Grant lifecycle (`lib/cortex/authority/lifecycle.ts`, `lib/approvals/authority-grant.ts`, migrations 00050, 00080) | `kinetiks_authority_grants` | propose, approve, reject, edit, pause, resume, revoke, narrow, expire | active means approved, one verdict, an audit entry per transition |
| Approval system (`lib/approvals/*`) | `kinetiks_approvals` | submit, approve, edit, reject, batch, flag, expire | decided once, carried out at most once, only when approved |
| Trust thresholds (`threshold.ts`, `threshold-math.ts`) | `kinetiks_approval_thresholds` | calibrate, override | trust grows by streaks, falls by rejections |
| Daily counters (migration 00080) | `kinetiks_daily_counters` | reserve, release | a number that behaves like a set of claims within a cap |
| System email (`lib/email/sender.ts`, `lib/calendar/prep.ts`, `api/marcus/brief`) | the counter `system_email`, claims in `kinetiks_inbound_events`, alerts | claim, reserve a slot, send, release, alert | a prep is delivered once and always lands, the cap holds |
| Cortex context proposals (`packages/cortex`, `expire-cron` 1 to 3) | `kinetiks_proposals`, context layers | submit, detect conflicts, merge, settle, route, answer, expire, supersede | accepted means merged, verdicts are final, what the customer entered stays |
| Harvest outreach (`apps/hv/src/lib/sequences`, `lib/email/send.ts`, the provider's webhook, `gmail-sync.ts`) | enrolments, emails, suppressions | enrol, execute a step, send, bounce, complain, open, reply | no step twice, no delay cut short, no mail after a stop, every enrolment ends |
| Billing (`api/billing/webhook`, `lib/billing/sync.ts`) | `kinetiks_billing`, claims of Stripe events | claim, fetch, write, log, release | the row follows Stripe whatever the order of the events |
| Default standing grants (`defaults.ts`, `defaults-diff.ts`) | grants and their origin key | accept at signup, nightly diff | one live grant per default, cooldown respected |
| Pattern library (`lib/patterns`) | patterns and their statistics | merge, decay, archive | merge order does not matter |
| Workflow dispatch (`packages/runtime/src/workflow-dispatch.ts`) | none beyond the run in memory | dispatch tasks one after the other | each task once, stop at the first failure |
| Outgoing webhooks (`webhook-retry`) | deliveries | send, retry | retried until given up |
| Collaborative workspace (`packages/collaborative`) | presence, active tasks | grab, undo, kill | one owner per field |
| Sentinel, Marcus, Oracle, Synapse/MCP, user interfaces | mostly none of their own | text review, conversation, statistics, adapters, presentation | see "not modelled" |

How they interact: the runtime *calls* the resolver (a read of the grants), the
counter (two SQL functions) and the approval pipeline; the pipeline *inserts*
approvals; a decision *calls* the runtime back (`executeApprovedAction`,
`preApproved: true`), the grant handlers (for grant proposals) or the Cortex
(for context edits) and then *calls* the calibration. `expire-cron` *updates*
proposals, approvals and grants behind everybody's back. All of them append to
`kinetiks_ledger`. Harvest and billing share no state with these: Harvest's cron
calls its own execute route, Stripe's webhook writes the billing row. The meeting
preps and the briefs call the system email sender, which takes its slots from the
same daily counters as the agents' spend.

What is hard: the daily counter under races, lost replies, midnight and crashes;
limits checked at resolution and consumed later; several tabs, Slack and a batch
deciding the same row; two-statement updates (grant, then approval row; successor,
then original; decision, then side effects) that fail or are overtaken between the
statements; read-modify-write of thresholds and of context layers; sweeps racing
decisions; cron invocations that overlap the one before; webhook events repeated and
out of order. `PROJECT.json`
lists each hazard at its line with the properties aimed at it.

## 2. The modules

### AgentRuntime, SpendEnvelope, AgentRuntime_proofs

`AgentRuntime` models `invokeTool` for invocations (`Calls`) of consequential
tools. `pc[c]` is the await the invocation is suspended in, so an action is one
database statement and the code up to the next await. Actions and code:

| Action | Code |
|---|---|
| FindCoveringGrant | `defaultAuthorityResolver` lookup and tie-breaker (active, not lapsed; narrowest, then latest) |
| CountRecent | the sliding-window read of the rate limit |
| EvaluateTriggers | per-action cap, budget attachment, escalation |
| ReserveSpend | `_kt_reserve_daily_counter` (migration 00080): conditional increment; a lost reply may leave it applied |
| RequestApproval, EnqueueEscalation, LogEscalation | the approval pipeline and the escalation handler |
| Attempt, Backoff | the retry loop, with timeouts whose mutation may have landed |
| RecordActionTaken | the `authority_action_taken` row the rate limit counts |
| ReleaseReservation | `_kt_release_daily_counter` in `finally`: on the reserved day, floored at zero |
| ApproveQueued, RejectQueued, GrantTransition, Lapse, AgeOut, NextDay, Crash | the environment |

`SpendEnvelope` is the abstract promise: for a grant and a day there is a set of
claims whose sum never exceeds the cap; a claim is held at most once and given
back at most once. The SQL counter only has a number. The mapping
`holders[g][d] = {c : c reserved on g for d and has not been given back}` makes
`ImplementsEnvelope` a refinement, checked by TLC and proved.

`Total`, the sum of the spends over a set of calls, is a constant with the
assumptions a sum satisfies (`TotalAssumption`), which TLC evaluates on the real
sum: no recursive operator is needed in a module with proofs.

### GrantLifecycle, GrantLifecycle_proofs

Rows `Grants`, each with its proposal's approval row; server calls `Requests`,
each a chain `proposing -> writing -> marking -> logging -> settling` of
statements (`at[r]`). `Begin` is the route's read of the row, `ProposeSuccessor`
the RPC that narrow and edit-and-approve call first, `Write` the guarded status
UPDATE (`Matches` is its filter, `Legal` the trigger), `LogNarrowed` and
`LogOutcome` the ledger inserts, `SettleApproval` the update of the approval row
in `learning-loop.ts`. `Fail` ends a request after any statement. `SweepApprovals` and
`SweepGrants` are sections 4 and 5 of `expire-cron`; `Lapse` and `FallDue` let time
pass. `decidedBy` and `verdict` record history and guard nothing but their own
bookkeeping.

### Approvals, Approvals_proofs

One account and one action category. `Evaluate` reads the threshold, `Submit`
inserts the row (confidence, classification and gates are computed in between from
inputs the model chooses). A request (`request[q]`, a record of its locals) is a
single decision, a batch over every pending quick approval, or a flag:
`claim -> execute -> calibrate -> count -> write -> log`, one action per await. A batch loops and
ends with `LogBatch`. Won, lost and failed claims are three actions: a
lost claim returns without error, so a batch lists the approval as approved. `FlagRow` is the unguarded UPDATE the
trigger of 00033 rejects for approved rows, with its error ignored.
`ReadThreshold`, `CountRejections`, `WriteThreshold` are the read-modify-write of
`calibrateThreshold`. `SetOverride` can happen at any time; when the category has
no row yet, the upsert creates one with the column default of 100, not with the
category's own default.

### ContextProposals, ProposalDesk, ContextProposals_proofs

One context layer of one account. A field is a scalar, a list or an object of keys; `Cells` are
the values of a layer, the fields and in their place the keys of those that are objects, and a
cell holds the set of proposals whose values are in it (none: null or absent). A draft names
fields (`payload`) and has values for cells (`sets`), so that a named field may be null and an
object may lack a key. `Conflicts`, `Sacred` and `Declines` are `conflict.ts` with its rule 1, which lets lists
and objects that gain a key through (`Extends`, `GainsKey`); `DeepMerged` and `Overwritten` are
the merges of an addition and of an update. A worker (`job[w]`, its locals) is the request that submits
a proposal, the `cortex-cron` that evaluates it again, or the customer's answer to
an escalated one; `Start` picks it up and `Detect` (validation and `detectConflicts`),
`ReadLayer`, `WriteLayer` (`mergeProposal`'s read and its overwrite of the whole row),
`Settle` (the guarded status update, which can be refused by the trigger or lost),
`CheckThrottle` and `Route` follow, one per await; `Answer`, `Consult`, `Upsert` are
`resolve-proposal.ts`. `SweepOverdue`, `SweepStale`, `FindSuperseded` and
`MarkSuperseded` are sections 1 to 3 of `expire-cron`. `Fail` ends a worker at any await.

`ProposalDesk` is the abstract promise: a proposal is accepted only when its content
has been written, closed and accepted are final, and superseding leaves one accepted
proposal standing. `ImplementsDesk` is the refinement
(`verdict[p]` from the status, `written` the proposals merged so far).

### OutreachSequences, OutreachSequences_proofs

One sequence and one enrolment per contact. A call is the id of a due enrolment on
its way from the list of one `sequence-cron` invocation (`Select`) through the execute
route: `Load`, then `RunOff` (past the last step), `Delay`, `Decide` (a condition:
stop, skip or go on) or the email path `CheckSuppression`, `Send`, `Mark`, `Move`,
with `Abandon` for a call that dies. What comes back is `Opened`, `Bounced`,
`Complained` (the provider's webhook), `Answer` and `SyncReply` (the Gmail sync), each of
which queues the update of the enrolment it makes later (`Stop`) or of the suppression list
(`Suppress`). `Tick` lets a day pass. `overlaps[c]` counts the calls listed while
another one for the same contact was on its way. One cron invocation lists the `BatchLimit`
oldest due rows of all accounts. The rows outside the model that matter to that are those
that never leave its head: an execution that fails (a suppressed address, a contact without email)
does not move `next_step_at`. `stuck` counts them and `Clog` adds one. Which other rows are older than a
contact's is left open, so `Select` may list any due one; `Reached(c)` says when the batch must come
to it.

### BillingSync, BillingSync_proofs

Stripe is external (`OpenCheckout`, `Complete`, `ChangePlan`, `Renew`, `Dun`,
`EndSub` change a subscription and note events; `Receive` delivers any event that was not
acknowledged, again if it likes). A handler is one delivery: `Receive` (with the read of
the billing row), `Claim` (the unique event id), `Fetch` (Stripe's current subscription),
`Write` (the row and the seeds, by `Synced`, `PlanOf`, `Resets` and the guard `OldTail`),
`Answer` (the Ledger, then 200), `Throw`, `Release` and `Crash`. A price may map to no configured plan
(`Unmapped`); the row then keeps the plan that was read. `unpriced` records the writes that left a live
subscription on a free row.

### SystemEmail, SystemEmail_proofs

A job is a brief the customer asked for, or the turn of one cron cycle on one meeting.
A prep is generated first, claimed second and delivered third (`Generate`, `Claim`); both
kinds go through `sendSystemEmail` (`ResolveOwner`, which also reads the day, `ReserveSlot`,
`Send`, `ReleaseSlot` or `RecordMail`); a prep ends with `Alert`, whatever the email leg
did (`AfterMail`). The counter is again that of migration 00080, and `ImplementsEnvelope`
maps it to the same `SpendEnvelope` as the runtime's: the holders of a day are the jobs
whose slot is counted on it.

### StandingGrants, ApprovalGate: what the components promise each other

`AgentRuntime` and `GrantLifecycle` meet in the rows of `kinetiks_authority_grants`, the first
as a reader. `StandingGrants` is the contract between them: a status moves along the trigger
of migration 00050, a grant becomes `expired` only once its `expires_at` has passed, and that
stays so; one statement may move several rows. `AgentRuntime` *assumes* it (its
`GrantTransition` and `Lapse` are the contract's), and `KeepsStandingGrants` shows that
`GrantLifecycle`, with its racing requests, failures and sweeps, *implements* it under the
mapping that takes a row not yet inserted for a proposed one. So the runtime's theorems
hold above the lifecycle as it is, without a product of the two state spaces.

`ApprovalGate` is what the approval queue promises of one waiting action: submitted once,
decided once, a decision is final (only an automatic one can be flagged afterwards), the
action started at most once and only once approved. Two components implement it, each its
`ImplementsGate`: `Approvals`, where several requests decide the same row and each carries out
what it believes it has approved, and `AgentRuntime`, whose escalated invocations wait in the
queue and are started again by it (`preApproved: true`; what `Approvals` counts in `carried` is one
such invocation). The approval rows of grant proposals do not go through the gate: the grant
is made active first and its row is settled afterwards (`learning-loop.ts:120`), so
`GrantLifecycle` states its own `VerdictIsFollowed` and `OneVerdict`.

`SpendEnvelope` is what the two users of the daily counters have in common: whoever relies on
a cap can rely on the envelope, whichever of the two modules stands behind it.

## 3. What the runs check

Deadlock checking is off in every run: an invocation, a request or a grant that
has ended stays ended, so a state with nothing left to do is legitimate. `SYMMETRY` is used in
safety runs of interchangeable ids only.

| Run | Bounds | Shows |
|---|---|---|
| `runtime_faults` | 2 calls of spend 1 and 2, cap 2, 2 attempts, 2 days, 2 faults | `DayCapHolds`, `ReservationsAreExact`, `GateFailsClosed`, the refinements `ImplementsEnvelope` and `ImplementsGate`, and `InvocationsEnd` |
| `runtime_selection` | 2 calls one at a time, 2 grants of different rank | `StoppedGrantStopsActing`: a revoked, expired or lapsed grant covers nothing new; `RateLimitHolds`, exact without overlap |
| `grants_decisions` | 2 grants, 2 requests, 1 fault, fair crons | `VerdictIsFollowed`, `SuccessionHolds`, `AuditTellsTruth`, `OneVerdict`, the refinement `KeepsStandingGrants`, and `DeadlinesAreMet` |
| `approvals_decisions` | 2 approvals, 2 requests, 2 faults, milestone 2, thresholds 0..4 | `TrustRestsOnApprovals`, `LedgerTellsTruth`, and the refinement `ImplementsGate`: decided once, carried out at most once and only if approved |
| `approvals_flag` | 1 approval, 2 requests, no fault | finding: `FlagTakesEffect` is violated |
| `approvals_trust` | 2 approvals, 3 requests, no fault | finding: `TrustGrowsOnlyByStreak` is violated |
| `proposals_verdicts` | 2 proposals of any of 6 kinds, 2 workers, a scalar, a list and an object of two keys, 1 fault | `AppsLearnAcceptedOnly`, `MergeRespectsLayer`, the refinement `ImplementsDesk`, and `SubmittedIsEvaluated` |
| `proposals_sacred` | the same | finding: `UserDataSacred` is violated |
| `sequences_calls` | 1 contact, 2 calls, 6 steps (mail, delay, two conditions, reminder, delay), 1 overlap, a batch of 2, 1 event, 1 fault | `RepeatsOnlyByOverlap`, `StoppedGetsNoMail`, `DelayIsWaited`, `EnrollmentsEnd` |
| `sequences_reply` | 1 contact, 1 call, a batch of 1, 2 events, no fault | finding: `AnswersAreRecorded` is violated |
| `billing_events` | 2 subscriptions, prices of a paid plan and of none, 5 events (4 when both happen), 2 handlers, 1 overlap, 1 fault | `RowTracksStripe`, `LedgerTellsTransitions`, `ExactlyOnceButForFaults`, `LiveStaysInRow` |
| `email_slots` | 2 cycles on one meeting and one on another, 1 brief, cap 1, 2 days, 2 faults | `ExactlyOnceButForFaults`, `OverCapOnlyByFault`, the refinement `ImplementsEnvelope`, and `FloorLands` |

Every passing run also checks its module's `TypeOK`, `runtime_selection` excepted.
`VerdictIsFollowed`, `SuccessionHolds`, `AuditTellsTruth`, `TrustRestsOnApprovals`,
`GateFailsClosed`, `ReservationsAreExact` (the counter is the sum of its reservations; those held
for nobody are no more than the failures) and `ExactlyOnceButForFaults` (of the emails and
of billing: no prep and no event twice; those lost are no more than the failures) are conjunctions of two named invariants each, which the
proof modules also prove one by one.

Why the bounds are enough. A race for a slot needs two contenders and a cap that
fits one; a leak needs an attempt, a retry and one failure; the wrong day needs
two days; a lost reply followed by a crash needs two faults. A proposal for a grant is
contested by two requests and the sweep, and edit or narrow needs an original and a
successor (two grants); a third request is covered by the proofs only. Approvals are
contested by two requests, one of which may be a batch of both; a milestone of 2 and
thresholds 0..4 put the clamps and the expansion within reach where the code has 20, 50
and 0..100 (both are constants). A merge is overtaken by one other worker, and a layer needs
one field whose values can be extended, one whose values cannot, and an object with a key of each kind. Executions of an enrolment
overlap in pairs, and a reminder after a delay and two conditions has every kind of step and
both kinds of condition; in a batch of two, one row that stays due changes nothing and two fill
it. Two subscriptions are the old one and the new one; five events are a checkout and a
change of one and the start and end of the other. An event is lost or repeated when a failure meets
a second delivery of it, which needs no more than the events of one checkout: once both an
overlap and a failure have happened, the constraint `Bound` stops at four. A prep is
contested by two cycles, and a cap of one is contested by the prep, another meeting and a
brief. Every property has a mutant of the code that
violates it under the same configuration (`PROJECT.json`, "mutants"; the mutated
definitions stand beside the originals, named `<definition>_<change>`).

### Fairness

- `AgentRuntime`: weak fairness of each invocation's own steps. A promise that has been
  awaited settles (the clients time out) and Node runs its continuation. Customers, agents,
  grants and clocks get none, and crashes are allowed.
- `GrantLifecycle`: weak fairness of the two sweeps, which pg_cron starts every hour
  (migration 00045); a sweep that fails is started again. Requests may die at any statement.
- `ContextProposals`: weak fairness of a worker's steps and strong fairness of `Start`:
  `cortex-cron` comes back to a proposal that is still submitted, and the workers of the
  model are a bound of its own that other proposals may keep busy for a while.
- `OutreachSequences`: weak fairness of executions, of the handlers' updates, of the reply
  sync and of the clock; strong fairness of `Select` where the batch reaches the contact
  (`Reached`). The cron takes the oldest due rows; those before a contact's are executed and move behind
  it, unless they are rows that stay due, so a batch that is not full of such rows comes
  to the contact some time. Strong, since the free call is the model's bound and not the cron's.
  Nothing is assumed of a full batch, and `EnrollmentsEnd` promises nothing once it stays full.
- `SystemEmail`: weak fairness of each job's own steps, as in the runtime; nobody has to
  start a job.
- `Approvals` and `BillingSync` state none: their properties are safety.

The liveness properties let the failures of the model happen (`faults` is bounded, so they
end), except that `FloorLands` promises nothing after one, as the code does not.

### Findings

Four runs end in a violation of what a document or a comment says:

1. **Flags of approved rows never take effect** (`learning-loop.ts:393`) and can be
   repeated, each time contracting trust.
2. **Calibrations overwrite each other** (`threshold.ts:109`): a stale
   approval undoes a rejection's contraction.
3. **What the customer entered is overwritten** (`evaluate.ts:307`): every merge stores
   its own source for the whole layer, so the edit of a customer ranks as a synapse's.
4. **Answers to opened emails are never recorded** (`gmail-sync.ts:83`): the first open
   takes an email out of the rows the reply sync reads.

Each is in `PROJECT.json` with the line it contradicts and the run that shows it.

### Known divergences without a run

Met while translating; the models contain them, or exclude them by name, and no property
claims the opposite. Paths as in the component's row above.

Authority and approvals:
- The rate limit is check-then-act (`authority.ts:680`): overlapping invocations exceed it,
  by no more than the overlap (`RateLimitHolds`), where `types/authority-grants.ts:119`
  speaks of a maximum.
- A spend whose attempt timed out after its mutation landed is given back (`run.ts:388`);
  `authority.ts:276-278` speaks of a spend that did not happen.
- An approval row can expire between the approval of its grant and the update of the row
  (`learning-loop.ts:120`); and a proposal whose row expires stays proposed with no way left to
  decide it.
- Narrowing revokes the predecessor when the successor is proposed (`lifecycle.ts:494`),
  where 00050:174-176 speaks of its approval.
- `propose_authority_grants` of 00080 drops the origin columns of 00059, which the unique index
  of 00055 and `fetchCoveredKeys` in `defaults-diff.ts` rely on.
- The first override of a category creates its row with the column's default of 100
  (`threshold.ts:140`), and the batch route reports the claims it lost as approved
  (`batch/route.ts:39`).

Cortex:
- "User explicit data is SACRED", "existing user entries are preserved" (`conflict.ts:126-129`) is
  broken in three ways, without any race. An `update` replaces a list (`evaluate.ts:304`), where only an
  `add` concatenates. A null is no conflict (`conflict.ts:212`), and an `update` writes it over the
  customer's value. An object that is to gain one key is let through (`conflict.ts:139-151`), and its
  other keys are overwritten by `deepMerge` (`evaluate.ts:446-459`), or lost to an `update`.
  `MergeRespectsLayer` names the three (`Holes`) and says that there is no fourth: each is needed, the run
  fails without it.

System email:
- A provider's lost answer gives back the slot of an email that left
  (`sender.ts:243-245`): the cap is exceeded by the lost answers, where `:172-173` says "we
  under-send, never over-send".
- A process that dies, or a lost reply, between the claim and the alert loses the prep
  (`prep.ts:119`): later cycles find the claim, where `:207` speaks of "the floor that always
  lands".

Harvest:
- Overlapping cron calls cut a delay short (`executor.ts:180-181`) and mail a step twice;
  a delay is added when its step is entered and again when it is executed.
- The webhook never executes its suppression inserts (`void admin.from(...).insert`,
  `api/webhooks/resend/route.ts:154,194`), and an error of the suppression check is ignored
  (`send.ts:97`).
- An error when loading the steps completes the enrolment early (`executor.ts:158,433`).
- The daily limit is not enforced for the default mailbox (`send.ts:49`, `132-150`), and
  `daily_sent_today` is never reset.
- Enrolments that fail without moving (suppressed addresses, contacts without email) stay the oldest,
  and fifty of them, of whatever account, fill the cron's batch (`sequence-cron/index.ts:18`, `49-56`):
  nobody else is executed any more. `EnrollmentsEnd` excepts that case; without the exception the run
  shows it.

Billing:
- The `invoice.*` branches write a status without a fetch (`webhook/route.ts:262-279`, against
  the header's 6-8); a duplicate is answered 200 while the first delivery may still fail
  (`127-129`), so that one failure can lose an event (never more: `AstrayOnlyByFault`); a stale fetch is written over a newer one under overlap.
- A first subscription on a price that maps to no plan leaves the row free (`sync.ts:83`), and each
  later sync of it is told to the Ledger as a start (`151`), where `145` speaks of "real transitions
  only". `LedgerTellsTransitions` allows one for each such write.
- A paused old subscription, or a late checkout event of a canceled one, takes a live one out
  of the row (`240-246`); two open checkouts make two live subscriptions
  (`checkout/route.ts:84-88`).

## 4. What is proved

All theorems hold for every value of the constants that satisfies the named
ASSUMEs: any number of calls, grants, approvals, requests, days and faults.

**AgentRuntime_proofs.** The inductive invariant is
`IInv == TypeOK /\ AllSane /\ BucketExact /\ UnderCap`. `DayCapHolds` is not
inductive: it says nothing of calls that hold a reservation and do not act yet.
`AllSane` ties each call's pc to what it holds (a reservation only on the grant it
looked up, an approval only once asked for, no reservation before reserving), and
`UnderCap` bounds everything committed, acting or not. Every step moves the spend in
one of three ways (a call's reservation is added with room for it, removed, or
untouched), `StepMovesSpend`; `SpendingStep` then gives `BucketExact` and `UnderCap`
from `TotalAssumption`. From `IInv`: `TypeCorrect`, `BucketIsExact`, `DayCapIsHeld`,
`SpendIsMetered`, `EffectsAreAuthorised`; `EnvelopeIsImplemented` maps the three kinds
of step to `Hold`, `GiveBack` and stuttering; `StoppedGrantStops` uses an invariant of its own
on top. `LeaksAreBounded` counts: the reservations that belong to no invocation which could
still use or return them (`Orphans`) are at most as many as the failures, because a failure
orphans one at most and nothing else does (`HeldIsInHand`). `GateIsImplemented` needs that an
invocation on its way to its first execution has made no attempt (`StartsUnattempted`), so
that the first attempt after the decision is the gate's one `Carry`.

**GrantLifecycle_proofs.** `IInv` adds to the properties that a grant leaves
`proposed` once and the verdict records how (`GrantSane`), and that a request past its
write is the one the grant names in `decidedBy`, or acts on a successor the
predecessor links know (`RequestSane`): the two facts that make the loser of a race
unable to settle or log. `SpecIsSane` is `Spec => []IInv`, with one lemma per group of
actions; `ActiveGrantsWereApproved`, `ApprovalsAreTruthful`, `LedgerIsTruthful`,
`SuccessorsOutrank`, `ReplacementsExist` follow, and `ProposalsAreDecidedOnce` is the action
property. `StandingGrantsAreKept` is the contract of section 2, step by step; `SweepGrants` moves all
overdue grants in one step of it.

**Approvals_proofs.** `IInv` rests on the claim. `Alone`: no two requests are about to
count the same approval, because an approval leaves `pending` once and only the winner goes
on (`AloneStays`). `Settled` are the approved rows nobody is about to count, and every
threshold row in play, stored or in a request's `snap`, is `Backed`: its counters do not
exceed `Settled`. The counters alone are not inductive, since a stale `snap` is
written later; but a write moves one approval into `Settled` and adds one (`CleanBacked`), and
`Settled` only grows (`SettledGrows`), so an overwrite can lose decisions and not invent them.
`CarriedOutAtMostOnce`, `CarriedOnlyIfApproved`, `TrustAlwaysBacked`, `TrustAlwaysEarned` and
`LedgerAlwaysTrue` follow; the last one needs that what a batch lists has left the queue.
The set of approvals is assumed finite (`ApprovalAssumption`): its rows are counted.
`GateIsImplemented` follows from the claim too: a lost claim stutters, a won one decides.
Two theorems mark out the finding of `approvals_trust`. `NeverStale` says that a request about
to write a threshold row has the stored one in its hand. `TrustGrowsByStreakUnlessStale`: under
`[]NeverStale` the property that run refutes holds, whatever else overlaps or fails, so the
stale read is all that is wrong. `TrustMissesOnlyByFault`: under it the counter misses at
most one approval for each failure. Both are conditional on purpose; the
model's own behaviours include stale ones, which is the finding.

**ContextProposals_proofs.** The invariant says what a worker may rely on where it waits:
its proposal has been inserted (`Busy`), the layer it read is the layer unless somebody
overtook it (`Fresh`), what it is about to accept has been merged (`Earned`), and what it is
about to route has been accepted. `MergesRespectLayer` is the action property: a worker
about to merge that nobody overtook was judged on the layer it will write (`JudgementKept`), so that on a
layer the customer confirmed each conflict of its proposal is one that rule 1 lets through, and
`CellRespected` goes through the cells of such a field;
`KeepsDesk` maps every step to one of the desk's or to a stutter, and needs that what the sweep
is about to supersede leaves a newer accepted proposal outside its list.
`EvaluationsEnd` is described below, with the other descents.

**OutreachSequences_proofs.** The part for calls says what a call knows at its await; the
part for contacts, valid as long as no two calls for the contact overlapped, that its only call
stands at the enrolment's step, that the days still to wait make up what is missing of the
delays, and that no later step has been mailed. `StepsRepeatOnlyByOverlap`,
`DelaysAreWaited` and `StoppedContactsGetNoMail` follow, for any sequence of steps, and
`EnrollmentsGoForward`: without overlap an enrolment never goes back.

**BillingSync_proofs.** One invariant in two halves. Always: who holds the claim of an event,
and that no two handlers do. Without overlap or failure: a handler read the row it will write,
and whatever Stripe changed since is announced by an event not yet processed (`QuietRow`).
The second half is what makes "any order" true: an event that is late writes what Stripe has now.
For the Ledger, a free row with a live subscription (`Odd`) owes one start that will be told again: its sum lies
between what the row owes and that plus the `unpriced` writes, one less while the row is such a row (`Fits`).
`AstrayIsCounted` needs neither: for any overlap and any failures, the events processed twice and
those lost are at most as many as the failures. `Astray` alone is not inductive, for the harm
shows long after its cause: a failure first leaves an event *spoiled* (processed and claimable
again, or unprocessed with its claim kept and nobody at it), and a later delivery, itself
without fault, repeats it or answers 200. Each failure spoils one event at most
(`OneSpoiledPerFault`), and no other step spoils any. `EventsLandExactlyOnce` is both.

**SystemEmail_proofs.** `Sane` says what a job holds at its await, `CounterSane` that a day's
counter is the number of its holders and within the cap, `LostSane` that the emails whose slot
was given back are no more than the failures, `ClaimSane` that at most one job of a meeting got past
its claim. The cap on emails is not inductive alone: an email may outlive its slot, and `Lost`
counts those. `SlotsAreAnEnvelope` is the refinement. `PrepsDeliverOnce` says at most once; the
other half is `ClaimsLand`: the prep of a claimed meeting is in a job's hands or in the app
(`InHand`), or adrift, and the number adrift is at most the number of failures, since
a failure or a crash strands one job. `PrepsLandExactlyOnce` is both.

Two additions to the modules above: `AuditIsTruthful` (with `AuditIsComplete`, whose invariant
`AuditInv` says that each transition is in the Ledger or on the way there in a request that
has not failed) and `RateLimitIsHeld`: the calls that acted inside the window (`Spent`) and those
that were counted and have not acted are at most the limit and the overlap together.

**The safety half of liveness.** That something ends needs fairness, which the prover cannot
use; that it cannot go on for ever, once it is scheduled, is an action property it can. Each of
these theorems gives a rank that every step of the process lowers and no other step raises but
its start (an approval restarts an invocation once):
`InvocationsDescend` (the rank is at most `2 * MaxAttempts + 7`), `RequestsEnd` (eight
for each approval still in a batch), `EvaluationsEnd`, `EnrollmentsGoForward` and `JobsDescend`
(seven). The last three also say what the end is worth: a worker that ends by itself leaves a
verdict, unless the first row of the layer appeared between its read and its insert, which
happens once; a call that ends without a failure has moved its enrolment on, or found it
stopped or suppressed; a claimed prep is in a job's hands until it is in the app (`ClaimsLand`).

**Model-checked only**: `InvocationsEnd`, `DeadlinesAreMet`, `SubmittedIsEvaluated`,
`EnrollmentsEnd` and `FloorLands`: liveness under fairness is out of the prover's reach.
Every other property of a passing run is a theorem.

## 5. What is not modelled

- In modelled parts: validation of payloads, matching of a capability's scope
  (the grants of a model cover the action class), nested grant bundles, ledger
  wording, edit analysis and the proposals it generates, the two gates and the
  confidence formula (the outcome is a choice), intervention signals of the
  embedded reference surface, budget ledgers beyond the daily counter.
- Of the context layers: objects inside objects, values of another shape than their field, confidence scores, the approval card of an
  edit. Of Harvest: mailbox counters, the sequence's pause, campaigns, Sentinel's verdict, the
  other accounts' enrolments but for those that stay due. Of billing: signatures, the card's digits, the portal. Of the
  system email: the recipient policy, texts, and the Slack leg, which shares no state.
- Default standing grants: the proposals they make enter the lifecycle that is modelled
  (signup acceptance is `AcceptDefault`); the nightly diff is not.
- Workflow dispatch runs its tasks one after the other and keeps no state of its own; each task is
  an operator call or a routing event.
- Outgoing webhooks: one cron at a time retries rows on its own. Rows of inactive webhooks keep
  their `next_retry_at`, and fifty of them fill the batch of `webhook-retry`.
- Escalation triggers and judgment budgets are predicates over an action; the runtime's model
  takes their verdict as a free choice. The pattern library is real-valued statistics.
- Sentinel, Marcus and Oracle are prompts, model calls and statistics; Synapse, MCP and
  connections are protocol adapters; the collaborative workspace is presence over a realtime
  channel; interfaces are presentation. None keeps the control state the properties are about.

## 6. Plan

Done, in this order: `AgentRuntime` with `SpendEnvelope`, `GrantLifecycle`, `Approvals`,
`ContextProposals` with `ProposalDesk`, `OutreachSequences`, `BillingSync`, `SystemEmail`, each
with its proofs; then `StandingGrants` and `ApprovalGate`, which compose the first three.

Left, in order:

1. `DefaultGrants`: nightly diff, rejection and cooldown, with the origin columns that 00080
   drops. Abstract promise: at most one live grant per default.
2. The contract that is still implicit: the Cortex as the target of approved context edits
   (`executeApprovedAction`), as a third user of `ApprovalGate`.
3. Judgment budgets as a third user of a daily limit; `PatternLibrary`'s Welford merge as a function
   against a reference definition over scaled integers.
4. Outgoing webhooks with the batch's limit, and the collaborative tasks.

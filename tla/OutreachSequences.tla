------------------------- MODULE OutreachSequences -------------------------
(***************************************************************************)
(* Harvest's outreach sequences: enrolment (apps/hv/src/lib/sequences/     *)
(* enroll.ts), the step executor (executor.ts) behind the internal route   *)
(* sequences/execute, which sequence-cron calls every minute, the sender   *)
(* (lib/email/send.ts), and what comes back: the provider's webhook        *)
(* (api/webhooks/resend) and the Gmail reply sync (lib/inbox/gmail-sync).  *)
(*                                                                         *)
(* One sequence, whose steps do not change.  A call is the id of a due     *)
(* enrolment on its way from the list of one cron invocation through the   *)
(* execute route; the cron's calls time out and its invocations overlap,   *)
(* so calls interleave freely.  Time passes in days: due is the number of  *)
(* days until next_step_at.                                                *)
(***************************************************************************)
EXTENDS Integers, Sequences, FiniteSets

CONSTANTS
  Contacts,   \* contacts with an email address, and their one enrolment each
  Calls,      \* bound: executions on their way at the same time
  LastStep,   \* the index of the last step
  Steps,      \* hv_sequences.steps, counted from 0
  NoContact,  \* the contact of an idle call
  MaxDays,    \* the longest delay_days of a step
  BatchLimit,   \* the enrolments one cron invocation lists
  MaxOverlaps,  \* bound: calls listed while another is on its way, by contact
  MaxHeard,     \* bound: webhook events and answers
  MaxFaults     \* bound: failed statements, lost replies and crashes

End == LastStep + 1

Conditions == {"replied", "opened", "bounced"}

ASSUME StepsAssumption ==
  /\ LastStep \in Nat
  /\ DOMAIN Steps = 0..LastStep
  /\ \A s \in 0..LastStep :
        /\ Steps[s].type \in {"email", "delay", "condition"}
        /\ Steps[s].type = "delay" => Steps[s].days \in 1..MaxDays
        /\ Steps[s].type = "condition" =>
             /\ Steps[s].condition \in Conditions
             /\ Steps[s].action \in {"stop", "skip"}
  /\ MaxDays \in Nat
  /\ BatchLimit \in Nat \ {0}
  /\ {MaxOverlaps, MaxHeard, MaxFaults} \subseteq Nat
  /\ NoContact \notin Contacts

VARIABLES
  enrollment,  \* contact -> status, current_step, days until next_step_at
  joining,     \* contacts whose enrolment passed its checks
  mail,        \* contact -> step -> the messages that left, in order
  suppressed,  \* contacts whose address is in hv_suppressions
  stuck,       \* other accounts' enrolments that are due and stay it
  calls,       \* call -> where it is, for which contact, what it read
  stopping,    \* <<contact, status>>: enrolment updates a handler has to make
  since,       \* contact -> days since its last message, at most MaxDays
  overlaps,    \* contact -> calls listed while another was on its way
  heard,       \* webhook events and answers so far
  faults       \* failures so far

vars == <<enrollment, joining, mail, suppressed, stuck, calls, stopping, since,
          overlaps, heard, faults>>
listVars == <<joining, suppressed, stuck>>
inboxVars == <<mail, since, heard>>

StepIds == 0..LastStep
Places == {"idle", "queued", "loaded", "sending", "unchecked", "marking",
           "moving"}
Idle == [at |-> "idle", contact |-> NoContact, step |-> 0, to |-> 0,
         nth |-> 0]
Message == [status : {"draft", "sent", "opened", "bounced"},
            opened : BOOLEAN, answered : BOOLEAN, replied : BOOLEAN]

Enrollment == [status : {"none", "active", "completed", "bounced", "replied"},
               step : 0..End, due : 0..MaxDays]
Call == [at : Places, contact : Contacts \cup {NoContact}, step : 0..End,
         to : 0..End, nth : Nat]

TypeOK ==
  /\ enrollment \in [Contacts -> Enrollment]
  /\ joining \in SUBSET Contacts
  /\ mail \in [Contacts -> [StepIds -> Seq(Message)]]
  /\ suppressed \in SUBSET Contacts
  /\ stuck \in 0..BatchLimit
  /\ calls \in [Calls -> Call]
  /\ stopping \in SUBSET (Contacts \X {"bounced", "replied"})
  /\ since \in [Contacts -> 0..MaxDays]
  /\ overlaps \in [Contacts -> 0..MaxOverlaps]
  /\ heard \in 0..MaxHeard
  /\ faults \in 0..MaxFaults

Init ==
  /\ enrollment = [c \in Contacts |-> [status |-> "none", step |-> 0, due |-> 0]]
  /\ joining = {}
  /\ mail = [c \in Contacts |-> [s \in StepIds |-> <<>>]]
  /\ suppressed = {}
  /\ stuck = 0
  /\ calls = [k \in Calls |-> Idle]
  /\ stopping = {}
  /\ since = [c \in Contacts |-> 0]
  /\ overlaps = [c \in Contacts |-> 0]
  /\ heard = 0
  /\ faults = 0

----------------------------------------------------------------------------
(* Helpers *)

Fault == faults < MaxFaults /\ faults' = faults + 1
Active(c) == enrollment[c].status = "active"
CallsOf(c) == {k \in Calls : calls[k].at # "idle" /\ calls[k].contact = c}

(* What the cron selects; the mutant forgets the filter on next_step_at.   *)
DueNow_AnyTime(c) == Active(c)
DueNow(c) == Active(c) /\ enrollment[c].due = 0

(* What the execute route loads; the mutant takes the cron's word for it.  *)
Loadable_Unfiltered(c) == TRUE
Loadable(c) == Active(c)

(* calculateNextStepAt, calculateFirstStepAt: entering a delay step adds   *)
(* its delay, and executing it adds the delay once more.                   *)
WaitOf(s) == IF Steps[s].type = "delay" THEN Steps[s].days ELSE 0

(* advanceStep with markCompleted: by id alone, whatever the status became.*)
MovedTo(e, s) ==
  IF s >= End THEN [e EXCEPT !.status = "completed"]
  ELSE [e EXCEPT !.step = s, !.due = WaitOf(s)]

(* executeDelayStep; the mutant stays on the delay.                        *)
Delayed_Stays(e, s) == [e EXCEPT !.due = Steps[s].days]
Delayed(e, s) == [e EXCEPT !.step = s + 1, !.due = Steps[s].days]

(* The engagement signals of executeConditionStep. *)
Met(c, condition) ==
  \E s \in StepIds : \E i \in 1..Len(mail[c][s]) :
    \/ condition = "replied" /\ mail[c][s][i].replied
    \/ condition = "opened" /\ mail[c][s][i].opened
    \/ condition = "bounced" /\ mail[c][s][i].status = "bounced"

(* Where a condition step leads. *)
After(c, s) ==
  IF ~Met(c, Steps[s].condition) THEN s + 1
  ELSE IF Steps[s].action = "stop" \/ s + 2 >= End THEN End ELSE s + 2

Put(k, at) == calls' = [calls EXCEPT ![k].at = at]
Finish(k) == calls' = [calls EXCEPT ![k] = Idle]
Rewrite(c, s, i, m) == mail' = [mail EXCEPT ![c][s][i] = m]

----------------------------------------------------------------------------
(* Enrolment *)

(* The checks of enrollContact: the address is not suppressed, and there   *)
(* is no enrolment yet.  An error of the first check is not looked at.     *)
CheckContact(c) ==
  /\ c \notin joining
  /\ enrollment[c].status = "none"
  /\ \/ c \notin suppressed /\ UNCHANGED faults
     \/ c \in suppressed /\ Fault
  /\ joining' = joining \cup {c}
  /\ UNCHANGED <<enrollment, suppressed, stuck, inboxVars, calls, stopping,
                 overlaps>>

(* The insert; UNIQUE(contact_id, sequence_id) lets one of them through.   *)
Enroll(c) ==
  /\ c \in joining
  /\ joining' = joining \ {c}
  /\ enrollment' = [enrollment EXCEPT ![c] =
       IF @.status = "none"
       THEN [status |-> "active", step |-> 0, due |-> WaitOf(0)] ELSE @]
  /\ UNCHANGED <<suppressed, stuck, inboxVars, calls, stopping, overlaps,
                 faults>>

----------------------------------------------------------------------------
(* Executing a step *)

(* A cron invocation puts a due enrolment on its list, which ends after    *)
(* BatchLimit of them, the oldest next_step_at first.  Which enrolments    *)
(* are older is left open: any due one may be among them.                  *)
Select(k, c) ==
  /\ calls[k].at = "idle"
  /\ DueNow(c)
  /\ calls' = [calls EXCEPT ![k] = [Idle EXCEPT !.at = "queued", !.contact = c]]
  /\ \/ CallsOf(c) = {} /\ UNCHANGED overlaps
     \/ /\ CallsOf(c) # {}
        /\ overlaps[c] < MaxOverlaps
        /\ overlaps' = [overlaps EXCEPT ![c] = @ + 1]
  /\ UNCHANGED <<enrollment, listVars, inboxVars, stopping, faults>>

(* The execute route reads the enrolment, if it is still active. *)
Load(k) ==
  /\ calls[k].at = "queued"
  /\ LET c == calls[k].contact
     IN  IF Loadable(c)
         THEN calls' = [calls EXCEPT ![k].at = "loaded",
                                     ![k].step = enrollment[c].step]
         ELSE Finish(k)
  /\ UNCHANGED <<enrollment, listVars, inboxVars, stopping, overlaps, faults>>

(* An enrolment that is past its last step is completed. *)
RunOff(k) ==
  /\ calls[k].at = "loaded"
  /\ calls[k].step = End
  /\ calls' = [calls EXCEPT ![k].at = "moving", ![k].to = End]
  /\ UNCHANGED <<enrollment, listVars, inboxVars, stopping, overlaps, faults>>

(* Delay: one update, whose error is not looked at. *)
Delay(k) ==
  /\ calls[k].at = "loaded"
  /\ calls[k].step \in StepIds
  /\ Steps[calls[k].step].type = "delay"
  /\ \/ /\ enrollment' = [enrollment EXCEPT ![calls[k].contact] =
                            Delayed(@, calls[k].step)]
        /\ UNCHANGED faults
     \/ Fault /\ UNCHANGED enrollment
  /\ Finish(k)
  /\ UNCHANGED <<listVars, inboxVars, stopping, overlaps>>

(* Condition: the emails are read, and the enrolment is moved afterwards.  *)
(* An error of the read counts as no signal.                               *)
Decide(k) ==
  /\ calls[k].at = "loaded"
  /\ calls[k].step \in StepIds
  /\ Steps[calls[k].step].type = "condition"
  /\ \/ /\ calls' = [calls EXCEPT ![k].at = "moving",
                       ![k].to = After(calls[k].contact, calls[k].step)]
        /\ UNCHANGED faults
     \/ /\ Fault
        /\ calls' = [calls EXCEPT ![k].at = "moving",
                       ![k].to = calls[k].step + 1]
  /\ UNCHANGED <<enrollment, listVars, inboxVars, stopping, overlaps>>

(* Email: the draft, then hv_check_suppression.  A suppressed address and  *)
(* a failure before the check leave the enrolment where it is; an error of *)
(* the check itself is not looked at, and the message goes out.            *)
CheckSuppression(k) ==
  /\ calls[k].at = "loaded"
  /\ calls[k].step \in StepIds
  /\ Steps[calls[k].step].type = "email"
  /\ \/ calls[k].contact \notin suppressed /\ Put(k, "sending") /\ UNCHANGED faults
     \/ calls[k].contact \in suppressed /\ Finish(k) /\ UNCHANGED faults
     \/ Fault /\ Finish(k)
     \/ Fault /\ Put(k, "unchecked")
  /\ UNCHANGED <<enrollment, listVars, inboxVars, stopping, overlaps>>

(* The provider takes the message or not; or takes it and the answer is    *)
(* lost, which counts as a failure.                                        *)
Draft == [status |-> "draft", opened |-> FALSE, answered |-> FALSE,
          replied |-> FALSE]
Leaves(c, s) ==
  /\ mail' = [mail EXCEPT ![c][s] = Append(@, Draft)]
  /\ since' = [since EXCEPT ![c] = 0]
  /\ UNCHANGED heard
Send(k) ==
  /\ calls[k].at \in {"sending", "unchecked"}
  /\ LET c == calls[k].contact
         s == calls[k].step
     IN  \/ /\ Leaves(c, s)
            /\ calls' = [calls EXCEPT ![k].at = "marking",
                                      ![k].nth = Len(mail[c][s]) + 1]
            /\ UNCHANGED faults
         \/ Leaves(c, s) /\ Fault /\ Finish(k)
         \/ UNCHANGED inboxVars /\ Fault /\ Finish(k)
  /\ UNCHANGED <<enrollment, listVars, stopping, overlaps>>

(* The email row becomes sent, or the error is not looked at; then the     *)
(* steps are read again, and an error of that read is a sequence of no     *)
(* steps.  The mutant reports a failure once the message is out.           *)
Sent(k) ==
  LET c == calls[k].contact
      s == calls[k].step
      i == calls[k].nth
  IN  Rewrite(c, s, i, [mail[c][s][i] EXCEPT !.status = "sent"])
Mark_Fails(k) ==
  /\ calls[k].at = "marking"
  /\ Sent(k)
  /\ Finish(k)
  /\ UNCHANGED <<enrollment, listVars, since, heard, stopping, overlaps, faults>>
Mark(k) ==
  /\ calls[k].at = "marking"
  /\ \/ /\ Sent(k)
        /\ UNCHANGED faults
        /\ calls' = [calls EXCEPT ![k].at = "moving",
                                  ![k].to = calls[k].step + 1]
     \/ /\ Fault
        /\ \/ Sent(k) /\ calls' = [calls EXCEPT ![k].at = "moving", ![k].to = End]
           \/ /\ UNCHANGED mail
              /\ calls' = [calls EXCEPT ![k].at = "moving",
                                        ![k].to = calls[k].step + 1]
  /\ UNCHANGED <<enrollment, listVars, since, heard, stopping, overlaps>>

(* The enrolment moves on; an error of the update is not looked at. *)
Move(k) ==
  /\ calls[k].at = "moving"
  /\ \/ /\ enrollment' = [enrollment EXCEPT ![calls[k].contact] =
                            MovedTo(@, calls[k].to)]
        /\ UNCHANGED faults
     \/ Fault /\ UNCHANGED enrollment
  /\ Finish(k)
  /\ UNCHANGED <<listVars, inboxVars, stopping, overlaps>>

(* The server dies, or a read before the step fails. *)
Abandon(k) ==
  /\ calls[k].at # "idle"
  /\ Fault
  /\ Finish(k)
  /\ UNCHANGED <<enrollment, listVars, inboxVars, stopping, overlaps>>

----------------------------------------------------------------------------
(* What comes back *)

Hear == heard < MaxHeard /\ heard' = heard + 1

(* email.opened and email.clicked: the first of them overwrites status.    *)
Opened(c, s, i) ==
  /\ Hear
  /\ ~mail[c][s][i].opened
  /\ Rewrite(c, s, i, [mail[c][s][i] EXCEPT !.opened = TRUE,
                                            !.status = "opened"])
  /\ UNCHANGED <<enrollment, listVars, calls, stopping, since, overlaps,
                 faults>>

(* email.bounced.  The insert into hv_suppressions is built and never      *)
(* awaited, so it is not sent; the update of the enrolments is sent, and   *)
(* lands later.                                                            *)
Bounced(c, s, i) ==
  /\ Hear
  /\ mail[c][s][i].status # "bounced"
  /\ Rewrite(c, s, i, [mail[c][s][i] EXCEPT !.status = "bounced"])
  /\ stopping' = stopping \cup {<<c, "bounced">>}
  /\ UNCHANGED <<enrollment, listVars, calls, since, overlaps, faults>>

(* email.complained: the same for the row and the suppression, and nothing *)
(* for the enrolment.  The mutant gives the row a status of its own.       *)
Complained_OwnStatus(c, s, i) ==
  /\ Hear
  /\ mail[c][s][i].status # "bounced"
  /\ Rewrite(c, s, i, [mail[c][s][i] EXCEPT !.status = "complained"])
  /\ UNCHANGED <<enrollment, listVars, calls, stopping, since, overlaps,
                 faults>>
Complained(c, s, i) ==
  /\ Hear
  /\ mail[c][s][i].status # "bounced"
  /\ Rewrite(c, s, i, [mail[c][s][i] EXCEPT !.status = "bounced"])
  /\ UNCHANGED <<enrollment, listVars, calls, stopping, since, overlaps,
                 faults>>

(* The contact answers: the answer is in the Gmail inbox. *)
Answer(c, s, i) ==
  /\ Hear
  /\ ~mail[c][s][i].answered
  /\ Rewrite(c, s, i, [mail[c][s][i] EXCEPT !.answered = TRUE])
  /\ UNCHANGED <<enrollment, listVars, calls, stopping, since, overlaps,
                 faults>>

(* syncGmailReplies looks at the emails that are sent and have no reply;   *)
(* an opened one is no longer among them.                                  *)
InSync(m) == m.status = "sent" /\ ~m.replied
SyncReply(c, s, i) ==
  /\ InSync(mail[c][s][i])
  /\ mail[c][s][i].answered
  /\ Rewrite(c, s, i, [mail[c][s][i] EXCEPT !.replied = TRUE])
  /\ stopping' = stopping \cup {<<c, "replied">>}
  /\ UNCHANGED <<enrollment, listVars, calls, since, heard, overlaps,
                 faults>>

(* The update of the contact's active enrolment, or its loss. *)
Stop(c, s) ==
  /\ <<c, s>> \in stopping
  /\ stopping' = stopping \ {<<c, s>>}
  /\ \/ /\ enrollment' = [enrollment EXCEPT ![c].status =
                            IF @ = "active" THEN s ELSE @]
        /\ UNCHANGED faults
     \/ Fault /\ UNCHANGED enrollment
  /\ UNCHANGED <<listVars, inboxVars, calls, overlaps>>

(* The customer suppresses the address: the insert of the contact's        *)
(* deletion, or of the suppression list's own route.                       *)
Suppress(c) ==
  /\ c \notin suppressed
  /\ suppressed' = suppressed \cup {c}
  /\ UNCHANGED <<enrollment, joining, stuck, inboxVars, calls, stopping,
                 overlaps, faults>>

(* One more enrolment outside the model, of any account, fails whenever it *)
(* is executed: its contact is suppressed or has no email address, its     *)
(* sequence is gone.  It stays active and due, and older than the rest.    *)
Clog ==
  /\ stuck < BatchLimit
  /\ stuck' = stuck + 1
  /\ UNCHANGED <<enrollment, joining, suppressed, inboxVars, calls, stopping,
                 overlaps, faults>>

(* A day passes. *)
Tick ==
  /\ \E c \in Contacts : enrollment[c].due > 0 \/ since[c] < MaxDays
  /\ enrollment' = [c \in Contacts |->
       [enrollment[c] EXCEPT !.due = IF @ > 0 THEN @ - 1 ELSE 0]]
  /\ since' = [c \in Contacts |->
       IF since[c] < MaxDays THEN since[c] + 1 ELSE since[c]]
  /\ UNCHANGED <<mail, heard, listVars, calls, stopping, overlaps, faults>>

Execute(k) ==
  \/ Load(k) \/ RunOff(k) \/ Delay(k) \/ Decide(k) \/ CheckSuppression(k)
  \/ Send(k) \/ Mark(k) \/ Move(k)

Feedback(c) ==
  \E s \in StepIds : \E i \in 1..Len(mail[c][s]) :
    Opened(c, s, i) \/ Bounced(c, s, i) \/ Complained(c, s, i)
    \/ Answer(c, s, i) \/ SyncReply(c, s, i)

Next ==
  \/ \E k \in Calls :
        \/ Execute(k) \/ Abandon(k)
        \/ \E c \in Contacts : Select(k, c)
  \/ \E c \in Contacts :
        \/ CheckContact(c) \/ Enroll(c) \/ Feedback(c) \/ Suppress(c)
        \/ \E s \in {"bounced", "replied"} : Stop(c, s)
  \/ Clog \/ Tick

Spec == Init /\ [][Next]_vars

(* The rows the batch may be filled with for good: those that never leave  *)
(* its head because their next_step_at stays.  All others that are older   *)
(* than c's are executed and move behind it, so that a batch with a place  *)
(* left comes to c; without one, c may never be listed again.              *)
Reached(c) ==
  stuck + Cardinality({d \in Contacts \ {c} : d \in suppressed /\ DueNow(d)})
    < BatchLimit

(* The cron runs every minute, and its batch comes to every due enrolment  *)
(* while it is not filled with rows that stay due, however few slots the   *)
(* model has for its calls; requests get their replies; the reply sync is  *)
(* scheduled; time passes.  Nothing makes the contact, the customer or the *)
(* provider's webhook act.                                                 *)
FairSpec ==
  /\ Spec
  /\ WF_vars(Tick)
  /\ \A k \in Calls : WF_vars(Execute(k))
  /\ \A c \in Contacts :
       /\ SF_vars(\E k \in Calls : Reached(c) /\ Select(k, c))
       /\ WF_vars(\E s \in {"bounced", "replied"} : Stop(c, s))
       /\ WF_vars(\E s \in StepIds : \E i \in 1..Len(mail[c][s]) :
                    SyncReply(c, s, i))
----------------------------------------------------------------------------
(* Properties *)

(* An execution that has not read the enrolment yet when it stopped being  *)
(* active (a reply, a bounce, the end), or the suppression list when the   *)
(* address entered it, never mails the contact.  The exception is the code's*)
(* own: a check that fails lets the message out.                           *)
Stopped(c) == enrollment[c].status \notin {"none", "active"}
Underway(c) == \E k \in CallsOf(c) : calls[k].at # "queued"
Checked(c) == \E k \in CallsOf(c) : calls[k].at = "sending"
Mailing(c) == \E k \in CallsOf(c) : calls[k].at \in {"sending", "unchecked"}
StoppedGetsNoMail ==
  \A c \in Contacts :
    /\ [](Stopped(c) /\ ~Underway(c) => []~Mailing(c))
    /\ [](c \in suppressed /\ ~Checked(c) => []~Checked(c))

(* Without a failure, a step is mailed twice only when two calls for the   *)
(* enrolment were on their way together.                                   *)
RepeatsOnlyByOverlap ==
  faults = 0 =>
    \A c \in Contacts, s \in StepIds : overlaps[c] = 0 => Len(mail[c][s]) <= 1

(* "The CRON will pick this up once the delay has elapsed" (executor.ts):  *)
(* the first message of a step comes no sooner after the one before than   *)
(* the delays between them, unless two calls overlapped.                   *)
SkippedTo(d) ==
  /\ d > 0
  /\ Steps[d - 1].type = "condition"
  /\ Steps[d - 1].action = "skip"
Waits(s) ==
  {d \in StepIds :
     /\ d < s
     /\ Steps[d].type = "delay"
     /\ ~SkippedTo(d)
     /\ \A t \in StepIds : d < t /\ t < s => Steps[t].type # "email"}
DelayIsWaited ==
  [][\A c \in Contacts, s \in StepIds :
       /\ overlaps[c] = 0
       /\ mail[c][s] = <<>>
       /\ mail'[c][s] # <<>>
       => \A d \in Waits(s) : since[c] >= Steps[d].days]_vars

(* An enrolment ends: completed, replied or bounced, unless the address is *)
(* suppressed, or from some time on the cron's batch (BATCH_LIMIT) is full *)
(* of enrolments that stay due.  Fewer of them than the batch holds do not *)
(* keep it from its end.                                                   *)
EnrollmentsEnd ==
  \A c \in Contacts :
    Active(c) ~> Stopped(c) \/ c \in suppressed \/ []~Reached(c)

(* "Queries sent emails that have no reply recorded, searches Gmail for    *)
(* matching replies [...] and updates hv_emails with reply data"           *)
(* (gmail-sync.ts): an answer to a message is recorded some day, if the    *)
(* message has not bounced.                                                *)
Holds(c, s, P(_)) == \E i \in 1..Len(mail[c][s]) : P(mail[c][s][i])
AnswersAreRecorded ==
  \A c \in Contacts, s \in StepIds :
    Holds(c, s, LAMBDA m : m.answered)
      ~> Holds(c, s, LAMBDA m : m.replied \/ m.status \in {"bounced", "draft"})
=============================================================================

---------------------- MODULE OutreachSequences_proofs ----------------------
(***************************************************************************)
(* Proofs about OutreachSequences, for every sequence of steps, every set  *)
(* of contacts and of calls and every bound.                               *)
(*                                                                         *)
(* The invariant has a part for calls, what a call knows at the place      *)
(* where it waits, and one for contacts: as long as no two calls for a     *)
(* contact have overlapped, its only call has the step the enrolment is    *)
(* at, the days still to wait make up what is missing of the delays, and   *)
(* no later step has been mailed.                                          *)
(***************************************************************************)
EXTENDS OutreachSequences, SequenceTheorems, TLAPS

----------------------------------------------------------------------------
(* The inductive invariant *)

(* Where a call that is not at a delay may take its enrolment. *)
Onward(s, t) ==
  /\ Steps[s].type # "delay"
  /\ \/ t = s + 1
     \/ /\ t = s + 2
        /\ Steps[s].type = "condition"
        /\ Steps[s].action = "skip"

CallSane(k) ==
  /\ calls[k].at # "idle" => calls[k].contact \in Contacts
  /\ calls[k].at \in {"sending", "unchecked", "marking"} =>
       calls[k].step \in StepIds /\ Steps[calls[k].step].type = "email"
  /\ calls[k].at = "marking" =>
       calls[k].nth \in 1..Len(mail[calls[k].contact][calls[k].step])
  /\ calls[k].at = "moving" =>
       \/ calls[k].to = End
       \/ calls[k].step \in StepIds /\ Onward(calls[k].step, calls[k].to)

OnlyEmails(c) ==
  \A s \in StepIds : mail[c][s] # <<>> => Steps[s].type = "email"

Absent(c) ==
  enrollment[c].status = "none" =>
    /\ enrollment[c].step = 0
    /\ CallsOf(c) = {}
    /\ \A s \in StepIds : mail[c][s] = <<>>

Alone(c) ==
  overlaps[c] = 0 =>
    \A k \in CallsOf(c) :
      /\ \A l \in CallsOf(c) : l = k
      /\ enrollment[c].due = 0
      /\ calls[k].at # "queued" => calls[k].step = enrollment[c].step

Spaced(c) ==
  overlaps[c] = 0 =>
    LET s == enrollment[c].step
    IN  (s \in StepIds => mail[c][s] = <<>>) =>
          \A d \in Waits(s) : since[c] + enrollment[c].due >= Steps[d].days

Once(c) ==
  faults = 0 /\ overlaps[c] = 0 =>
    /\ \A s \in StepIds :
         /\ Len(mail[c][s]) <= 1
         /\ s > enrollment[c].step => mail[c][s] = <<>>
         /\ s = enrollment[c].step /\ mail[c][s] # <<>> =>
              \/ ~Active(c)
              \/ \E k \in CallsOf(c) : calls[k].at \in {"marking", "moving"}
    /\ \A k \in CallsOf(c) :
         calls[k].at \in {"loaded", "sending", "unchecked"} =>
           (calls[k].step \in StepIds => mail[c][calls[k].step] = <<>>)

ContactSane(c) ==
  OnlyEmails(c) /\ Absent(c) /\ Alone(c) /\ Spaced(c) /\ Once(c)

IInv ==
  /\ TypeOK
  /\ \A k \in Calls : CallSane(k)
  /\ \A c \in Contacts : ContactSane(c)

----------------------------------------------------------------------------
(* Type correctness *)

LEMMA Sizes ==
  /\ End \in Nat /\ End = LastStep + 1 /\ StepIds = 0..LastStep
  /\ LastStep \in Nat /\ 0 \in StepIds /\ 0 \in 0..End /\ End \in 0..End
  /\ \A s \in StepIds : s \in 0..End /\ s + 1 \in 0..End /\ s \in Int
  /\ \A t \in 0..End : t \in Int /\ (t < End => t \in StepIds)
  /\ MaxDays \in Nat /\ MaxOverlaps \in Nat /\ MaxHeard \in Nat
  /\ MaxFaults \in Nat /\ BatchLimit \in Nat
  /\ \A s \in StepIds :
       /\ Steps[s].type = "delay" => Steps[s].days \in 1..MaxDays
       /\ Steps[s].type = "delay" => Steps[s].type # "email"
       /\ Steps[s].type = "condition" => Steps[s].type # "email"
BY StepsAssumption DEF End, StepIds

LEMMA Values ==
  /\ Idle \in Call
  /\ Draft \in Message
  /\ \A s \in StepIds : WaitOf(s) \in 0..MaxDays
<1>1. Idle \in Call
  BY Sizes DEF Idle, Call, Places
<1>2. Draft \in Message
  BY DEF Draft, Message
<1>3. \A s \in StepIds : WaitOf(s) \in 0..MaxDays
  BY Sizes DEF WaitOf
<1> QED
  BY <1>1, <1>2, <1>3

LEMMA CallForms ==
  ASSUME TypeOK, NEW k \in Calls
  PROVE  /\ calls \in [Calls -> Call] /\ calls[k] \in Call
         /\ \A p \in Places : Put(k, p) => calls' \in [Calls -> Call]
         /\ Finish(k) => calls' \in [Calls -> Call]
         /\ \A p \in Places, t \in 0..End :
              calls' = [calls EXCEPT ![k].at = p, ![k].to = t]
                => calls' \in [Calls -> Call]
         /\ \A p \in Places, n \in Nat :
              calls' = [calls EXCEPT ![k].at = p, ![k].nth = n]
                => calls' \in [Calls -> Call]
         /\ \A p \in Places, t \in 0..End :
              calls' = [calls EXCEPT ![k].at = p, ![k].step = t]
                => calls' \in [Calls -> Call]
<1>1. calls \in [Calls -> Call] /\ calls[k] \in Call
  BY DEF TypeOK
<1>2. ASSUME NEW p \in Places, Put(k, p) PROVE calls' \in [Calls -> Call]
  <2>1. [calls[k] EXCEPT !.at = p] \in Call
    BY <1>1 DEF Call
  <2> QED
    BY <1>1, <1>2, <2>1 DEF Put
<1>3. ASSUME Finish(k) PROVE calls' \in [Calls -> Call]
  BY <1>1, <1>3, Values DEF Finish
<1>4. ASSUME NEW p \in Places, NEW t \in 0..End,
             calls' = [calls EXCEPT ![k].at = p, ![k].to = t]
      PROVE  calls' \in [Calls -> Call]
  <2>1. [calls[k] EXCEPT !.at = p, !.to = t] \in Call
    BY <1>1 DEF Call
  <2> QED
    BY <1>1, <1>4, <2>1
<1>5. ASSUME NEW p \in Places, NEW n \in Nat,
             calls' = [calls EXCEPT ![k].at = p, ![k].nth = n]
      PROVE  calls' \in [Calls -> Call]
  <2>1. [calls[k] EXCEPT !.at = p, !.nth = n] \in Call
    BY <1>1 DEF Call
  <2> QED
    BY <1>1, <1>5, <2>1
<1>6. ASSUME NEW p \in Places, NEW t \in 0..End,
             calls' = [calls EXCEPT ![k].at = p, ![k].step = t]
      PROVE  calls' \in [Calls -> Call]
  <2>1. [calls[k] EXCEPT !.at = p, !.step = t] \in Call
    BY <1>1 DEF Call
  <2> QED
    BY <1>1, <1>6, <2>1
<1> QED
  BY <1>1, <1>2, <1>3, <1>4, <1>5, <1>6

(* Writing one email row changes no other and no number of messages.       *)
LEMMA RewriteKeeps ==
  ASSUME TypeOK, NEW c \in Contacts, NEW s \in StepIds,
         NEW i \in 1..Len(mail[c][s]), NEW m \in Message, Rewrite(c, s, i, m)
  PROVE  /\ mail' \in [Contacts -> [StepIds -> Seq(Message)]]
         /\ \A d \in Contacts, t \in StepIds :
              /\ Len(mail'[d][t]) = Len(mail[d][t])
              /\ mail'[d][t] = <<>> <=> mail[d][t] = <<>>
<1> DEFINE q == mail[c][s]
<1>1. q \in Seq(Message) /\ mail \in [Contacts -> [StepIds -> Seq(Message)]]
  BY DEF TypeOK
<1>2. [q EXCEPT ![i] = m] \in Seq(Message) /\ Len([q EXCEPT ![i] = m]) = Len(q)
  BY <1>1, ExceptSeq
<1>3. mail' = [mail EXCEPT ![c] = [mail[c] EXCEPT ![s] = [q EXCEPT ![i] = m]]]
  BY <1>1 DEF Rewrite
<1>4. mail' \in [Contacts -> [StepIds -> Seq(Message)]]
  BY <1>1, <1>2, <1>3
<1>5. ASSUME NEW d \in Contacts, NEW t \in StepIds
      PROVE  Len(mail'[d][t]) = Len(mail[d][t])
  BY <1>1, <1>2, <1>3
<1>6. ASSUME NEW d \in Contacts, NEW t \in StepIds
      PROVE  mail'[d][t] = <<>> <=> mail[d][t] = <<>>
  <2>1. mail'[d][t] \in Seq(Message) /\ mail[d][t] \in Seq(Message)
    BY <1>1, <1>4
  <2> QED
    BY <2>1, <1>5, EmptySeq
<1> QED
  BY <1>4, <1>5, <1>6

(* A message that leaves is one more at its step. *)
LEMMA LeavesAppends ==
  ASSUME TypeOK, NEW c \in Contacts, NEW s \in StepIds, Leaves(c, s)
  PROVE  /\ mail' \in [Contacts -> [StepIds -> Seq(Message)]]
         /\ since' \in [Contacts -> 0..MaxDays]
         /\ Len(mail'[c][s]) = Len(mail[c][s]) + 1
         /\ mail'[c][s] # <<>>
         /\ Len(mail[c][s]) \in Nat
         /\ \A d \in Contacts, t \in StepIds :
              ~(d = c /\ t = s) => mail'[d][t] = mail[d][t]
<1> DEFINE q == mail[c][s]
<1>1. q \in Seq(Message) /\ mail \in [Contacts -> [StepIds -> Seq(Message)]]
  BY DEF TypeOK
<1>2. /\ Append(q, Draft) \in Seq(Message)
      /\ Append(q, Draft) # <<>>
      /\ Len(Append(q, Draft)) = Len(q) + 1
  BY <1>1, Values, AppendProperties
<1>3. mail' = [mail EXCEPT ![c] = [mail[c] EXCEPT ![s] = Append(q, Draft)]]
  BY <1>1 DEF Leaves
<1>4. since' \in [Contacts -> 0..MaxDays]
  BY Sizes DEF Leaves, TypeOK
<1>5. Len(q) \in Nat
  BY <1>1, LenProperties
<1>6. mail' \in [Contacts -> [StepIds -> Seq(Message)]]
  BY <1>1, <1>2, <1>3
<1>7. mail'[c][s] = Append(q, Draft)
  BY <1>1, <1>3
<1>8. ASSUME NEW d \in Contacts, NEW t \in StepIds, ~(d = c /\ t = s)
      PROVE  mail'[d][t] = mail[d][t]
  BY <1>1, <1>3, <1>8
<1> QED
  BY <1>2, <1>4, <1>5, <1>6, <1>7, <1>8

LEMMA EnrollmentForms ==
  ASSUME NEW e \in Enrollment
  PROVE  /\ \A t \in 0..End : MovedTo(e, t) \in Enrollment
         /\ \A s \in StepIds :
              Steps[s].type = "delay" => Delayed(e, s) \in Enrollment
         /\ [e EXCEPT !.due = IF @ > 0 THEN @ - 1 ELSE 0] \in Enrollment
         /\ \A v \in {"bounced", "replied"} :
              [e EXCEPT !.status = IF @ = "active" THEN v ELSE @] \in Enrollment
<1>1. ASSUME NEW t \in 0..End PROVE MovedTo(e, t) \in Enrollment
  <2>1. t < End => WaitOf(t) \in 0..MaxDays
    BY Sizes, Values
  <2> QED
    <3>1. CASE t >= End
      BY <3>1 DEF MovedTo, Enrollment
    <3>2. CASE t < End
      <4>1. MovedTo(e, t) = [e EXCEPT !.step = t, !.due = WaitOf(t)]
        BY <3>2, Sizes DEF MovedTo
      <4> QED
        BY <2>1, <3>2, <4>1 DEF Enrollment
    <3> QED
      BY <3>1, <3>2, Sizes
<1>2. ASSUME NEW s \in StepIds, Steps[s].type = "delay"
      PROVE  Delayed(e, s) \in Enrollment
  <2>1. s + 1 \in 0..End /\ Steps[s].days \in 0..MaxDays
    BY <1>2, Sizes
  <2> QED
    BY <2>1 DEF Delayed, Enrollment
<1>3. [e EXCEPT !.due = IF @ > 0 THEN @ - 1 ELSE 0] \in Enrollment
  <2>1. (IF e.due > 0 THEN e.due - 1 ELSE 0) \in 0..MaxDays
    BY Sizes DEF Enrollment
  <2> QED
    BY <2>1 DEF Enrollment
<1>4. ASSUME NEW v \in {"bounced", "replied"}
      PROVE  [e EXCEPT !.status = IF @ = "active" THEN v ELSE @] \in Enrollment
  BY DEF Enrollment
<1> QED
  BY <1>1, <1>2, <1>3, <1>4

LEMMA FaultForm == TypeOK /\ Fault => faults' \in 0..MaxFaults /\ faults' # 0
BY Sizes DEF TypeOK, Fault

LEMMA AfterForm ==
  ASSUME NEW c, NEW s \in StepIds, Steps[s].type = "condition"
  PROVE  /\ After(c, s) \in 0..End
         /\ s + 1 \in 0..End
         /\ After(c, s) = End \/ Onward(s, After(c, s))
         /\ Onward(s, s + 1)
BY Sizes, StepsAssumption DEF After, Onward

(* Another account's enrolment that stays due touches nothing else.        *)
LEMMA ClogAside ==
  Clog => UNCHANGED <<enrollment, joining, mail, suppressed, calls, stopping,
                      since, heard, overlaps, faults>>
BY DEF Clog, inboxVars

LEMMA ClogIsTyped == TypeOK /\ Clog => TypeOK'
<1> SUFFICES ASSUME TypeOK, Clog PROVE TypeOK'
  OBVIOUS
<1>1. stuck' \in 0..BatchLimit
  BY Sizes DEF TypeOK, Clog
<1> QED
  BY <1>1, ClogAside DEF TypeOK

LEMMA EnrolmentIsTyped ==
  ASSUME TypeOK, NEW c \in Contacts,
         CheckContact(c) \/ Enroll(c) \/ Suppress(c) \/ Tick
  PROVE  TypeOK'
<1>1. CASE CheckContact(c)
  BY <1>1, FaultForm DEF CheckContact, TypeOK, inboxVars
<1>2. CASE Enroll(c)
  <2>1. [status |-> "active", step |-> 0, due |-> WaitOf(0)] \in Enrollment
    <3>1. WaitOf(0) \in 0..MaxDays /\ 0 \in 0..End
      BY Sizes, Values
    <3> QED
      BY <3>1 DEF Enrollment
  <2>2. enrollment' \in [Contacts -> Enrollment]
    BY <1>2, <2>1 DEF Enroll, TypeOK
  <2> QED
    BY <1>2, <2>2 DEF Enroll, TypeOK, inboxVars
<1>3. CASE Suppress(c)
  BY <1>3 DEF Suppress, TypeOK, inboxVars
<1>4. CASE Tick
  <2>1. enrollment' \in [Contacts -> Enrollment]
    <3>1. \A d \in Contacts : enrollment[d] \in Enrollment
      BY DEF TypeOK
    <3> QED
      BY <1>4, <3>1, EnrollmentForms DEF Tick
  <2>2. since' \in [Contacts -> 0..MaxDays]
    BY <1>4, Sizes DEF Tick, TypeOK
  <2> QED
    BY <1>4, <2>1, <2>2 DEF Tick, TypeOK, listVars
<1> QED
  BY <1>1, <1>2, <1>3, <1>4

LEMMA FeedbackIsTyped ==
  ASSUME TypeOK, NEW c \in Contacts,
         Feedback(c) \/ \E v \in {"bounced", "replied"} : Stop(c, v)
  PROVE  TypeOK'
<1>1. CASE Feedback(c)
  <2> PICK s \in StepIds : \E i \in 1..Len(mail[c][s]) :
         \/ Opened(c, s, i) \/ Bounced(c, s, i) \/ Complained(c, s, i)
         \/ Answer(c, s, i) \/ SyncReply(c, s, i)
    BY <1>1 DEF Feedback
  <2> PICK i \in 1..Len(mail[c][s]) :
         \/ Opened(c, s, i) \/ Bounced(c, s, i) \/ Complained(c, s, i)
         \/ Answer(c, s, i) \/ SyncReply(c, s, i)
    OBVIOUS
  <2> DEFINE m == mail[c][s][i]
  <2>1. m \in Message
    <3>1. mail[c][s] \in Seq(Message)
      BY DEF TypeOK
    <3> QED
      BY <3>1, ElementOfSeq
  <2>2. /\ [m EXCEPT !.opened = TRUE, !.status = "opened"] \in Message
        /\ [m EXCEPT !.status = "bounced"] \in Message
        /\ [m EXCEPT !.answered = TRUE] \in Message
        /\ [m EXCEPT !.replied = TRUE] \in Message
    BY <2>1 DEF Message
  <2>3. mail' \in [Contacts -> [StepIds -> Seq(Message)]]
    BY <2>2, RewriteKeeps
       DEF Opened, Bounced, Complained, Answer, SyncReply
  <2>4. stopping' \in SUBSET (Contacts \X {"bounced", "replied"})
    BY DEF TypeOK, Opened, Bounced, Complained, Answer, SyncReply
  <2>5. heard' \in 0..MaxHeard
    BY Sizes DEF TypeOK, Opened, Bounced, Complained, Answer, SyncReply, Hear
  <2> QED
    BY <2>3, <2>4, <2>5
       DEF TypeOK, Opened, Bounced, Complained, Answer, SyncReply, listVars
<1>2. ASSUME NEW v \in {"bounced", "replied"}, Stop(c, v) PROVE TypeOK'
  <2>1. enrollment' \in [Contacts -> Enrollment]
    <3>1. enrollment[c] \in Enrollment
      BY DEF TypeOK
    <3>2. [enrollment[c] EXCEPT !.status = IF @ = "active" THEN v ELSE @]
            \in Enrollment
      BY <3>1, EnrollmentForms
    <3> QED
      BY <1>2, <3>2 DEF Stop, TypeOK
  <2>2. faults' \in 0..MaxFaults
    BY <1>2, FaultForm DEF Stop, TypeOK
  <2> QED
    BY <1>2, <2>1, <2>2 DEF Stop, TypeOK, listVars, inboxVars
<1> QED
  BY <1>1, <1>2

LEMMA StepIsTyped ==
  ASSUME IInv, NEW k \in Calls,
         Load(k) \/ RunOff(k) \/ Delay(k) \/ Decide(k) \/ CheckSuppression(k)
         \/ Abandon(k) \/ Move(k)
  PROVE  TypeOK'
<1> DEFINE c == calls[k].contact
<1>1. TypeOK /\ CallSane(k) /\ calls[k] \in Call
  BY DEF IInv, TypeOK
<1>2. calls[k].at # "idle" => c \in Contacts /\ enrollment[c] \in Enrollment
  BY <1>1 DEF CallSane, TypeOK
<1>3. calls[k].step \in 0..End /\ calls[k].to \in 0..End
  BY <1>1 DEF Call
<1>4. CASE Load(k)
  <2>1. Loadable(c) => enrollment[c].step \in 0..End
    BY <1>2, <1>4 DEF Load, Enrollment
  <2>2. calls' \in [Calls -> Call]
    BY <1>1, <1>4, <2>1, CallForms DEF Load, Places
  <2> QED
    BY <1>1, <1>4, <2>2 DEF Load, TypeOK, listVars, inboxVars
<1>5. CASE RunOff(k)
  <2>1. calls' \in [Calls -> Call]
    BY <1>1, <1>5, CallForms, Sizes DEF RunOff, Places
  <2> QED
    BY <1>1, <1>5, <2>1 DEF RunOff, TypeOK, listVars, inboxVars
<1>6. CASE Delay(k)
  <2>1. calls' \in [Calls -> Call]
    BY <1>1, <1>6, CallForms DEF Delay
  <2>2. Delayed(enrollment[c], calls[k].step) \in Enrollment
    BY <1>2, <1>6, EnrollmentForms DEF Delay
  <2>3. enrollment' \in [Contacts -> Enrollment]
    BY <1>1, <1>2, <1>6, <2>2 DEF Delay, TypeOK
  <2>4. faults' \in 0..MaxFaults
    BY <1>1, <1>6, FaultForm DEF Delay, TypeOK
  <2> QED
    BY <1>1, <1>6, <2>1, <2>3, <2>4 DEF Delay, TypeOK, listVars, inboxVars
<1>7. CASE Decide(k)
  <2>1. After(c, calls[k].step) \in 0..End /\ calls[k].step + 1 \in 0..End
    BY <1>7, AfterForm DEF Decide
  <2>2. calls' \in [Calls -> Call]
    BY <1>1, <1>7, <2>1, CallForms DEF Decide, Places
  <2>3. faults' \in 0..MaxFaults
    BY <1>1, <1>7, FaultForm DEF Decide, TypeOK
  <2> QED
    BY <1>1, <1>7, <2>2, <2>3 DEF Decide, TypeOK, listVars, inboxVars
<1>8. CASE CheckSuppression(k)
  <2>1. calls' \in [Calls -> Call]
    BY <1>1, <1>8, CallForms DEF CheckSuppression, Places
  <2>2. faults' \in 0..MaxFaults
    BY <1>1, <1>8, FaultForm DEF CheckSuppression, TypeOK
  <2> QED
    BY <1>1, <1>8, <2>1, <2>2 DEF CheckSuppression, TypeOK, listVars, inboxVars
<1>9. CASE Abandon(k)
  <2>1. calls' \in [Calls -> Call] /\ faults' \in 0..MaxFaults
    BY <1>1, <1>9, CallForms, FaultForm DEF Abandon
  <2> QED
    BY <1>1, <1>9, <2>1 DEF Abandon, TypeOK, listVars, inboxVars
<1>10. CASE Move(k)
  <2>1. calls' \in [Calls -> Call]
    BY <1>1, <1>10, CallForms DEF Move
  <2>2. MovedTo(enrollment[c], calls[k].to) \in Enrollment
    BY <1>2, <1>3, <1>10, EnrollmentForms DEF Move
  <2>3. enrollment' \in [Contacts -> Enrollment]
    BY <1>1, <1>2, <1>10, <2>2 DEF Move, TypeOK
  <2>4. faults' \in 0..MaxFaults
    BY <1>1, <1>10, FaultForm DEF Move, TypeOK
  <2> QED
    BY <1>1, <1>10, <2>1, <2>3, <2>4 DEF Move, TypeOK, listVars, inboxVars
<1> QED
  BY <1>4, <1>5, <1>6, <1>7, <1>8, <1>9, <1>10

(* The messages a mark rewrites. *)
LEMMA SentRewrites ==
  ASSUME IInv, NEW k \in Calls, calls[k].at = "marking"
  PROVE  /\ calls[k].contact \in Contacts /\ calls[k].step \in StepIds
         /\ calls[k].nth \in 1..Len(mail[calls[k].contact][calls[k].step])
         /\ [mail[calls[k].contact][calls[k].step][calls[k].nth]
               EXCEPT !.status = "sent"] \in Message
<1> DEFINE c == calls[k].contact
           s == calls[k].step
           i == calls[k].nth
<1>1. c \in Contacts /\ s \in StepIds /\ i \in 1..Len(mail[c][s])
  BY DEF IInv, CallSane
<1>2. mail[c][s] \in Seq(Message)
  BY <1>1 DEF IInv, TypeOK
<1>3. mail[c][s][i] \in Message
  BY <1>1, <1>2, ElementOfSeq
<1>4. [mail[c][s][i] EXCEPT !.status = "sent"] \in Message
  BY <1>3 DEF Message
<1> QED
  BY <1>1, <1>4

LEMMA SendingIsTyped ==
  ASSUME IInv, NEW k \in Calls,
         Send(k) \/ Mark(k) \/ \E c \in Contacts : Select(k, c)
  PROVE  TypeOK'
<1> DEFINE c == calls[k].contact
           s == calls[k].step
<1>1. TypeOK /\ CallSane(k) /\ calls[k] \in Call
  BY DEF IInv, TypeOK
<1>2. CASE Send(k)
  <2>1. c \in Contacts /\ s \in StepIds
    BY <1>1, <1>2 DEF Send, CallSane
  <2>2. faults' \in 0..MaxFaults
    BY <1>1, <1>2, FaultForm DEF Send, TypeOK
  <2>3. /\ mail' \in [Contacts -> [StepIds -> Seq(Message)]]
        /\ since' \in [Contacts -> 0..MaxDays]
        /\ heard' = heard
    BY <1>1, <1>2, <2>1, LeavesAppends DEF Send, Leaves, inboxVars, TypeOK
  <2>4. Len(mail[c][s]) + 1 \in Nat
    <3>1. mail[c][s] \in Seq(Message)
      BY <1>1, <2>1 DEF TypeOK
    <3> QED
      BY <3>1, LenProperties
  <2>5. calls' \in [Calls -> Call]
    BY <1>1, <1>2, <2>4, CallForms DEF Send, Places
  <2> QED
    BY <1>1, <1>2, <2>2, <2>3, <2>5 DEF Send, TypeOK, listVars
<1>3. CASE Mark(k)
  <2>1. faults' \in 0..MaxFaults
    BY <1>1, <1>3, FaultForm DEF Mark, TypeOK
  <2>2. mail' \in [Contacts -> [StepIds -> Seq(Message)]]
    <3>1. CASE Sent(k)
      BY <1>1, <1>3, <3>1, SentRewrites, RewriteKeeps DEF Mark, Sent
    <3> QED
      BY <1>1, <1>3, <3>1 DEF Mark, TypeOK
  <2>3. s + 1 \in 0..End
    BY <1>3, SentRewrites, Sizes DEF Mark
  <2>4. calls' \in [Calls -> Call]
    BY <1>1, <1>3, <2>3, CallForms, Sizes DEF Mark, Places
  <2> QED
    BY <1>1, <1>3, <2>1, <2>2, <2>4 DEF Mark, TypeOK, listVars
<1>4. ASSUME NEW d \in Contacts, Select(k, d) PROVE TypeOK'
  <2>1. [Idle EXCEPT !.at = "queued", !.contact = d] \in Call
    BY Values DEF Call, Places
  <2>2. calls' \in [Calls -> Call]
    BY <1>1, <1>4, <2>1 DEF Select, TypeOK
  <2>3. overlaps' \in [Contacts -> 0..MaxOverlaps]
    <3>1. overlaps \in [Contacts -> 0..MaxOverlaps]
      BY <1>1 DEF TypeOK
    <3>2. overlaps[d] < MaxOverlaps => overlaps[d] + 1 \in 0..MaxOverlaps
      BY <3>1, Sizes
    <3> QED
      BY <1>4, <3>1, <3>2 DEF Select
  <2> QED
    BY <1>1, <1>4, <2>2, <2>3 DEF Select, TypeOK, listVars, inboxVars
<1> QED
  BY <1>2, <1>3, <1>4

LEMMA TypeIsKept == IInv /\ [Next]_vars => TypeOK'
<1> SUFFICES ASSUME IInv, [Next]_vars PROVE TypeOK'
  OBVIOUS
<1>1. TypeOK
  BY DEF IInv
<1>2. CASE \E k \in Calls : Execute(k) \/ Abandon(k)
  BY <1>2, StepIsTyped, SendingIsTyped DEF Execute
<1>3. CASE \E k \in Calls, c \in Contacts : Select(k, c)
  BY <1>3, SendingIsTyped
<1>4. CASE \E c \in Contacts : CheckContact(c) \/ Enroll(c) \/ Suppress(c)
  BY <1>1, <1>4, EnrolmentIsTyped
<1>5. CASE \E c \in Contacts :
             Feedback(c) \/ \E v \in {"bounced", "replied"} : Stop(c, v)
  BY <1>1, <1>5, FeedbackIsTyped
<1>6. CASE Tick
  <2>1. CASE Contacts = {}
    BY <1>1, <1>6, <2>1 DEF Tick
  <2> QED
    BY <1>1, <1>6, <2>1, EnrolmentIsTyped
<1>7. CASE UNCHANGED vars
  BY <1>1, <1>7 DEF vars, TypeOK
<1>8. CASE Clog
  BY <1>1, <1>8, ClogIsTyped
<1> QED
  BY <1>2, <1>3, <1>4, <1>5, <1>6, <1>7, <1>8 DEF Next

----------------------------------------------------------------------------
(* The parts of the invariant: what a step leaves alone *)

(* What rewriting a call does to the calls of the contacts.                *)
LEMMA OneCall ==
  ASSUME TypeOK, NEW k \in Calls, NEW r \in Call,
         calls' = [calls EXCEPT ![k] = r]
  PROVE  /\ calls'[k] = r
         /\ \A l \in Calls : l # k => calls'[l] = calls[l]
         /\ \A c \in Contacts :
              /\ \A l \in CallsOf(c) : l # k => calls'[l] = calls[l]
              /\ r.at # "idle" /\ r.contact = c =>
                   CallsOf(c)' = CallsOf(c) \cup {k}
              /\ r.at # "idle" /\ r.contact = c /\ k \in CallsOf(c) =>
                   CallsOf(c)' = CallsOf(c)
              /\ r.at = "idle" => CallsOf(c)' = CallsOf(c) \ {k}
              /\ c # calls[k].contact \/ calls[k].at = "idle" =>
                   k \notin CallsOf(c)
              /\ r.contact # c /\ k \notin CallsOf(c) =>
                   CallsOf(c)' = CallsOf(c)
BY DEF TypeOK, CallsOf

LEMMA Finished ==
  ASSUME TypeOK, NEW k \in Calls, Finish(k)
  PROVE  \A c \in Contacts :
           /\ CallsOf(c)' = CallsOf(c) \ {k}
           /\ \A l \in CallsOf(c) : l # k => calls'[l] = calls[l]
<1>1. Idle \in Call /\ Idle.at = "idle"
  BY Values DEF Idle
<1> QED
  BY <1>1, OneCall DEF Finish

(* A contact whose enrolment, mail and calls a step leaves as they are.    *)
LEMMA Untouched ==
  ASSUME TypeOK, TypeOK', NEW c \in Contacts, ContactSane(c),
         enrollment'[c].step = enrollment[c].step,
         enrollment'[c].due = enrollment[c].due,
         enrollment'[c].status = "none" => enrollment[c].status = "none",
         enrollment'[c].status = "active" => enrollment[c].status = "active",
         \A s \in StepIds :
           /\ Len(mail'[c][s]) = Len(mail[c][s])
           /\ mail'[c][s] = <<>> <=> mail[c][s] = <<>>,
         since'[c] = since[c],
         overlaps'[c] = overlaps[c],
         faults' = 0 => faults = 0,
         CallsOf(c)' = CallsOf(c),
         \A k \in CallsOf(c) : calls'[k] = calls[k]
  PROVE  ContactSane(c)'
<1>1. OnlyEmails(c)'
  BY DEF ContactSane, OnlyEmails
<1>2. Absent(c)'
  BY DEF ContactSane, Absent
<1>3. Alone(c)'
  BY DEF ContactSane, Alone
<1>4. Spaced(c)'
  BY DEF ContactSane, Spaced, Waits, SkippedTo
<1>5. Once(c)'
  BY DEF ContactSane, Once, Active
<1> QED
  BY <1>1, <1>2, <1>3, <1>4, <1>5 DEF ContactSane

LEMMA InitIsSane == Init => IInv
<1> SUFFICES ASSUME Init PROVE IInv
  OBVIOUS
<1>1. TypeOK
  <2>1. enrollment \in [Contacts -> Enrollment]
    BY Sizes DEF Init, Enrollment
  <2>2. mail \in [Contacts -> [StepIds -> Seq(Message)]]
    BY EmptySeq DEF Init
  <2>3. calls \in [Calls -> Call]
    BY Values DEF Init
  <2> QED
    BY <2>1, <2>2, <2>3, Sizes DEF Init, TypeOK
<1>2. \A k \in Calls : CallSane(k)
  BY DEF Init, CallSane, Idle
<1>3. ASSUME NEW c \in Contacts PROVE ContactSane(c)
  <2>1. CallsOf(c) = {}
    BY DEF Init, CallsOf, Idle
  <2>2. enrollment[c].step = 0 /\ \A s \in StepIds : mail[c][s] = <<>>
    BY DEF Init
  <2>3. Waits(0) = {}
    BY Sizes DEF Waits
  <2>4. Len(<<>>) = 0
    BY EmptySeq
  <2> QED
    BY <2>1, <2>2, <2>3, <2>4
       DEF ContactSane, OnlyEmails, Absent, Alone, Spaced, Once
<1> QED
  BY <1>1, <1>2, <1>3 DEF IInv

(* A webhook event or an answer adds no message and takes none away.       *)
LEMMA FeedbackRewrites ==
  ASSUME TypeOK, NEW d \in Contacts, Feedback(d)
  PROVE  \A c \in Contacts, s \in StepIds :
           /\ Len(mail'[c][s]) = Len(mail[c][s])
           /\ mail'[c][s] = <<>> <=> mail[c][s] = <<>>
<1> PICK t \in StepIds : \E i \in 1..Len(mail[d][t]) :
       \/ Opened(d, t, i) \/ Bounced(d, t, i) \/ Complained(d, t, i)
       \/ Answer(d, t, i) \/ SyncReply(d, t, i)
  BY DEF Feedback
<1> PICK i \in 1..Len(mail[d][t]) :
       \/ Opened(d, t, i) \/ Bounced(d, t, i) \/ Complained(d, t, i)
       \/ Answer(d, t, i) \/ SyncReply(d, t, i)
  OBVIOUS
<1> DEFINE m == mail[d][t][i]
<1>1. m \in Message
  <2>1. mail[d][t] \in Seq(Message)
    BY DEF TypeOK
  <2> QED
    BY <2>1, ElementOfSeq
<1>2. /\ [m EXCEPT !.opened = TRUE, !.status = "opened"] \in Message
      /\ [m EXCEPT !.status = "bounced"] \in Message
      /\ [m EXCEPT !.answered = TRUE] \in Message
      /\ [m EXCEPT !.replied = TRUE] \in Message
  BY <1>1 DEF Message
<1> QED
  BY <1>2, RewriteKeeps DEF Opened, Bounced, Complained, Answer, SyncReply

(* Who writes the email rows.                                              *)
LEMMA MailChanges ==
  [Next]_vars =>
    \/ mail' = mail
    \/ \E k \in Calls : Send(k) \/ (Mark(k) /\ Sent(k))
    \/ \E d \in Contacts : Feedback(d)
<1>1. ASSUME NEW k \in Calls, Execute(k) \/ Abandon(k)
      PROVE  mail' = mail \/ Send(k) \/ (Mark(k) /\ Sent(k))
  BY <1>1 DEF Execute, Abandon, Load, RunOff, Delay, Decide, CheckSuppression,
     Mark, Move, inboxVars
<1>2. ASSUME NEW k \in Calls, NEW c \in Contacts, Select(k, c)
      PROVE  mail' = mail
  BY <1>2 DEF Select, inboxVars
<1>3. ASSUME NEW c \in Contacts, CheckContact(c) \/ Enroll(c) \/ Suppress(c)
             \/ \E v \in {"bounced", "replied"} : Stop(c, v)
      PROVE  mail' = mail
  BY <1>3 DEF CheckContact, Enroll, Suppress, Stop, inboxVars
<1>4. Tick \/ Clog \/ UNCHANGED vars => mail' = mail
  BY ClogAside DEF Tick, vars
<1> QED
  BY <1>1, <1>2, <1>3, <1>4 DEF Next

(* Steps that change no call and move no enrolment.                        *)
LEMMA AsideKeeps ==
  ASSUME IInv, TypeOK', NEW d \in Contacts,
         CheckContact(d) \/ Suppress(d) \/ Feedback(d)
         \/ \E v \in {"bounced", "replied"} : Stop(d, v),
         NEW c \in Contacts
  PROVE  ContactSane(c)'
<1>1. TypeOK /\ ContactSane(c)
  BY DEF IInv
<1>2. calls' = calls /\ overlaps' = overlaps /\ since' = since
  BY DEF CheckContact, Suppress, Feedback, Stop, Opened, Bounced, Complained,
         Answer, SyncReply, inboxVars
<1>3. CallsOf(c)' = CallsOf(c)
  BY <1>2 DEF CallsOf
<1>4. faults' = 0 => faults = 0
  BY <1>1, FaultForm DEF CheckContact, Suppress, Feedback, Stop, Opened, Bounced,
         Complained, Answer, SyncReply
<1>5. \A s \in StepIds :
         /\ Len(mail'[c][s]) = Len(mail[c][s])
         /\ mail'[c][s] = <<>> <=> mail[c][s] = <<>>
  <2>1. CASE Feedback(d)
    BY <1>1, <2>1, FeedbackRewrites
  <2>2. CASE mail' = mail
    BY <2>2
  <2> QED
    BY <2>1, <2>2 DEF CheckContact, Suppress, Stop, inboxVars
<1>6. /\ enrollment'[c].step = enrollment[c].step
      /\ enrollment'[c].due = enrollment[c].due
      /\ enrollment'[c].status = "none" => enrollment[c].status = "none"
      /\ enrollment'[c].status = "active" => enrollment[c].status = "active"
  <2>1. CASE enrollment' = enrollment
    BY <2>1
  <2>2. CASE enrollment' # enrollment
    <3>1. PICK v \in {"bounced", "replied"} : Stop(d, v)
      BY <2>2 DEF CheckContact, Suppress, Feedback, Opened, Bounced,
         Complained, Answer, SyncReply
    <3>2. enrollment' = [enrollment EXCEPT ![d].status =
                           IF @ = "active" THEN v ELSE @]
      BY <2>2, <3>1 DEF Stop
    <3>3. enrollment[c] \in Enrollment /\ enrollment \in [Contacts -> Enrollment]
      BY <1>1 DEF TypeOK
    <3> QED
      BY <3>2, <3>3 DEF Enrollment
  <2> QED
    BY <2>1, <2>2
<1> QED
  BY <1>1, <1>2, <1>3, <1>4, <1>5, <1>6, Untouched

(* Enrolment and the passing of a day.                                     *)
LEMMA EnrollKeeps ==
  ASSUME IInv, TypeOK', NEW d \in Contacts, Enroll(d), NEW c \in Contacts
  PROVE  ContactSane(c)'
<1>1. TypeOK /\ ContactSane(c) /\ enrollment[c] \in Enrollment
  BY DEF IInv, TypeOK
<1>2. /\ calls' = calls /\ mail' = mail /\ since' = since
      /\ overlaps' = overlaps /\ faults' = faults
  BY DEF Enroll, inboxVars
<1>3. CallsOf(c)' = CallsOf(c)
  BY <1>2 DEF CallsOf
<1>4. CASE c # d \/ enrollment[d].status # "none"
  <2>1. enrollment'[c] = enrollment[c]
    BY <1>1, <1>4 DEF Enroll, TypeOK
  <2> QED
    BY <1>1, <1>2, <1>3, <2>1, Untouched
<1>5. CASE c = d /\ enrollment[d].status = "none"
  <2>1. enrollment'[c] = [status |-> "active", step |-> 0, due |-> WaitOf(0)]
    BY <1>1, <1>5 DEF Enroll, TypeOK
  <2>2. CallsOf(c) = {} /\ \A s \in StepIds : mail[c][s] = <<>>
    BY <1>1, <1>5 DEF ContactSane, Absent
  <2>3. Waits(0) = {}
    BY Sizes DEF Waits
  <2>4. Len(<<>>) = 0
    BY EmptySeq
  <2>5. OnlyEmails(c)' /\ Absent(c)' /\ Alone(c)'
    BY <1>2, <1>3, <2>1, <2>2 DEF OnlyEmails, Absent, Alone
  <2>6. Spaced(c)'
    BY <2>1, <2>3 DEF Spaced, Waits, SkippedTo
  <2>7. Once(c)'
    BY <1>2, <1>3, <2>1, <2>2, <2>4 DEF Once
  <2> QED
    BY <2>5, <2>6, <2>7 DEF ContactSane
<1> QED
  BY <1>4, <1>5

LEMMA TickKeeps ==
  ASSUME IInv, TypeOK', Tick, NEW c \in Contacts
  PROVE  ContactSane(c)'
<1> DEFINE e == enrollment[c]
<1>1. TypeOK /\ ContactSane(c) /\ e \in Enrollment /\ since[c] \in 0..MaxDays
  BY DEF IInv, TypeOK
<1>2. calls' = calls /\ mail' = mail /\ overlaps' = overlaps /\ faults' = faults
  BY DEF Tick
<1>3. CallsOf(c)' = CallsOf(c)
  BY <1>2 DEF CallsOf
<1>4. enrollment'[c] = [e EXCEPT !.due = IF @ > 0 THEN @ - 1 ELSE 0]
  BY DEF Tick
<1>5. /\ enrollment'[c].step = e.step /\ enrollment'[c].status = e.status
      /\ enrollment'[c].due = IF e.due > 0 THEN e.due - 1 ELSE 0
  BY <1>1, <1>4 DEF Enrollment
<1>6. since'[c] = IF since[c] < MaxDays THEN since[c] + 1 ELSE since[c]
  BY DEF Tick
<1>7. OnlyEmails(c)' /\ Absent(c)'
  BY <1>1, <1>2, <1>3, <1>5 DEF ContactSane, OnlyEmails, Absent
<1>8. Alone(c)'
  BY <1>1, <1>2, <1>3, <1>5 DEF ContactSane, Alone
<1>9. Spaced(c)'
  <2>1. e.due \in 0..MaxDays /\ MaxDays \in Nat /\ e.step \in 0..End
    BY <1>1, Sizes DEF Enrollment
  <2>2. \A d \in StepIds : d \in Waits(e.step) => Steps[d].days \in 1..MaxDays
    BY Sizes DEF Waits
  <2>3. \A x \in 1..MaxDays :
          since[c] + e.due >= x => since'[c] + enrollment'[c].due >= x
    BY <1>1, <1>5, <1>6, <2>1
  <2> QED
    BY <1>1, <1>2, <1>5, <2>2, <2>3 DEF ContactSane, Spaced, Waits, SkippedTo
<1>10. Once(c)'
  BY <1>1, <1>2, <1>3, <1>5 DEF ContactSane, Once, Active
<1> QED
  BY <1>7, <1>8, <1>9, <1>10 DEF ContactSane

----------------------------------------------------------------------------
(* The parts of the invariant: the contact of the call that takes a step   *)

(* The contacts of the other calls.                                        *)
LEMMA OthersKept ==
  ASSUME IInv, TypeOK', NEW k \in Calls, NEW d \in Contacts,
         \/ Select(k, d)
         \/ (Execute(k) \/ Abandon(k)) /\ calls[k].contact = d,
         NEW c \in Contacts, c # d
  PROVE  ContactSane(c)'
<1>1. TypeOK /\ ContactSane(c) /\ CallSane(k)
  BY DEF IInv
<1>2. PICK r \in Call : /\ calls' = [calls EXCEPT ![k] = r]
                        /\ r.contact # c
  <2>1. calls \in [Calls -> Call] /\ calls' \in [Calls -> Call]
    BY <1>1 DEF TypeOK
  <2>2. calls' = [calls EXCEPT ![k] = calls'[k]]
    BY <2>1 DEF Select, Execute, Abandon, Load, RunOff, Delay, Decide,
         CheckSuppression, Send, Mark, Move, Put, Finish
  <2>3. calls'[k].contact # c
    <3>1. c # NoContact
      BY StepsAssumption
    <3>2. Finish(k) => calls'[k].contact # c
      BY <2>1, <3>1 DEF Finish, Idle
    <3>3. CASE Select(k, d)
      BY <2>1, <3>3 DEF Select, Idle
    <3>4. CASE Load(k) \/ RunOff(k) \/ Delay(k)
      BY <2>1, <3>2, <3>4 DEF Load, RunOff, Delay, Call, Select
    <3>5. CASE Decide(k) \/ CheckSuppression(k)
      BY <2>1, <3>2, <3>5 DEF Decide, CheckSuppression, Put, Call, Select
    <3>6. CASE Send(k) \/ Mark(k)
      BY <2>1, <3>2, <3>6 DEF Send, Mark, Call, Select
    <3>7. CASE Move(k) \/ Abandon(k)
      BY <2>1, <3>2, <3>7 DEF Move, Abandon
    <3> QED
      BY <3>3, <3>4, <3>5, <3>6, <3>7 DEF Execute
  <2> QED
    BY <2>1, <2>2, <2>3
<1>3. calls[k].contact # c \/ calls[k].at = "idle"
  BY DEF Select
<1>4. CallsOf(c)' = CallsOf(c) /\ \A l \in CallsOf(c) : calls'[l] = calls[l]
  <2>1. k \notin CallsOf(c)
    BY <1>3 DEF CallsOf
  <2> QED
    BY <1>1, <1>2, <2>1, OneCall DEF CallsOf
<1>5. faults' = 0 => faults = 0
  BY <1>1, FaultForm DEF Select, Execute, Abandon, Load, RunOff, Delay, Decide,
     CheckSuppression, Send, Mark, Move
<1>6. since'[c] = since[c] /\ overlaps'[c] = overlaps[c]
  BY <1>1 DEF TypeOK, Select, Execute, Abandon, Load, RunOff, Delay, Decide,
     CheckSuppression, Send, Mark, Move, Leaves, inboxVars
<1>7. enrollment'[c] = enrollment[c]
  BY <1>1 DEF TypeOK, Select, Execute, Abandon, Load, RunOff, Delay, Decide,
     CheckSuppression, Send, Mark, Move
<1>8. \A s \in StepIds : mail'[c][s] = mail[c][s]
  BY <1>1 DEF TypeOK, Select, Execute, Abandon, Load, RunOff, Delay, Decide,
     CheckSuppression, Send, Mark, Move, Leaves, Sent, Rewrite, inboxVars
<1> QED
  BY <1>1, <1>4, <1>5, <1>6, <1>7, <1>8, Untouched

(* The delays on the way to the next step: none is added but the one just  *)
(* executed.                                                               *)
LEMMA WaitsOf ==
  ASSUME NEW s \in StepIds, Steps[s].type # "email"
  PROVE  /\ Waits(s + 1) \subseteq Waits(s) \cup {s}
         /\ \A t : Onward(s, t) => Waits(t) \subseteq Waits(s)
<1>1. \A d \in StepIds : d < s + 1 <=> d < s \/ d = s
  BY Sizes
<1>2. \A d \in StepIds : d < s + 2 <=> d < s \/ d = s \/ d = s + 1
  BY Sizes
<1>3. \A d \in StepIds : d < s => d < s + 1 /\ d < s + 2
  BY Sizes
<1>4. Waits(s + 1) \subseteq Waits(s) \cup {s}
  BY <1>1, <1>3 DEF Waits
<1>5. Onward(s, s + 1) => Waits(s + 1) \subseteq Waits(s)
  BY <1>4 DEF Waits, Onward
<1>6. ASSUME Steps[s].type = "condition", Steps[s].action = "skip"
      PROVE  Waits(s + 2) \subseteq Waits(s)
  <2>1. SkippedTo(s + 1)
    <3>1. s + 1 > 0 /\ (s + 1) - 1 = s
      BY Sizes
    <3> QED
      BY <1>6, <3>1 DEF SkippedTo
  <2>2. Steps[s].type # "delay"
    BY <1>6
  <2> QED
    BY <1>2, <1>3, <2>1, <2>2 DEF Waits
<1> QED
  BY <1>4, <1>5, <1>6 DEF Onward

(* A due enrolment is put on a list.                                       *)
LEMMA SelectKeeps ==
  ASSUME IInv, TypeOK', NEW k \in Calls, NEW c \in Contacts, Select(k, c)
  PROVE  ContactSane(c)'
<1>1. /\ TypeOK /\ OnlyEmails(c) /\ Absent(c) /\ Alone(c) /\ Spaced(c) /\ Once(c)
      /\ enrollment[c] \in Enrollment /\ Active(c) /\ enrollment[c].due = 0
  BY DEF IInv, ContactSane, TypeOK, Select, DueNow
<1>2. /\ enrollment' = enrollment /\ mail' = mail /\ since' = since
      /\ faults' = faults
  BY DEF Select, inboxVars
<1>3. CallsOf(c)' = CallsOf(c) \cup {k} /\ calls'[k].at = "queued"
  <2>1. [Idle EXCEPT !.at = "queued", !.contact = c] \in Call
    BY Values DEF Call, Places
  <2>2. /\ [Idle EXCEPT !.at = "queued", !.contact = c].at = "queued"
        /\ [Idle EXCEPT !.at = "queued", !.contact = c].contact = c
    BY DEF Idle
  <2> QED
    BY <1>1, <2>1, <2>2, OneCall DEF Select
<1>4. \/ CallsOf(c) = {} /\ overlaps'[c] = overlaps[c]
      \/ overlaps'[c] # 0
  <2>1. overlaps \in [Contacts -> 0..MaxOverlaps] /\ overlaps[c] + 1 # 0
    BY <1>1, Sizes DEF TypeOK
  <2> QED
    BY <2>1 DEF Select
<1>5. OnlyEmails(c)' /\ Absent(c)'
  BY <1>1, <1>2 DEF OnlyEmails, Absent, Active
<1>6. Alone(c)'
  BY <1>1, <1>2, <1>3, <1>4 DEF Alone
<1>7. Spaced(c)'
  BY <1>1, <1>2, <1>4 DEF Spaced, Waits, SkippedTo
<1>8. Once(c)'
  BY <1>1, <1>2, <1>3, <1>4 DEF Once, Active
<1> QED
  BY <1>5, <1>6, <1>7, <1>8 DEF ContactSane

(* A call moves on within its step.                                        *)
LEMMA LoadKeeps ==
  ASSUME IInv, TypeOK', NEW k \in Calls, NEW c \in Contacts,
         calls[k].contact = c, Load(k)
  PROVE  ContactSane(c)'
<1>1. /\ TypeOK /\ OnlyEmails(c) /\ Absent(c) /\ Alone(c) /\ Spaced(c) /\ Once(c)
      /\ calls[k] \in Call /\ enrollment[c] \in Enrollment
  BY DEF IInv, ContactSane, TypeOK
<1>2. /\ enrollment' = enrollment /\ mail' = mail /\ since' = since
      /\ faults' = faults /\ overlaps' = overlaps
  BY DEF Load, inboxVars
<1>3. k \in CallsOf(c) /\ calls[k].at = "queued"
  BY DEF Load, CallsOf
<1>4. OnlyEmails(c)' /\ Spaced(c)'
  BY <1>1, <1>2 DEF OnlyEmails, Spaced, Waits, SkippedTo
<1>5. Absent(c)'
  BY <1>1, <1>2, <1>3 DEF Absent
<1>6. CASE Active(c)
  <2> DEFINE r == [calls[k] EXCEPT !.at = "loaded", !.step = enrollment[c].step]
  <2>1. r \in Call /\ r.contact = c /\ r.at = "loaded"
        /\ r.step = enrollment[c].step
    BY <1>1 DEF Call, Places, Enrollment
  <2>2. calls' = [calls EXCEPT ![k] = r]
    BY <1>1, <1>6 DEF Load, Loadable, TypeOK
  <2> HIDE DEF r
  <2>3. /\ CallsOf(c)' = CallsOf(c) /\ calls'[k] = r
        /\ \A l \in CallsOf(c) : l # k => calls'[l] = calls[l]
    BY <1>1, <1>3, <2>1, <2>2, OneCall
  <2>4. Alone(c)'
    BY <1>1, <1>2, <2>1, <2>3 DEF Alone
  <2>5. Once(c)'
    BY <1>1, <1>2, <1>3, <1>6, <2>1, <2>3 DEF Once, Active, Alone
  <2> QED
    BY <1>4, <1>5, <2>4, <2>5 DEF ContactSane
<1>7. CASE ~Active(c)
  <2>1. Finish(k)
    BY <1>7 DEF Load, Loadable
  <2>2. /\ CallsOf(c)' = CallsOf(c) \ {k}
        /\ \A l \in CallsOf(c) : l # k => calls'[l] = calls[l]
    BY <1>1, <2>1, Finished
  <2>3. Alone(c)'
    BY <1>1, <1>2, <2>2 DEF Alone
  <2>4. Once(c)'
    BY <1>1, <1>2, <1>3, <1>7, <2>2 DEF Once, Active, Alone
  <2> QED
    BY <1>4, <1>5, <2>3, <2>4 DEF ContactSane
<1> QED
  BY <1>6, <1>7

LEMMA OnwardKeeps ==
  ASSUME IInv, TypeOK', NEW k \in Calls, NEW c \in Contacts,
         calls[k].contact = c, RunOff(k) \/ Decide(k) \/ Mark(k)
  PROVE  ContactSane(c)'
<1>1. /\ TypeOK /\ OnlyEmails(c) /\ Absent(c) /\ Alone(c) /\ Spaced(c) /\ Once(c)
      /\ calls[k] \in Call /\ enrollment[c] \in Enrollment
  BY DEF IInv, ContactSane, TypeOK
<1>2. /\ enrollment' = enrollment /\ since' = since /\ overlaps' = overlaps
      /\ (faults' = 0 => faults = 0)
  BY <1>1, FaultForm DEF RunOff, Decide, Mark, inboxVars
<1>3. k \in CallsOf(c)
  BY DEF RunOff, Decide, Mark, CallsOf
<1>4. \A s \in StepIds :
         /\ Len(mail'[c][s]) = Len(mail[c][s])
         /\ mail'[c][s] = <<>> <=> mail[c][s] = <<>>
  <2>1. CASE Mark(k) /\ Sent(k)
    BY <1>1, <2>1, SentRewrites, RewriteKeeps DEF Mark, Sent
  <2>2. CASE mail' = mail
    BY <2>2
  <2> QED
    BY <2>1, <2>2 DEF RunOff, Decide, Mark, inboxVars
<1>5. PICK t \in 0..End : calls' = [calls EXCEPT ![k].at = "moving", ![k].to = t]
  <2>1. CASE RunOff(k)
    BY <2>1, Sizes DEF RunOff
  <2>2. CASE Decide(k)
    BY <2>2, AfterForm DEF Decide
  <2>3. CASE Mark(k)
    <3>1. calls[k].step + 1 \in 0..End
      BY <2>3, SentRewrites, Sizes DEF Mark
    <3> QED
      BY <2>3, <3>1, Sizes DEF Mark
  <2> QED
    BY <2>1, <2>2, <2>3
<1> DEFINE r == [calls[k] EXCEPT !.at = "moving", !.to = t]
<1>6. /\ r \in Call /\ r.contact = c /\ r.at = "moving"
      /\ r.step = calls[k].step
  BY <1>1 DEF Call, Places
<1>7. calls' = [calls EXCEPT ![k] = r]
  BY <1>1, <1>5 DEF TypeOK
<1> HIDE DEF r
<1>8. /\ CallsOf(c)' = CallsOf(c) /\ calls'[k] = r
      /\ \A l \in CallsOf(c) : l # k => calls'[l] = calls[l]
  BY <1>1, <1>3, <1>6, <1>7, OneCall
<1>9. calls[k].at # "queued"
  BY DEF RunOff, Decide, Mark
<1>10. OnlyEmails(c)' /\ Spaced(c)'
  BY <1>1, <1>2, <1>4 DEF OnlyEmails, Spaced, Waits, SkippedTo
<1>11. Absent(c)'
  BY <1>1, <1>2, <1>3 DEF Absent
<1>12. Alone(c)'
  BY <1>1, <1>2, <1>3, <1>6, <1>8, <1>9 DEF Alone
<1>13. Once(c)'
  BY <1>1, <1>2, <1>3, <1>4, <1>6, <1>8 DEF Once, Active, Alone
<1> QED
  BY <1>10, <1>11, <1>12, <1>13 DEF ContactSane

(* Before the message: the check of the suppression list, which keeps the  *)
(* call or ends it, and a call that ends in a failure.                     *)
LEMMA EndingKeeps ==
  ASSUME IInv, TypeOK', NEW k \in Calls, NEW c \in Contacts,
         calls[k].contact = c, calls[k].at # "idle", Finish(k),
         enrollment' = enrollment, overlaps' = overlaps, since' = since,
         mail' = mail,
         \/ faults' # 0
         \/ /\ faults' = faults
            /\ calls[k].at = "loaded"
  PROVE  ContactSane(c)'
<1>1. /\ TypeOK /\ OnlyEmails(c) /\ Absent(c) /\ Alone(c) /\ Spaced(c) /\ Once(c)
      /\ calls[k] \in Call /\ enrollment[c] \in Enrollment
  BY DEF IInv, ContactSane, TypeOK
<1>2. k \in CallsOf(c)
  BY DEF CallsOf
<1>3. /\ CallsOf(c)' = CallsOf(c) \ {k}
      /\ \A l \in CallsOf(c) : l # k => calls'[l] = calls[l]
  BY <1>1, Finished
<1>4. OnlyEmails(c)' /\ Spaced(c)'
  BY <1>1 DEF OnlyEmails, Spaced, Waits, SkippedTo
<1>5. Absent(c)'
  BY <1>1, <1>2 DEF Absent
<1>6. Alone(c)'
  BY <1>1, <1>3 DEF Alone
<1>7. Once(c)'
  BY <1>1, <1>2, <1>3 DEF Once, Active, Alone
<1> QED
  BY <1>4, <1>5, <1>6, <1>7 DEF ContactSane

LEMMA CheckKeeps ==
  ASSUME IInv, TypeOK', NEW k \in Calls, NEW c \in Contacts,
         calls[k].contact = c, CheckSuppression(k)
  PROVE  ContactSane(c)'
<1>1. /\ TypeOK /\ OnlyEmails(c) /\ Absent(c) /\ Alone(c) /\ Spaced(c) /\ Once(c)
      /\ calls[k] \in Call /\ enrollment[c] \in Enrollment
  BY DEF IInv, ContactSane, TypeOK
<1>2. /\ enrollment' = enrollment /\ mail' = mail /\ since' = since
      /\ overlaps' = overlaps /\ calls[k].at = "loaded"
      /\ faults' = faults \/ faults' # 0
  BY <1>1, FaultForm DEF CheckSuppression, inboxVars
<1>3. k \in CallsOf(c)
  BY <1>2 DEF CallsOf
<1>4. ASSUME NEW p \in {"sending", "unchecked"}, Put(k, p)
      PROVE  ContactSane(c)'
  <2> DEFINE r == [calls[k] EXCEPT !.at = p]
  <2>1. /\ r \in Call /\ r.contact = c /\ r.at = p /\ r.at # "idle"
        /\ r.step = calls[k].step
    BY <1>1 DEF Call, Places
  <2>2. calls' = [calls EXCEPT ![k] = r]
    BY <1>1, <1>4 DEF Put, TypeOK
  <2> HIDE DEF r
  <2>3. /\ CallsOf(c)' = CallsOf(c) /\ calls'[k] = r
        /\ \A l \in CallsOf(c) : l # k => calls'[l] = calls[l]
    BY <1>1, <1>3, <2>1, <2>2, OneCall
  <2>4. OnlyEmails(c)' /\ Spaced(c)'
    BY <1>1, <1>2 DEF OnlyEmails, Spaced, Waits, SkippedTo
  <2>5. Absent(c)'
    BY <1>1, <1>2, <1>3 DEF Absent
  <2>6. Alone(c)'
    BY <1>1, <1>2, <1>3, <2>1, <2>3 DEF Alone
  <2>7. Once(c)'
    BY <1>1, <1>2, <1>3, <2>1, <2>3 DEF Once, Active, Alone
  <2> QED
    BY <2>4, <2>5, <2>6, <2>7 DEF ContactSane
<1>5. CASE Finish(k)
  BY <1>2, <1>5, EndingKeeps
<1> QED
  BY <1>4, <1>5 DEF CheckSuppression

(* A message leaves.                                                       *)
LEMMA SendKeeps ==
  ASSUME IInv, TypeOK', NEW k \in Calls, NEW c \in Contacts,
         calls[k].contact = c, Send(k)
  PROVE  ContactSane(c)'
<1> DEFINE s == calls[k].step
<1>1. /\ TypeOK /\ OnlyEmails(c) /\ Absent(c) /\ Alone(c) /\ Spaced(c) /\ Once(c)
      /\ calls[k] \in Call /\ enrollment[c] \in Enrollment
  BY DEF IInv, ContactSane, TypeOK
<1>2. /\ enrollment' = enrollment /\ overlaps' = overlaps
      /\ calls[k].at \in {"sending", "unchecked"}
      /\ s \in StepIds /\ Steps[s].type = "email"
      /\ (faults' = 0 => faults = 0)
  BY <1>1, FaultForm DEF Send, IInv, CallSane
<1>3. k \in CallsOf(c)
  BY <1>2 DEF CallsOf
<1>4. CASE UNCHANGED inboxVars /\ Fault /\ Finish(k)
  BY <1>1, <1>2, <1>4, EndingKeeps, FaultForm DEF inboxVars
<1>5. CASE Leaves(c, s)
  <2>1. /\ mail'[c][s] # <<>>
        /\ Len(mail'[c][s]) = Len(mail[c][s]) + 1
        /\ \A t \in StepIds : t # s => mail'[c][t] = mail[c][t]
    BY <1>1, <1>2, <1>5, LeavesAppends
  <2>2. \/ CallsOf(c)' = CallsOf(c) \ {k} /\ faults' # 0
        \/ /\ CallsOf(c)' = CallsOf(c)
           /\ calls'[k].at = "marking" /\ calls'[k].step = s
    <3>1. CASE Finish(k) /\ Fault
      BY <1>1, <3>1, Finished, FaultForm
    <3>2. CASE calls' = [calls EXCEPT ![k].at = "marking",
                                      ![k].nth = Len(mail[c][s]) + 1]
      <4> DEFINE r == [calls[k] EXCEPT !.at = "marking",
                                       !.nth = Len(mail[c][s]) + 1]
      <4>1. Len(mail[c][s]) + 1 \in Nat
        BY <1>1, <1>2, <1>5, LeavesAppends
      <4>2. r \in Call /\ r.contact = c /\ r.at = "marking" /\ r.step = s
        BY <1>1, <4>1 DEF Call, Places
      <4>3. calls' = [calls EXCEPT ![k] = r]
        BY <1>1, <3>2 DEF TypeOK
      <4> HIDE DEF r
      <4> QED
        BY <1>1, <1>3, <4>2, <4>3, OneCall
    <3> QED
      BY <3>1, <3>2 DEF Send
  <2>3. \A l \in CallsOf(c) : l # k => calls'[l] = calls[l]
    BY <1>1 DEF CallsOf, TypeOK, Send, Finish
  <2>4. OnlyEmails(c)'
    BY <1>1, <1>2, <2>1 DEF OnlyEmails
  <2>5. Absent(c)'
    BY <1>1, <1>2, <1>3 DEF Absent
  <2>6. Alone(c)'
    BY <1>1, <1>2, <1>3, <2>2, <2>3 DEF Alone
  <2>7. overlaps[c] = 0 => s = enrollment[c].step
    BY <1>1, <1>2, <1>3 DEF Alone
  <2>8. Spaced(c)'
    BY <1>2, <2>1, <2>7 DEF Spaced
  <2>9. Once(c)'
    <3>1. SUFFICES ASSUME faults' = 0, overlaps'[c] = 0 PROVE Once(c)'
      BY DEF Once
    <3>2. faults = 0 /\ overlaps[c] = 0 /\ mail[c][s] = <<>>
          /\ \A l \in CallsOf(c) : l = k
      BY <1>1, <1>2, <1>3, <3>1 DEF Once, Alone
    <3>3. CallsOf(c)' = CallsOf(c) /\ calls'[k].at = "marking"
      BY <2>2, <3>1
    <3>4. Len(mail'[c][s]) = 1
      BY <2>1, <3>2, EmptySeq
    <3>5. \A t \in StepIds : t > enrollment[c].step => t # s
      BY <2>7, <3>2, Sizes
    <3>6. \A t \in StepIds :
            /\ Len(mail'[c][t]) <= 1
            /\ t > enrollment[c].step => mail'[c][t] = <<>>
      <4>1. \A t \in StepIds :
              /\ Len(mail[c][t]) <= 1
              /\ t > enrollment[c].step => mail[c][t] = <<>>
        BY <1>1, <3>2 DEF Once
      <4>2. 1 <= 1
        OBVIOUS
      <4> QED
        BY <2>1, <3>4, <3>5, <4>1, <4>2
    <3>7. \E l \in CallsOf(c)' : calls'[l].at \in {"marking", "moving"}
      BY <1>3, <3>3
    <3>8. \A l \in CallsOf(c)' : calls'[l].at = "marking"
      BY <3>2, <3>3
    <3> QED
      BY <1>2, <3>6, <3>7, <3>8 DEF Once
  <2> QED
    BY <2>4, <2>5, <2>6, <2>8, <2>9 DEF ContactSane
<1> QED
  BY <1>4, <1>5 DEF Send

(* The enrolment moves on: after a delay, or to the step the call chose.   *)
LEMMA DelayKeeps ==
  ASSUME IInv, TypeOK', NEW k \in Calls, NEW c \in Contacts,
         calls[k].contact = c, Delay(k)
  PROVE  ContactSane(c)'
<1> DEFINE s == calls[k].step
<1>1. /\ TypeOK /\ OnlyEmails(c) /\ Absent(c) /\ Alone(c) /\ Spaced(c) /\ Once(c)
      /\ calls[k] \in Call /\ enrollment[c] \in Enrollment
  BY DEF IInv, ContactSane, TypeOK
<1>2. /\ mail' = mail /\ since' = since /\ overlaps' = overlaps
      /\ Finish(k) /\ calls[k].at = "loaded"
      /\ s \in StepIds /\ Steps[s].type = "delay"
  BY DEF Delay, inboxVars
<1>3. k \in CallsOf(c)
  BY <1>2 DEF CallsOf
<1>4. CASE Fault /\ enrollment' = enrollment
  BY <1>1, <1>2, <1>4, EndingKeeps, FaultForm
<1>5. CASE faults' = faults /\ enrollment' = [enrollment EXCEPT ![c] = Delayed(@, s)]
  <2>1. /\ enrollment'[c].step = s + 1 /\ enrollment'[c].due = Steps[s].days
        /\ enrollment'[c].status = enrollment[c].status
    BY <1>1, <1>5 DEF TypeOK, Delayed, Enrollment
  <2>2. /\ CallsOf(c)' = CallsOf(c) \ {k}
        /\ \A l \in CallsOf(c) : l # k => calls'[l] = calls[l]
    BY <1>1, <1>2, Finished
  <2>3. overlaps[c] = 0 =>
          /\ enrollment[c].step = s /\ enrollment[c].due = 0
          /\ \A l \in CallsOf(c) : l = k
    BY <1>1, <1>2, <1>3 DEF Alone
  <2>4. mail[c][s] = <<>>
    BY <1>1, <1>2, Sizes DEF OnlyEmails
  <2>5. OnlyEmails(c)'
    BY <1>1, <1>2 DEF OnlyEmails
  <2>6. Absent(c)'
    BY <1>1, <1>2, <1>3, <2>1 DEF Absent
  <2>7. Alone(c)'
    BY <1>2, <2>2, <2>3 DEF Alone
  <2>8. Spaced(c)'
    <3>1. SUFFICES ASSUME overlaps[c] = 0, NEW d \in Waits(s + 1)
                   PROVE  since[c] + Steps[s].days >= Steps[d].days
      BY <1>2, <2>1 DEF Spaced, Waits, SkippedTo
    <3>2. d = s \/ d \in Waits(s)
      BY <1>2, <3>1, WaitsOf, Sizes
    <3>3. since[c] \in Nat /\ Steps[s].days \in Nat
      BY <1>1, <1>2, Sizes DEF TypeOK
    <3>4. CASE d = s
      BY <3>3, <3>4
    <3>5. CASE d \in Waits(s)
      <4>1. since[c] + 0 >= Steps[d].days
        BY <1>1, <2>3, <2>4, <3>1, <3>5 DEF Spaced
      <4>2. Steps[d].days \in Nat
        BY <3>5, Sizes DEF Waits
      <4> QED
        BY <3>3, <4>1, <4>2
    <3> QED
      BY <3>2, <3>4, <3>5
  <2>9. Once(c)'
    <3>1. SUFFICES ASSUME faults = 0, overlaps[c] = 0 PROVE Once(c)'
      BY <1>2, <1>5 DEF Once
    <3>2. CallsOf(c)' = {}
      BY <2>2, <2>3, <3>1
    <3>3. \A t \in StepIds : /\ t > s + 1 => t > s
                             /\ t = s + 1 => t > s
      BY <1>2, Sizes
    <3>4. \A t \in StepIds :
            /\ Len(mail[c][t]) <= 1
            /\ t > s => mail[c][t] = <<>>
      BY <1>1, <2>3, <3>1 DEF Once
    <3> QED
      BY <1>2, <2>1, <3>2, <3>3, <3>4 DEF Once
  <2> QED
    BY <2>5, <2>6, <2>7, <2>8, <2>9 DEF ContactSane
<1> QED
  BY <1>4, <1>5 DEF Delay

LEMMA MoveKeeps ==
  ASSUME IInv, TypeOK', NEW k \in Calls, NEW c \in Contacts,
         calls[k].contact = c, Move(k)
  PROVE  ContactSane(c)'
<1> DEFINE s == calls[k].step
           t == calls[k].to
<1>1. /\ TypeOK /\ OnlyEmails(c) /\ Absent(c) /\ Alone(c) /\ Spaced(c) /\ Once(c)
      /\ calls[k] \in Call /\ enrollment[c] \in Enrollment /\ CallSane(k)
      /\ since[c] \in Nat /\ t \in 0..End /\ s \in 0..End
  <2>1. /\ TypeOK /\ ContactSane(c) /\ CallSane(k)
        /\ calls[k] \in Call /\ enrollment[c] \in Enrollment
    BY DEF IInv, TypeOK
  <2>2. since[c] \in 0..MaxDays
    BY <2>1 DEF TypeOK
  <2>3. since[c] \in Nat
    BY <2>2, Sizes
  <2>4. t \in 0..End /\ s \in 0..End
    BY <2>1 DEF Call
  <2> QED
    BY <2>1, <2>3, <2>4 DEF ContactSane
<1>2. /\ mail' = mail /\ since' = since /\ overlaps' = overlaps
      /\ Finish(k) /\ calls[k].at = "moving"
  BY DEF Move, inboxVars
<1>3. k \in CallsOf(c)
  BY <1>2 DEF CallsOf
<1>4. CASE Fault /\ enrollment' = enrollment
  BY <1>1, <1>2, <1>4, EndingKeeps, FaultForm
<1>5. CASE faults' = faults /\ enrollment' = [enrollment EXCEPT ![c] = MovedTo(@, t)]
  <2>1. enrollment'[c] = MovedTo(enrollment[c], t)
    BY <1>1, <1>5 DEF TypeOK
  <2>2. /\ CallsOf(c)' = CallsOf(c) \ {k}
        /\ \A l \in CallsOf(c) : l # k => calls'[l] = calls[l]
    BY <1>1, <1>2, Finished
  <2>3. overlaps[c] = 0 =>
          /\ enrollment[c].step = s /\ enrollment[c].due = 0
          /\ \A l \in CallsOf(c) : l = k
    BY <1>1, <1>2, <1>3 DEF Alone
  <2>4. enrollment'[c].status # "none"
    <3>1. enrollment[c].status # "none"
      BY <1>1, <1>3 DEF Absent
    <3> QED
      BY <1>1, <2>1, <3>1 DEF MovedTo, Enrollment
  <2>5. OnlyEmails(c)' /\ Absent(c)'
    BY <1>1, <1>2, <2>4 DEF OnlyEmails, Absent
  <2>6. Alone(c)'
    BY <1>2, <2>2, <2>3 DEF Alone
  <2>7. CASE t >= End
    <3>1. /\ enrollment'[c].step = enrollment[c].step
          /\ enrollment'[c].due = enrollment[c].due
          /\ enrollment'[c].status = "completed"
      BY <1>1, <2>1, <2>7 DEF MovedTo, Enrollment
    <3>2. Spaced(c)'
      BY <1>1, <1>2, <3>1 DEF Spaced, Waits, SkippedTo
    <3>3. Once(c)'
      BY <1>1, <1>2, <1>5, <2>2, <3>1 DEF Once, Active
    <3> QED
      BY <2>5, <2>6, <3>2, <3>3 DEF ContactSane
  <2>8. CASE t < End
    <3>1. /\ enrollment'[c].step = t /\ enrollment'[c].due = WaitOf(t)
          /\ t \in StepIds /\ ~(t >= End)
      BY <1>1, <2>1, <2>8, Sizes DEF MovedTo, Enrollment
    <3>2. s \in StepIds /\ Onward(s, t) /\ t > s
      BY <1>1, <1>2, <2>8, Sizes DEF CallSane, Onward
    <3>3. WaitOf(t) \in Nat
      BY <3>1, Values, Sizes
    <3>4. Spaced(c)'
      <4>1. SUFFICES ASSUME overlaps[c] = 0, NEW d \in Waits(t)
                     PROVE  since[c] + WaitOf(t) >= Steps[d].days
        BY <1>2, <3>1 DEF Spaced, Waits, SkippedTo
      <4>2. d \in Waits(s) /\ Steps[s].type # "email"
        <5>1. Steps[s].type # "email"
          <6>1. d < s + 2 /\ d # s /\ d \in StepIds /\ s < t
            BY <1>1, <3>1, <3>2, <4>1, Sizes DEF Waits, Onward
          <6>2. d # s + 1
            <7>1. (s + 1) - 1 = s /\ s + 1 > 0 /\ (t = s + 1 => ~(s + 1 < t))
              BY <3>2, Sizes
            <7> QED
              BY <3>2, <4>1, <7>1 DEF Waits, SkippedTo, Onward
          <6>3. d < s
            BY <3>2, <6>1, <6>2, Sizes
          <6> QED
            BY <3>2, <4>1, <6>1, <6>3 DEF Waits
        <5> QED
          BY <3>2, <4>1, <5>1, WaitsOf
      <4>3. since[c] + 0 >= Steps[d].days
        <5>1. mail[c][s] = <<>>
          BY <1>1, <3>2, <4>2 DEF OnlyEmails
        <5> QED
          BY <1>1, <2>3, <4>1, <4>2, <5>1 DEF Spaced
      <4>4. Steps[d].days \in Nat
        BY <4>1, Sizes DEF Waits
      <4> QED
        BY <1>1, <3>3, <4>3, <4>4
    <3>5. Once(c)'
      <4>1. SUFFICES ASSUME faults = 0, overlaps[c] = 0 PROVE Once(c)'
        BY <1>2, <1>5 DEF Once
      <4>2. CallsOf(c)' = {}
        BY <2>2, <2>3, <4>1
      <4>3. \A u \in StepIds : u > t \/ u = t => u > s
        BY <3>1, <3>2, Sizes
      <4>4. \A u \in StepIds :
              /\ Len(mail[c][u]) <= 1
              /\ u > s => mail[c][u] = <<>>
        BY <1>1, <2>3, <4>1 DEF Once
      <4> QED
        BY <1>2, <3>1, <4>2, <4>3, <4>4 DEF Once
    <3> QED
      BY <2>5, <2>6, <3>4, <3>5 DEF ContactSane
  <2> QED
    BY <1>1, <2>7, <2>8, Sizes
<1> QED
  BY <1>4, <1>5 DEF Move

LEMMA ContactsAreKept ==
  IInv /\ TypeOK' /\ [Next]_vars => \A c \in Contacts : ContactSane(c)'
<1> SUFFICES ASSUME IInv, TypeOK', [Next]_vars, NEW c \in Contacts
             PROVE  ContactSane(c)'
  OBVIOUS
<1>1. ASSUME NEW k \in Calls, Execute(k) \/ Abandon(k) PROVE ContactSane(c)'
  <2>1. TypeOK /\ CallSane(k) /\ calls[k].at # "idle"
    BY <1>1 DEF IInv, Execute, Abandon, Load, RunOff, Delay, Decide,
       CheckSuppression, Send, Mark, Move
  <2>2. calls[k].contact \in Contacts
    BY <2>1 DEF CallSane
  <2>3. CASE calls[k].contact # c
    BY <1>1, <2>2, <2>3, OthersKept
  <2>4. CASE calls[k].contact = c
    <3>1. CASE Abandon(k)
      BY <2>1, <2>4, <3>1, EndingKeeps, FaultForm DEF Abandon, inboxVars
    <3>2. CASE Execute(k)
      BY <2>4, <3>2, LoadKeeps, OnwardKeeps, DelayKeeps, CheckKeeps, SendKeeps,
         MoveKeeps DEF Execute
    <3> QED
      BY <1>1, <3>1, <3>2
  <2> QED
    BY <2>3, <2>4
<1>2. ASSUME NEW k \in Calls, NEW d \in Contacts, Select(k, d)
      PROVE  ContactSane(c)'
  BY <1>2, SelectKeeps, OthersKept
<1>3. ASSUME NEW d \in Contacts,
             CheckContact(d) \/ Suppress(d) \/ Feedback(d)
             \/ \E v \in {"bounced", "replied"} : Stop(d, v)
      PROVE  ContactSane(c)'
  BY <1>3, AsideKeeps
<1>4. ASSUME NEW d \in Contacts, Enroll(d) PROVE ContactSane(c)'
  BY <1>4, EnrollKeeps
<1>5. CASE Tick
  BY <1>5, TickKeeps
<1>6. CASE Clog \/ UNCHANGED vars
  <2>1. TypeOK /\ ContactSane(c)
    BY DEF IInv
  <2>2. UNCHANGED <<enrollment, mail, calls, since, overlaps, faults>>
    BY <1>6, ClogAside DEF vars
  <2>3. CallsOf(c)' = CallsOf(c)
    BY <2>2 DEF CallsOf
  <2> QED
    BY <2>1, <2>2, <2>3, Untouched
<1> QED
  BY <1>1, <1>2, <1>3, <1>4, <1>5, <1>6 DEF Next

----------------------------------------------------------------------------
(* The parts of the invariant: what a call knows                           *)

(* No step takes a message away.                                           *)
LEMMA MailGrows ==
  ASSUME IInv, [Next]_vars, NEW c \in Contacts, NEW s \in StepIds
  PROVE  Len(mail'[c][s]) >= Len(mail[c][s]) /\ Len(mail[c][s]) \in Nat
<1>1. TypeOK /\ mail[c][s] \in Seq(Message)
  BY DEF IInv, TypeOK
<1>2. Len(mail[c][s]) \in Nat
  BY <1>1, LenProperties
<1>3. CASE mail' = mail
  BY <1>2, <1>3
<1>4. ASSUME NEW k \in Calls, Send(k), mail' # mail
      PROVE  Len(mail'[c][s]) >= Len(mail[c][s])
  <2>1. calls[k].contact \in Contacts /\ calls[k].step \in StepIds
    BY <1>4 DEF Send, IInv, CallSane
  <2>2. Leaves(calls[k].contact, calls[k].step)
    BY <1>4 DEF Send, inboxVars
  <2>3. CASE c = calls[k].contact /\ s = calls[k].step
    <3>1. Len(mail'[c][s]) = Len(mail[c][s]) + 1
      BY <1>1, <2>1, <2>2, <2>3, LeavesAppends
    <3> QED
      BY <1>2, <3>1
  <2>4. CASE ~(c = calls[k].contact /\ s = calls[k].step)
    <3>1. mail'[c][s] = mail[c][s]
      BY <1>1, <2>1, <2>2, <2>4, LeavesAppends
    <3> QED
      BY <1>2, <3>1
  <2> QED
    BY <2>3, <2>4
<1>5. ASSUME NEW k \in Calls, Mark(k), Sent(k)
      PROVE  Len(mail'[c][s]) >= Len(mail[c][s])
  <2>1. Len(mail'[c][s]) = Len(mail[c][s])
    BY <1>1, <1>5, SentRewrites, RewriteKeeps DEF Mark, Sent
  <2> QED
    BY <1>2, <2>1
<1>6. ASSUME NEW d \in Contacts, Feedback(d)
      PROVE  Len(mail'[c][s]) >= Len(mail[c][s])
  <2>1. Len(mail'[c][s]) = Len(mail[c][s])
    BY <1>1, <1>6, FeedbackRewrites
  <2> QED
    BY <1>2, <2>1
<1> QED
  BY <1>2, <1>3, <1>4, <1>5, <1>6, MailChanges

(* A call changes by its own steps.                                        *)
LEMMA CallChanges ==
  ASSUME TypeOK, [Next]_vars, NEW k \in Calls, calls'[k] # calls[k]
  PROVE  Execute(k) \/ Abandon(k) \/ \E d \in Contacts : Select(k, d)
<1>1. ASSUME NEW l \in Calls, l # k, Execute(l) \/ Abandon(l)
      PROVE  calls'[k] = calls[k]
  BY <1>1 DEF TypeOK, Execute, Abandon, Load, RunOff, Delay, Decide,
     CheckSuppression, Send, Mark, Move, Put, Finish
<1>2. ASSUME NEW l \in Calls, NEW d \in Contacts, l # k, Select(l, d)
      PROVE  calls'[k] = calls[k]
  BY <1>2 DEF TypeOK, Select
<1>3. ASSUME NEW d \in Contacts, CheckContact(d) \/ Enroll(d) \/ Suppress(d)
             \/ \E v \in {"bounced", "replied"} : Stop(d, v)
      PROVE  calls' = calls
  BY <1>3 DEF CheckContact, Enroll, Suppress, Stop
<1>4. ASSUME NEW d \in Contacts, Feedback(d) PROVE calls' = calls
  BY <1>4 DEF Feedback, Opened, Bounced, Complained, Answer, SyncReply
<1>5. Tick \/ Clog \/ UNCHANGED vars => calls' = calls
  BY ClogAside DEF Tick, vars
<1> QED
  BY <1>1, <1>2, <1>3, <1>4, <1>5 DEF Next

LEMMA CallsAreKept ==
  IInv /\ TypeOK' /\ [Next]_vars => \A k \in Calls : CallSane(k)'
<1> SUFFICES ASSUME IInv, TypeOK', [Next]_vars, NEW k \in Calls
             PROVE  CallSane(k)'
  OBVIOUS
<1> DEFINE c == calls[k].contact
           s == calls[k].step
<1>1. TypeOK /\ CallSane(k) /\ calls[k] \in Call
  BY DEF IInv, TypeOK
<1>2. CASE calls'[k] = calls[k]
  <2>1. calls[k].at = "marking" => Len(mail'[c][s]) >= Len(mail[c][s])
                                   /\ Len(mail[c][s]) \in Nat
    BY <1>1, MailGrows DEF CallSane
  <2>2. calls[k].at = "marking" => Len(mail'[c][s]) \in Nat
    <3>1. calls[k].at = "marking" => mail'[c][s] \in Seq(Message)
      BY <1>1 DEF CallSane, TypeOK
    <3> QED
      BY <3>1, LenProperties
  <2>3. calls[k].at = "marking" => calls[k].nth \in 1..Len(mail'[c][s])
    <3>1. calls[k].at = "marking" => calls[k].nth \in 1..Len(mail[c][s])
      BY <1>1 DEF CallSane
    <3>2. \A x, y \in Nat : x <= y => \A n \in 1..x : n \in 1..y
      OBVIOUS
    <3> QED
      BY <2>1, <2>2, <3>1, <3>2
  <2> QED
    BY <1>1, <1>2, <2>3 DEF CallSane, Onward
<1>3. CASE calls'[k].at = "idle"
  BY <1>3 DEF CallSane
<1>4. ASSUME NEW d \in Contacts, Select(k, d) PROVE CallSane(k)'
  BY <1>1, <1>4 DEF Select, CallSane, TypeOK, Idle
<1>5. CASE Load(k) /\ calls'[k].at # "idle"
  <2>1. calls'[k].at = "loaded" /\ calls'[k].contact = c
    BY <1>1, <1>5 DEF Load, Finish, TypeOK, Idle, Call
  <2> QED
    BY <1>1, <1>5, <2>1 DEF CallSane, Load
<1>6. CASE RunOff(k)
  <2>1. calls'[k].at = "moving" /\ calls'[k].contact = c /\ calls'[k].to = End
    BY <1>1, <1>6 DEF RunOff, TypeOK, Call
  <2> QED
    BY <1>1, <1>6, <2>1 DEF CallSane, RunOff
<1>7. CASE Decide(k)
  <2>1. /\ calls'[k].at = "moving" /\ calls'[k].contact = c
        /\ calls'[k].step = s
        /\ calls'[k].to \in {After(c, s), s + 1}
    BY <1>1, <1>7 DEF Decide, TypeOK, Call
  <2>2. calls'[k].to = End \/ Onward(s, calls'[k].to)
    BY <1>7, <2>1, AfterForm DEF Decide
  <2> QED
    BY <1>1, <1>7, <2>1, <2>2 DEF CallSane, Decide, Onward
<1>8. CASE CheckSuppression(k) /\ calls'[k].at # "idle"
  <2>1. /\ calls'[k].at \in {"sending", "unchecked"}
        /\ calls'[k].contact = c /\ calls'[k].step = s
    BY <1>1, <1>8 DEF CheckSuppression, Put, Finish, TypeOK, Idle, Call
  <2> QED
    BY <1>1, <1>8, <2>1 DEF CallSane, CheckSuppression
<1>9. CASE Send(k) /\ calls'[k].at # "idle"
  <2>1. c \in Contacts /\ s \in StepIds /\ Steps[s].type = "email"
    BY <1>1, <1>9 DEF Send, CallSane
  <2>2. Leaves(c, s)
    BY <1>1, <1>9 DEF Send, Finish, TypeOK, Idle
  <2>3. /\ calls'[k].at = "marking" /\ calls'[k].contact = c
        /\ calls'[k].step = s /\ calls'[k].nth = Len(mail[c][s]) + 1
    BY <1>1, <1>9 DEF Send, Finish, TypeOK, Idle, Call
  <2>4. Len(mail[c][s]) + 1 \in 1..Len(mail'[c][s])
    BY <1>1, <2>1, <2>2, LeavesAppends
  <2> QED
    BY <2>1, <2>3, <2>4 DEF CallSane
<1>10. CASE Mark(k)
  <2>1. /\ calls'[k].at = "moving" /\ calls'[k].contact = c
        /\ calls'[k].step = s /\ calls'[k].to \in {End, s + 1}
    <3>1. calls \in [Calls -> Call]
      BY <1>1 DEF TypeOK
    <3>2. PICK t \in {End, s + 1} :
            calls' = [calls EXCEPT ![k].at = "moving", ![k].to = t]
      BY <1>10 DEF Mark
    <3> QED
      BY <1>1, <3>1, <3>2 DEF Call
  <2>2. c \in Contacts /\ s \in StepIds /\ Steps[s].type = "email"
    BY <1>1, <1>10 DEF Mark, CallSane
  <2>3. Onward(s, s + 1)
    BY <2>2 DEF Onward
  <2> QED
    BY <2>1, <2>2, <2>3 DEF CallSane, Onward
<1>11. Delay(k) \/ Move(k) \/ Abandon(k) => calls'[k].at = "idle"
  BY <1>1 DEF Delay, Move, Abandon, Finish, TypeOK, Idle
<1> QED
  BY <1>1, <1>2, <1>3, <1>4, <1>5, <1>6, <1>7, <1>8, <1>9, <1>10, <1>11,
     CallChanges DEF Execute

LEMMA StepKeepsIInv == IInv /\ [Next]_vars => IInv'
<1>1. IInv /\ [Next]_vars => TypeOK'
  BY TypeIsKept
<1> QED
  BY <1>1, CallsAreKept, ContactsAreKept DEF IInv

----------------------------------------------------------------------------
(* The theorems *)

THEOREM AlwaysIInv == Spec => []IInv
<1> QED
  BY InitIsSane, StepKeepsIInv, PTL DEF Spec

(* What the columns of the enrolment, the calls and the messages can hold. *)
THEOREM SequencesTypeCorrect == Spec => []TypeOK
<1>1. IInv => TypeOK
  BY DEF IInv
<1> QED
  BY <1>1, AlwaysIInv, PTL

(* executeStep: without a failure, only overlapping calls mail a step      *)
(* twice.                                                                  *)
THEOREM StepsRepeatOnlyByOverlap == Spec => []RepeatsOnlyByOverlap
<1>1. IInv => RepeatsOnlyByOverlap
  BY DEF IInv, ContactSane, Once, RepeatsOnlyByOverlap
<1> QED
  BY <1>1, AlwaysIInv, PTL

(* next_step_at: a step's first message waits for the delays before it.    *)
THEOREM DelaysAreWaited == Spec => DelayIsWaited
<1> DEFINE A == \A c \in Contacts, s \in StepIds :
                  /\ overlaps[c] = 0
                  /\ mail[c][s] = <<>>
                  /\ mail'[c][s] # <<>>
                  => \A d \in Waits(s) : since[c] >= Steps[d].days
<1>1. IInv /\ [Next]_vars => A
  <2> SUFFICES ASSUME IInv, [Next]_vars,
                      NEW c \in Contacts, NEW s \in StepIds,
                      overlaps[c] = 0, mail[c][s] = <<>>, mail'[c][s] # <<>>,
                      NEW d \in Waits(s)
               PROVE  since[c] >= Steps[d].days
    OBVIOUS
  <2>1. TypeOK /\ ContactSane(c)
    BY DEF IInv
  <2>2. PICK k \in Calls : Send(k)
    <3>1. ASSUME NEW l \in Calls, Mark(l), Sent(l) PROVE FALSE
      BY <2>1, <3>1, SentRewrites, RewriteKeeps DEF Mark, Sent
    <3>2. ASSUME NEW e \in Contacts, Feedback(e) PROVE FALSE
      BY <2>1, <3>2, FeedbackRewrites
    <3>3. mail' # mail
      OBVIOUS
    <3> QED
      BY <3>1, <3>2, <3>3, MailChanges
  <2>3. /\ calls[k].contact \in Contacts /\ calls[k].step \in StepIds
        /\ calls[k].at \in {"sending", "unchecked"}
        /\ Leaves(calls[k].contact, calls[k].step)
    BY <2>2 DEF IInv, CallSane, Send, inboxVars
  <2>4. calls[k].contact = c /\ calls[k].step = s
    BY <2>1, <2>3, LeavesAppends
  <2>5. k \in CallsOf(c)
    BY <2>3, <2>4 DEF CallsOf
  <2>6. enrollment[c].step = s /\ enrollment[c].due = 0
    BY <2>1, <2>3, <2>4, <2>5 DEF ContactSane, Alone
  <2>7. since[c] + 0 >= Steps[d].days
    BY <2>1, <2>6 DEF ContactSane, Spaced
  <2>8. since[c] \in Nat /\ Steps[d].days \in Nat
    <3>1. since[c] \in 0..MaxDays
      BY <2>1 DEF TypeOK
    <3>2. d \in StepIds /\ Steps[d].type = "delay"
      BY DEF Waits
    <3>3. Steps[d].days \in 1..MaxDays
      BY <3>2, Sizes
    <3> QED
      BY <3>1, <3>3, Sizes
  <2> QED
    BY <2>7, <2>8
<1>2. [][A]_vars => DelayIsWaited
  BY PTL DEF DelayIsWaited
<1> QED
  BY <1>1, <1>2, AlwaysIInv, PTL DEF Spec

(* The execute route and hv_check_suppression: who stops being active when *)
(* no call is past the load, or enters the suppression list when no call   *)
(* is past the check, is not mailed any more.                              *)
LEMMA StoppedStays ==
  ASSUME IInv, [Next]_vars, NEW c \in Contacts, Stopped(c), ~Underway(c)
  PROVE  Stopped(c)' /\ ~Underway(c)'
<1>1. TypeOK
  BY DEF IInv
<1>2. Stopped(c)'
  <2>1. enrollment[c].status \notin {"none", "active"}
        /\ enrollment \in [Contacts -> Enrollment]
    BY <1>1 DEF Stopped, TypeOK
  <2>2. ASSUME NEW k \in Calls, Execute(k) \/ Abandon(k)
        PROVE  enrollment'[c] = enrollment[c]
    <3>1. enrollment' = enrollment \/ calls[k].contact # c
      BY <2>2, <1>1 DEF Underway, CallsOf, Execute, Abandon, Load, RunOff, Delay,
         Decide, CheckSuppression, Send, Mark, Move
    <3> QED
      BY <2>1, <2>2, <3>1 DEF Execute, Abandon, Load, RunOff, Delay,
         Decide, CheckSuppression, Send, Mark, Move
  <2>3. ASSUME NEW d \in Contacts, Enroll(d)
        PROVE  enrollment'[c].status = enrollment[c].status
    BY <2>1, <2>3 DEF Enroll
  <2>4. ASSUME NEW d \in Contacts, NEW v \in {"bounced", "replied"}, Stop(d, v)
        PROVE  enrollment'[c].status = enrollment[c].status
    BY <2>1, <2>4 DEF Stop, Enrollment
  <2>5. CASE Tick
    BY <2>1, <2>5 DEF Tick, Stopped, Enrollment
  <2>6. ASSUME NEW d \in Contacts, CheckContact(d) \/ Suppress(d)
        PROVE  enrollment' = enrollment
    BY <2>6 DEF CheckContact, Suppress
  <2>7. ASSUME NEW d \in Contacts, Feedback(d) PROVE enrollment' = enrollment
    BY <2>7 DEF Feedback, Opened, Bounced, Complained, Answer, SyncReply
  <2>8. ASSUME NEW k \in Calls, NEW d \in Contacts, Select(k, d)
        PROVE  enrollment' = enrollment
    BY <2>8 DEF Select
  <2> QED
    BY <2>1, <2>2, <2>3, <2>4, <2>5, <2>6, <2>7, <2>8, ClogAside
       DEF Next, vars, Stopped
<1>3. ASSUME NEW l \in Calls, calls'[l].at \notin {"idle", "queued"},
             calls'[l].contact = c
      PROVE  FALSE
  <2>1. calls[l].at \in {"idle", "queued"} \/ calls[l].contact # c
    BY DEF Underway, CallsOf
  <2>2. calls[l] \in Call /\ calls \in [Calls -> Call] /\ ~Active(c)
    BY <1>1 DEF TypeOK, Stopped, Active
  <2>3. calls'[l] # calls[l]
    BY <1>3, <2>1
  <2>4. Execute(l) \/ Abandon(l) \/ \E d \in Contacts : Select(l, d)
    BY <2>3, <1>1, CallChanges
  <2>5. ASSUME NEW d \in Contacts, Select(l, d) PROVE FALSE
    BY <1>3, <2>2, <2>5 DEF Select, Idle
  <2>6. CASE Load(l)
    BY <1>3, <2>2, <2>6 DEF Load, Loadable, Finish, Idle, Call
  <2>7. CASE Execute(l) \/ Abandon(l)
    <3>1. calls'[l].contact = calls[l].contact \/ calls'[l].at = "idle"
      BY <2>2, <2>7 DEF Execute, Abandon, Load, RunOff, Delay, Decide,
         CheckSuppression, Send, Mark, Move, Put, Finish, Idle, Call
    <3>2. calls[l].at \notin {"idle", "queued"} \/ Load(l) \/ Abandon(l)
      BY <2>7 DEF Execute, RunOff, Delay, Decide, CheckSuppression, Send, Mark, Move
    <3> QED
      BY <1>3, <2>1, <2>2, <2>6, <3>1, <3>2 DEF Abandon, Finish, Idle
  <2> QED
    BY <2>4, <2>5, <2>7
<1> QED
  BY <1>2, <1>3 DEF Underway, CallsOf

LEMMA SuppressedStays ==
  ASSUME IInv, [Next]_vars, NEW c \in Contacts, c \in suppressed, ~Checked(c)
  PROVE  c \in suppressed' /\ ~Checked(c)'
<1>1. TypeOK
  BY DEF IInv
<1>2. c \in suppressed'
  <2>1. ASSUME NEW d \in Contacts, Feedback(d) PROVE suppressed' = suppressed
    BY <2>1 DEF Feedback, Opened, Bounced, Complained, Answer, SyncReply,
       listVars
  <2>2. ASSUME NEW d \in Contacts, CheckContact(d) \/ Enroll(d) \/ Suppress(d)
               \/ \E v \in {"bounced", "replied"} : Stop(d, v)
        PROVE  suppressed \subseteq suppressed'
    BY <2>2 DEF CheckContact, Enroll, Suppress, Stop, listVars
  <2>3. ASSUME NEW k \in Calls, Execute(k) \/ Abandon(k)
               \/ \E d \in Contacts : Select(k, d)
        PROVE  suppressed' = suppressed
    BY <2>3 DEF Execute, Abandon, Load, RunOff, Delay, Decide, CheckSuppression,
       Send, Mark, Move, Select, listVars
  <2>4. Tick \/ Clog \/ UNCHANGED vars => suppressed' = suppressed
    BY ClogAside DEF Tick, vars, listVars
  <2> QED
    BY <2>1, <2>2, <2>3, <2>4 DEF Next
<1>3. ASSUME NEW l \in Calls, calls'[l].at = "sending", calls'[l].contact = c
      PROVE  FALSE
  <2>1. calls[l].at # "sending" \/ calls[l].contact # c
    BY DEF Checked, CallsOf
  <2>2. calls[l] \in Call /\ calls \in [Calls -> Call]
    BY <1>1 DEF TypeOK
  <2>3. calls'[l] # calls[l]
    BY <1>3, <2>1
  <2>4. Execute(l) \/ Abandon(l) \/ \E d \in Contacts : Select(l, d)
    BY <2>3, <1>1, CallChanges
  <2>5. ASSUME NEW d \in Contacts, Select(l, d) PROVE FALSE
    BY <1>3, <2>2, <2>5 DEF Select, Idle
  <2>6. CASE CheckSuppression(l)
    BY <1>3, <2>2, <2>6 DEF CheckSuppression, Put, Finish, Idle, Call
  <2>7. CASE Load(l) \/ RunOff(l) \/ Delay(l) \/ Decide(l)
    BY <1>3, <2>2, <2>7 DEF Load, RunOff, Delay, Decide, Finish, Idle, Call
  <2>8. CASE Send(l) \/ Mark(l) \/ Move(l) \/ Abandon(l)
    BY <1>3, <2>2, <2>8 DEF Send, Mark, Move, Abandon, Finish, Idle, Call
  <2> QED
    BY <2>4, <2>5, <2>6, <2>7, <2>8 DEF Execute
<1> QED
  BY <1>2, <1>3 DEF Checked, CallsOf

THEOREM StoppedContactsGetNoMail == Spec => StoppedGetsNoMail
<1> SUFFICES ASSUME NEW c \in Contacts
             PROVE  Spec => /\ [](Stopped(c) /\ ~Underway(c) => []~Mailing(c))
                            /\ [](c \in suppressed /\ ~Checked(c) => []~Checked(c))
  BY DEF StoppedGetsNoMail
<1>1. IInv /\ [Next]_vars /\ (Stopped(c) /\ ~Underway(c))
        => (Stopped(c) /\ ~Underway(c))'
  BY StoppedStays
<1>2. IInv /\ [Next]_vars /\ (c \in suppressed /\ ~Checked(c))
        => (c \in suppressed /\ ~Checked(c))'
  BY SuppressedStays
<1>3. ~Underway(c) => ~Mailing(c)
  BY DEF Underway, Mailing
<1> QED
  BY <1>1, <1>2, <1>3, AlwaysIInv, PTL DEF Spec

----------------------------------------------------------------------------
(* The way forward: what EnrollmentsEnd needs besides the fairness         *)

(* What is still ahead of a call. *)
CallRank(k) ==
  CASE calls[k].at = "queued"                  -> 5
    [] calls[k].at = "loaded"                  -> 4
    [] calls[k].at \in {"sending", "unchecked"} -> 3
    [] calls[k].at = "marking"                 -> 2
    [] calls[k].at = "moving"                  -> 1
    [] OTHER                                   -> 0

(* A call that ends without a failure has served its contact.              *)
Served(k) ==
  LET c == calls[k].contact
  IN  \/ enrollment'[c].step > enrollment[c].step
      \/ enrollment'[c].status # "active"
      \/ c \in suppressed

GoesForward ==
  [][/\ \A k \in Calls : Execute(k) => CallRank(k)' < CallRank(k)
     /\ \A c \in Contacts :
          overlaps[c] = 0 => enrollment'[c].step >= enrollment[c].step
     /\ \A k \in Calls :
          /\ Execute(k) /\ calls'[k].at = "idle" /\ faults' = faults
          /\ overlaps[calls[k].contact] = 0
          => Served(k)]_vars

LEMMA CallsDescend ==
  ASSUME TypeOK, NEW k \in Calls, Execute(k)
  PROVE  CallRank(k)' < CallRank(k)
<1>1. calls \in [Calls -> Call] /\ calls[k] \in Call
  BY DEF TypeOK
<1>2. \/ calls[k].at = "queued" /\ calls'[k].at \in {"loaded", "idle"}
      \/ /\ calls[k].at = "loaded"
         /\ calls'[k].at \in {"sending", "unchecked", "moving", "idle"}
      \/ /\ calls[k].at \in {"sending", "unchecked"}
         /\ calls'[k].at \in {"marking", "idle"}
      \/ calls[k].at = "marking" /\ calls'[k].at = "moving"
      \/ calls[k].at = "moving" /\ calls'[k].at = "idle"
  <2>1. Finish(k) => calls'[k].at = "idle"
    BY <1>1 DEF Finish, Idle
  <2>2. CASE Load(k) \/ RunOff(k) \/ Delay(k)
    BY <1>1, <2>1, <2>2 DEF Load, RunOff, Delay, Call
  <2>3. CASE Decide(k) \/ CheckSuppression(k)
    BY <1>1, <2>1, <2>3 DEF Decide, CheckSuppression, Put, Call
  <2>4. CASE Send(k) \/ Mark(k) \/ Move(k)
    BY <1>1, <2>1, <2>4 DEF Send, Mark, Move, Call
  <2> QED
    BY <2>2, <2>3, <2>4 DEF Execute
<1> QED
  BY <1>2 DEF CallRank

(* Where a call leaves the enrolment it moves.                             *)
LEMMA MovesForward ==
  ASSUME IInv, NEW k \in Calls, Delay(k) \/ Move(k),
         overlaps[calls[k].contact] = 0
  PROVE  LET c == calls[k].contact
         IN  /\ enrollment'[c].step >= enrollment[c].step
             /\ faults' = faults => Served(k)
<1> DEFINE c == calls[k].contact
           e == enrollment[c]
           s == calls[k].step
           t == calls[k].to
<1>1. /\ TypeOK /\ CallSane(k) /\ calls[k] \in Call
      /\ calls[k].at \in {"loaded", "moving"}
  BY DEF IInv, TypeOK, Delay, Move
<1>2. c \in Contacts /\ k \in CallsOf(c)
  BY <1>1 DEF CallSane, CallsOf
<1>3. e \in Enrollment /\ e.step \in 0..End /\ e.step = s
  <2>1. e \in Enrollment /\ Alone(c)
    BY <1>2 DEF IInv, ContactSane, TypeOK
  <2> QED
    BY <1>1, <1>2, <2>1 DEF Alone, Enrollment
<1>4. CASE Fault /\ UNCHANGED enrollment
  <2>1. faults \in Int /\ faults' = faults + 1
    BY <1>1, <1>4, Sizes DEF Fault, TypeOK
  <2> QED
    BY <1>3, <1>4, <2>1, Sizes
<1>5. CASE Delay(k) /\ ~(Fault /\ UNCHANGED enrollment)
  <2>1. enrollment'[c] = [e EXCEPT !.step = s + 1, !.due = Steps[s].days]
    BY <1>1, <1>2, <1>5 DEF Delay, Delayed, TypeOK
  <2>2. enrollment'[c].step = s + 1
    BY <1>3, <2>1 DEF Enrollment
  <2> QED
    BY <1>3, <2>2, Sizes DEF Served
<1>6. CASE Move(k) /\ ~(Fault /\ UNCHANGED enrollment)
  <2>1. enrollment'[c] = MovedTo(e, t)
    BY <1>1, <1>2, <1>6 DEF Move, TypeOK
  <2>2. t \in 0..End /\ (t = End \/ t > s)
    <3>1. t \in 0..End /\ (t = End \/ (s \in StepIds /\ Onward(s, t)))
      BY <1>1, <1>6 DEF CallSane, Move, Call
    <3> QED
      BY <3>1, Sizes DEF Onward
  <2>3. CASE t >= End
    <3>1. enrollment'[c] = [e EXCEPT !.status = "completed"]
      BY <2>1, <2>3 DEF MovedTo
    <3>2. enrollment'[c].status = "completed" /\ enrollment'[c].step = e.step
      BY <1>3, <3>1 DEF Enrollment
    <3>3. enrollment'[c].status # "active"
      BY <3>2
    <3>4. Served(k)
      BY <3>3 DEF Served
    <3> QED
      BY <1>3, <3>2, <3>4, Sizes
  <2>4. CASE t < End
    <3>1. enrollment'[c] = [e EXCEPT !.step = t, !.due = WaitOf(t)]
      BY <2>1, <2>2, <2>4, Sizes DEF MovedTo
    <3>2. enrollment'[c].step = t /\ t > e.step
      BY <1>3, <2>2, <2>4, <3>1, Sizes DEF Enrollment
    <3> QED
      BY <1>3, <2>2, <3>2, Sizes DEF Served
  <2> QED
    BY <2>2, <2>3, <2>4, Sizes
<1> QED
  BY <1>4, <1>5, <1>6

(* Every step of a call brings it nearer to its end; while no calls for    *)
(* the contact overlap the enrolment never goes back; and a call that ends *)
(* without a failure has moved the enrolment on, found it stopped or its   *)
(* address suppressed.  What is left of EnrollmentsEnd is the fairness.    *)
THEOREM EnrollmentsGoForward == Spec => GoesForward
<1>1. ASSUME IInv, [Next]_vars, NEW c \in Contacts, overlaps[c] = 0
      PROVE  enrollment'[c].step >= enrollment[c].step
  <2>1. TypeOK /\ enrollment \in [Contacts -> Enrollment]
        /\ enrollment[c] \in Enrollment /\ enrollment[c].step \in Int
    BY <1>1, Sizes DEF IInv, TypeOK, Enrollment
  <2>2. CASE enrollment'[c] = enrollment[c]
    BY <2>1, <2>2
  <2>3. ASSUME NEW k \in Calls, Execute(k), enrollment'[c] # enrollment[c]
        PROVE  enrollment'[c].step >= enrollment[c].step
    <3>1. Delay(k) \/ Move(k)
      BY <2>3 DEF Execute, Load, RunOff, Decide, CheckSuppression, Send, Mark
    <3>2. calls[k].contact = c
      BY <2>1, <2>3, <3>1 DEF Delay, Move
    <3> QED
      BY <1>1, <3>1, <3>2, MovesForward
  <2>4. ASSUME NEW d \in Contacts, Enroll(d)
        PROVE  enrollment'[c].step >= enrollment[c].step
    <3>1. enrollment[c].status = "none" => enrollment[c].step = 0
      BY <1>1 DEF IInv, ContactSane, Absent
    <3>2. enrollment'[c] = enrollment[c]
          \/ (enrollment[c].status = "none" /\ enrollment'[c].step = 0)
      BY <2>1, <2>4 DEF Enroll
    <3> QED
      BY <2>1, <3>1, <3>2
  <2>5. ASSUME NEW d \in Contacts, NEW v \in {"bounced", "replied"}, Stop(d, v)
        PROVE  enrollment'[c].step = enrollment[c].step
    BY <2>1, <2>5 DEF Stop, Enrollment
  <2>6. CASE Tick
    <3>1. enrollment'[c].step = enrollment[c].step
      BY <2>1, <2>6 DEF Tick, Enrollment
    <3> QED
      BY <2>1, <3>1
  <2>7. ASSUME NEW d \in Contacts, CheckContact(d) \/ Suppress(d) \/ Feedback(d)
        PROVE  enrollment' = enrollment
    BY <2>7 DEF CheckContact, Suppress, Feedback, Opened, Bounced, Complained,
       Answer, SyncReply
  <2>8. ASSUME NEW k \in Calls, Abandon(k) \/ \E d \in Contacts : Select(k, d)
        PROVE  enrollment' = enrollment
    BY <2>8 DEF Abandon, Select
  <2> QED
    BY <1>1, <2>1, <2>2, <2>3, <2>4, <2>5, <2>6, <2>7, <2>8, ClogAside
       DEF Next, vars
<1>2. ASSUME IInv, NEW k \in Calls, Execute(k), calls'[k].at = "idle",
             faults' = faults, overlaps[calls[k].contact] = 0
      PROVE  Served(k)
  <2>1. /\ calls \in [Calls -> Call] /\ calls[k] \in Call
        /\ faults \in Int /\ ~Fault
    BY <1>2, Sizes DEF IInv, TypeOK, Fault
  <2>2. CASE Load(k)
    <3>1. enrollment[calls[k].contact].status # "active"
      BY <1>2, <2>1, <2>2 DEF Load, Loadable, Active, Call
    <3>2. enrollment' = enrollment
      BY <2>2 DEF Load
    <3> QED
      BY <3>1, <3>2 DEF Served
  <2>3. CASE RunOff(k) \/ Decide(k) \/ Mark(k)
    BY <1>2, <2>1, <2>3 DEF RunOff, Decide, Mark, Call
  <2>4. CASE CheckSuppression(k)
    BY <1>2, <2>1, <2>4 DEF CheckSuppression, Put, Served, Call
  <2>5. CASE Send(k)
    BY <1>2, <2>1, <2>5 DEF Send, Call
  <2>6. CASE Delay(k) \/ Move(k)
    BY <1>2, <2>6, MovesForward
  <2> QED
    BY <1>2, <2>2, <2>3, <2>4, <2>5, <2>6 DEF Execute
<1>3. IInv /\ [Next]_vars =>
        [/\ \A k \in Calls : Execute(k) => CallRank(k)' < CallRank(k)
         /\ \A c \in Contacts :
              overlaps[c] = 0 => enrollment'[c].step >= enrollment[c].step
         /\ \A k \in Calls :
              /\ Execute(k) /\ calls'[k].at = "idle" /\ faults' = faults
              /\ overlaps[calls[k].contact] = 0
              => Served(k)]_vars
  BY <1>1, <1>2, CallsDescend DEF IInv
<1> QED
  BY <1>3, AlwaysIInv, PTL DEF Spec, GoesForward
=============================================================================

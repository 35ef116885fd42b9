--------------------------- MODULE Approvals_proofs ---------------------------
(***************************************************************************)
(* Proofs about Approvals, for every set of approvals and requests, every  *)
(* scale of thresholds and every number of failures.                       *)
(*                                                                         *)
(* The claim is what everything rests on: an approval leaves "pending"     *)
(* once, so at most one request is between its claim and its write of the  *)
(* threshold, and no row read before that write has counted the approval.  *)
(***************************************************************************)
EXTENDS Approvals, FiniteSetTheorems, TLAPS

----------------------------------------------------------------------------
(* The inductive invariant *)

Unborn == {"none", "evaluating"}
Open == {"none", "evaluating", "pending"}
Deciding(q) == request[q].pc \in {"execute", "calibrate", "count", "write", "log"}
Uncounted(q) == /\ request[q].pc \in {"execute", "calibrate", "write"}
                /\ request[q].op \in Approving

(* Approvals whose decision no request is still about to count. *)
Settled ==
  {a \in Approved :
     \A q \in Requests : Uncounted(q) => request[q].target # a}

BackedBy(t, settled, approved) ==
  /\ t.streak <= t.approvals
  /\ t.approvals <= Cardinality(settled)
  /\ t.threshold < Default =>
       \E m \in Milestones : m <= Cardinality(approved)
Backed(t) == BackedBy(t, Settled, Approved)

(* What a request has done by the time it is at a place, and what it read. *)
Aimed(q) ==
  Deciding(q) =>
    /\ request[q].target \in Approvals
    /\ request[q].op \in Approving => status[request[q].target] = "approved"
    /\ request[q].op = "reject" => status[request[q].target] = "rejected"
Placed(q) ==
  /\ request[q].pc = "flag" => request[q].op = "flag"
  /\ request[q].pc = "count" => request[q].op \notin Approving
  /\ request[q].pc = "execute" =>
       request[q].op \in Approving /\ carried[request[q].target] = 0
Known(q) ==
  /\ \A a \in request[q].todo : status[a] \notin Unborn
  /\ \A a \in request[q].listed : status[a] \notin Open
RequestSane(q) ==
  Aimed(q) /\ Placed(q) /\ Known(q) /\ Backed(Threshold(request[q].snap))

(* No two requests are about to count the same approval. *)
Alone ==
  \A q, r \in Requests :
    Uncounted(q) /\ Uncounted(r) /\ request[q].target = request[r].target
      => q = r

(* LedgerTellsTruth, and nothing a batch reported is still to be submitted. *)
LedgerInv ==
  /\ LedgerTellsTruth
  /\ \A a \in Approvals :
       <<"approval_batch_approved", a>> \in ledger => status[a] \notin Open

IInv ==
  /\ TypeOK
  /\ \A q \in Requests : RequestSane(q)
  /\ Alone
  /\ Backed(Threshold(row))
  /\ CarriedOutOnce
  /\ CarriedWasApproved
  /\ LedgerInv

----------------------------------------------------------------------------
(* Type correctness *)

LEMMA ThresholdType ==
  ASSUME NEW t \in ThresholdRow \cup {NoRow}
  PROVE  Threshold(t) \in ThresholdRow
BY ThresholdAssumption DEF Threshold, VirtualDefault, ThresholdRow

(* The arithmetic of a calibration stays on the scale. *)
LEMMA CalibratedType ==
  ASSUME NEW r \in RequestState
  PROVE  Calibrated(r) \in ThresholdRow
<1> DEFINE t == Threshold(r.snap)
<1>1. t \in ThresholdRow /\ r.recent \in Nat
  BY ThresholdType DEF RequestState
<1> HIDE DEF t
<1>2. ApprovedClean(t) \in ThresholdRow
  BY <1>1, ThresholdAssumption DEF ApprovedClean, ThresholdRow, AtLeast
<1>3. ApprovedWithEdits(t) \in ThresholdRow
  BY <1>1, ThresholdAssumption DEF ApprovedWithEdits, ThresholdRow
<1>4. Rejected(t, r.recent) \in ThresholdRow
  BY <1>1, ThresholdAssumption DEF Rejected, ThresholdRow, AtMost
<1> QED
  BY <1>2, <1>3, <1>4 DEF Calibrated, t

LEMMA BlankType ==
  ASSUME NEW place \in Places
  PROVE  Blank(place) \in RequestState
BY DEF Blank, RequestState, Operations

LEMMA ResumedType ==
  ASSUME NEW r \in RequestState, NEW a \in Approvals \cup {NoApproval},
         NEW reported \in BOOLEAN, r.op = "approve_batch" => a \in Approvals
  PROVE  Resumed(r, a, reported) \in RequestState
BY DEF Resumed, Blank, RequestState, Places, Operations

LEMMA ClaimedType ==
  ASSUME NEW r \in RequestState, NEW a \in Approvals
  PROVE  Claimed(r, a) \in RequestState
BY DEF Claimed, RequestState, Places

(* A request that moves on alone keeps every request well typed. *)
LEMMA RequestType ==
  ASSUME TypeOK, NEW q \in Requests, NEW v \in RequestState,
         request' = [request EXCEPT ![q] = v]
  PROVE  request' \in [Requests -> RequestState]
BY DEF TypeOK

LEMMA FaultType ==
  ASSUME TypeOK, Fault \/ UNCHANGED faults
  PROVE  faults' \in 0..MaxFaults
BY FaultAssumption DEF TypeOK, Fault

LEMMA QueueType ==
  ASSUME TypeOK, NEW a \in Approvals,
         Evaluate(a) \/ Submit(a) \/ ExpirePending(a)
  PROVE  TypeOK'
<1>1. faults' \in 0..MaxFaults
  BY FaultType DEF Evaluate, Submit, ExpirePending
<1>2. status' \in [Approvals -> Statuses]
  BY DEF TypeOK, Statuses, Evaluate, Submit, ExpirePending
<1>3. type' \in [Approvals -> Types]
  BY DEF TypeOK, Evaluate, Submit, ExpirePending
<1>4. seen' \in [Approvals -> [threshold : 0..Ceiling, rule : Rules]]
  <2>1. Unseen \in [threshold : 0..Ceiling, rule : Rules]
    BY ThresholdAssumption DEF Unseen, Rules
  <2>2. Threshold(row).threshold \in 0..Ceiling
    BY ThresholdType DEF TypeOK, ThresholdRow
  <2> QED
    BY <2>1, <2>2 DEF TypeOK, Evaluate, Submit, ExpirePending
<1> QED
  BY <1>1, <1>2, <1>3, <1>4
  DEF TypeOK, Evaluate, Submit, ExpirePending, trustVars

LEMMA RouteType ==
  ASSUME TypeOK, NEW q \in Requests,
         NEW place \in Places, NEW operation \in Operations,
         NEW approvals \in SUBSET Approvals,
         Take(q, place, operation, approvals)
  PROVE  TypeOK'
<1>1. request[q] \in RequestState
  BY DEF TypeOK
<1>2. [request[q] EXCEPT !.pc = place, !.op = operation, !.todo = approvals]
        \in RequestState
  BY <1>1 DEF RequestState
<1>3. request' \in [Requests -> RequestState]
  BY <1>2, RequestType DEF Take
<1> QED
  BY <1>3 DEF Take, TypeOK, queueVars, trustVars

LEMMA ClaimType ==
  ASSUME TypeOK, NEW q \in Requests, NEW a \in Approvals,
         ClaimWon(q, a) \/ ClaimLost(q, a) \/ ClaimThrew(q, a)
  PROVE  TypeOK'
<1>1. request[q] \in RequestState
  BY DEF TypeOK
<1>2. /\ Claimed(request[q], a) \in RequestState
      /\ Resumed(request[q], a, TRUE) \in RequestState
      /\ Resumed(request[q], a, FALSE) \in RequestState
  BY <1>1, ClaimedType, ResumedType
<1>3. request' \in [Requests -> RequestState]
  <2>1. \E v \in RequestState : request' = [request EXCEPT ![q] = v]
    BY <1>2 DEF ClaimWon, ClaimLost, ClaimThrew, AfterLostClaim
  <2> QED
    BY <2>1, RequestType
<1>4. status' \in [Approvals -> Statuses]
  BY DEF TypeOK, Statuses, ClaimWon, ClaimLost, ClaimThrew, Decision, queueVars
<1>5. faults' \in 0..MaxFaults
  BY FaultType DEF ClaimWon, ClaimLost, ClaimThrew
<1> QED
  BY <1>3, <1>4, <1>5
  DEF TypeOK, ClaimWon, ClaimLost, ClaimThrew, queueVars, trustVars

LEMMA StepType ==
  ASSUME TypeOK, NEW q \in Requests,
         \/ Execute(q) \/ FlagRow(q) \/ ReadThreshold(q)
         \/ CountRejections(q) \/ WriteThreshold(q) \/ ThresholdThrew(q)
         \/ LogDecision(q) \/ LogBatch(q) \/ Crash(q),
         request[q].pc \in {"log", "calibrate", "execute"} =>
           request[q].target \in Approvals
  PROVE  TypeOK'
<1> DEFINE r == request[q]
<1>1. r \in RequestState
  BY DEF TypeOK
<1>2. faults' \in 0..MaxFaults
  BY FaultType DEF Execute, FlagRow, ReadThreshold, CountRejections,
    WriteThreshold, ThresholdThrew, LogDecision, LogBatch, Crash
<1>3. Blank("done") \in RequestState
  BY BlankType DEF Places
<1> HIDE DEF r
<1>4. CASE Execute(q)
  <2>1. [r EXCEPT !.pc = "calibrate"] \in RequestState
    BY <1>1 DEF RequestState, Places
  <2>2. request' \in [Requests -> RequestState]
    BY <1>4, <2>1, RequestType DEF Execute, r
  <2>3. carried' \in [Approvals -> Nat]
    BY <1>4 DEF Execute, TypeOK
  <2> QED
    BY <1>4, <2>2, <2>3 DEF Execute, TypeOK, queueVars, trustVars
<1>5. CASE FlagRow(q)
  <2>1. \A a \in r.todo : Claimed(r, a) \in RequestState
    BY <1>1, ClaimedType DEF RequestState
  <2>2. \E v \in RequestState : request' = [request EXCEPT ![q] = v]
    BY <1>5, <2>1 DEF FlagRow, r
  <2>3. request' \in [Requests -> RequestState]
    BY <2>2, RequestType
  <2>4. status' \in [Approvals -> Statuses]
    BY <1>5 DEF FlagRow, TypeOK, Statuses
  <2> QED
    BY <1>2, <1>5, <2>3, <2>4 DEF FlagRow, TypeOK, trustVars
<1>6. CASE ReadThreshold(q)
  <2>1. [r EXCEPT !.snap = row,
                  !.pc = IF r.op \in {"reject", "flag"} THEN "count"
                                                        ELSE "write"]
          \in RequestState
    BY <1>1 DEF RequestState, Places, TypeOK
  <2>2. request' \in [Requests -> RequestState]
    BY <1>6, <2>1, RequestType DEF ReadThreshold, r
  <2> QED
    BY <1>6, <2>2 DEF ReadThreshold, TypeOK, queueVars, trustVars
<1>7. CASE CountRejections(q)
  <2> DEFINE rejected == {a \in Approvals : status[a] = "rejected"}
  <2>1. \A old \in SUBSET (rejected \ {r.target}) :
          Cardinality(rejected \ old) \in Nat
    BY ApprovalAssumption, FS_Subset, FS_CardinalityType
  <2>2. \A n \in Nat :
          [r EXCEPT !.pc = "write", !.recent = n] \in RequestState
    BY <1>1 DEF RequestState, Places
  <2>3. [r EXCEPT !.pc = "write"] \in RequestState
    BY <1>1 DEF RequestState, Places
  <2>4. \E v \in RequestState : request' = [request EXCEPT ![q] = v]
    BY <1>7, <2>1, <2>2, <2>3 DEF CountRejections, r
  <2>5. request' \in [Requests -> RequestState]
    BY <2>4, RequestType
  <2> QED
    BY <1>2, <1>7, <2>5 DEF CountRejections, TypeOK, queueVars, trustVars
<1>8. CASE WriteThreshold(q)
  <2>1. [r EXCEPT !.pc = "log", !.snap = NoRow, !.recent = 0] \in RequestState
    BY <1>1 DEF RequestState, Places
  <2>2. request' \in [Requests -> RequestState]
    BY <1>8, <2>1, RequestType DEF WriteThreshold, r
  <2>3. row' \in ThresholdRow \cup {NoRow}
    BY <1>1, <1>8, CalibratedType DEF WriteThreshold, Persist, TypeOK, r
  <2> QED
    BY <1>2, <1>8, <2>2, <2>3 DEF WriteThreshold, TypeOK, queueVars
<1>9. CASE ThresholdThrew(q) \/ LogDecision(q)
  <2>1. r.target \in Approvals
    BY <1>9 DEF ThresholdThrew, LogDecision, r
  <2>2. /\ Resumed(r, r.target, TRUE) \in RequestState
        /\ Resumed(r, r.target, FALSE) \in RequestState
    BY <1>1, <2>1, ResumedType
  <2>3. \E v \in RequestState : request' = [request EXCEPT ![q] = v]
    BY <1>9, <2>2 DEF ThresholdThrew, LogDecision, r
  <2>4. request' \in [Requests -> RequestState]
    BY <2>3, RequestType
  <2> QED
    BY <1>2, <1>9, <2>4
    DEF ThresholdThrew, LogDecision, TypeOK, queueVars, trustVars
<1>10. CASE LogBatch(q) \/ Crash(q)
  <2>1. request' \in [Requests -> RequestState]
    BY <1>3, <1>10, RequestType DEF LogBatch, Crash
  <2> QED
    BY <1>2, <1>10, <2>1 DEF LogBatch, Crash, TypeOK, queueVars, trustVars
<1> QED
  BY <1>4, <1>5, <1>6, <1>7, <1>8, <1>9, <1>10

LEMMA OverrideType ==
  ASSUME TypeOK, SetOverride
  PROVE  TypeOK'
<1>1. [VirtualDefault EXCEPT !.threshold = Ceiling] \in ThresholdRow
  BY ThresholdAssumption DEF VirtualDefault, ThresholdRow
<1> QED
  BY <1>1 DEF SetOverride, TypeOK, queueVars

----------------------------------------------------------------------------
(* What every step preserves *)

(* Decided approvals stay decided; approved, rejected and expired ones for *)
(* good.                                                                   *)
Advances ==
  \A a \in Approvals :
    /\ status[a] \in {"approved", "rejected", "expired"} =>
         status'[a] = status[a]
    /\ status[a] \notin Unborn => status'[a] \notin Unborn
    /\ status[a] \notin Open => status'[a] \notin Open

(* A request is about to count an approval only if it was before the step, *)
(* or has just decided it.                                                 *)
Steady ==
  \A q \in Requests :
    Uncounted(q)' =>
      \/ Uncounted(q) /\ request'[q].target = request[q].target
      \/ request'[q].target \in Approvals /\ status[request'[q].target] = "pending"

(* Trust that is backed stays backed when more has been approved. *)
LEMMA BackedMonotone ==
  ASSUME NEW t \in ThresholdRow,
         NEW settled \in SUBSET Approvals, NEW settled2 \in SUBSET Approvals,
         NEW approved \in SUBSET Approvals, NEW approved2 \in SUBSET Approvals,
         settled \subseteq settled2, approved \subseteq approved2,
         BackedBy(t, settled, approved)
  PROVE  BackedBy(t, settled2, approved2)
<1>1. IsFiniteSet(settled2) /\ IsFiniteSet(approved2)
  BY ApprovalAssumption, FS_Subset
<1>2. /\ Cardinality(settled) <= Cardinality(settled2)
      /\ Cardinality(approved) <= Cardinality(approved2)
  BY <1>1, FS_Subset
<1>3. /\ Cardinality(settled) \in Nat /\ Cardinality(settled2) \in Nat
      /\ Cardinality(approved) \in Nat /\ Cardinality(approved2) \in Nat
  BY ApprovalAssumption, FS_Subset, FS_CardinalityType
<1>4. t.approvals \in Nat
  BY DEF ThresholdRow
<1>5. Milestones \subseteq Nat
  BY ThresholdAssumption
<1> QED
  BY <1>2, <1>3, <1>4, <1>5 DEF BackedBy

LEMMA Subsets == Settled \subseteq Approved /\ Approved \subseteq Approvals
BY DEF Settled, Approved

LEMMA SettledGrows ==
  ASSUME Advances, Steady
  PROVE  Approved \subseteq Approved' /\ Settled \subseteq Settled'
<1>1. Approved \subseteq Approved'
  BY DEF Advances, Approved
<1>2. ASSUME NEW a \in Settled, NEW q \in Requests, Uncounted(q)'
      PROVE  request'[q].target # a
  <2>1. status[a] = "approved"
    BY DEF Settled, Approved
  <2>2. Uncounted(q) => request[q].target # a
    BY DEF Settled
  <2> QED
    BY <1>2, <2>1, <2>2 DEF Steady
<1> QED
  BY <1>1, <1>2 DEF Settled

LEMMA BackedStays ==
  ASSUME Advances, Steady, NEW t \in ThresholdRow, BackedBy(t, Settled, Approved)
  PROVE  BackedBy(t, Settled', Approved')
<1>1. Settled' \subseteq Approvals /\ Approved' \subseteq Approvals
  BY DEF Settled, Approved
<1> QED
  BY <1>1, Subsets, SettledGrows, BackedMonotone

(* A request that does not move keeps what it knows. *)
LEMMA BystanderSane ==
  ASSUME TypeOK, TypeOK', Advances, Steady, NEW q \in Requests, RequestSane(q),
         request'[q] = request[q],
         request[q].pc = "execute" =>
           carried'[request[q].target] = carried[request[q].target]
  PROVE  RequestSane(q)'
<1>1. request[q] \in RequestState
  BY DEF TypeOK
<1>2. Aimed(q)'
  BY DEF RequestSane, Aimed, Deciding, Advances
<1>3. Placed(q)'
  BY DEF RequestSane, Placed
<1>4. Known(q)'
  BY <1>1 DEF RequestSane, Known, Advances, RequestState
<1>5. Backed(Threshold(request[q].snap))'
  <2> DEFINE t == Threshold(request[q].snap)
  <2>1. t \in ThresholdRow
    BY <1>1, ThresholdType DEF RequestState
  <2>2. BackedBy(t, Settled, Approved)
    BY DEF RequestSane, Backed
  <2>3. BackedBy(t, Settled', Approved')
    <3> HIDE DEF t
    <3> QED
      BY <2>1, <2>2, BackedStays
  <2> QED
    BY <2>3 DEF Backed, Threshold, BackedBy, VirtualDefault
<1> QED
  BY <1>2, <1>3, <1>4, <1>5 DEF RequestSane

(* When only request q moves, it is alone with what it is about to count:  *)
(* what it has just decided was nobody's.                                  *)
LEMMA AloneStays ==
  ASSUME \A r \in Requests : RequestSane(r), Alone, Steady, NEW q,
         \A r \in Requests : r # q => request'[r] = request[r]
  PROVE  Alone'
<1>1. SUFFICES ASSUME NEW p \in Requests, NEW r \in Requests,
                      Uncounted(p)', Uncounted(r)', r # q,
                      request'[p].target = request'[r].target
               PROVE  p = r
  BY DEF Alone
<1>2. Uncounted(r) /\ request'[r].target = request[r].target
  BY <1>1 DEF Uncounted
<1>3. status[request[r].target] = "approved"
  BY <1>2 DEF RequestSane, Aimed, Deciding, Uncounted
<1>4. Uncounted(p) /\ request'[p].target = request[p].target
  BY <1>1, <1>2, <1>3 DEF Steady
<1> QED
  BY <1>1, <1>2, <1>4 DEF Alone

LEMMA LedgerStays ==
  ASSUME LedgerInv, Advances, UNCHANGED ledger
  PROVE  LedgerInv'
BY DEF LedgerInv, LedgerTellsTruth, Advances, Open

(* One more entry, of a single decision, that is true. *)
LEMMA LedgerGrows ==
  ASSUME LedgerInv, Advances, NEW event, NEW b \in Approvals,
         ledger' = ledger \cup {<<event, b>>} \/ UNCHANGED ledger,
         event # "approval_batch_approved",
         event \in {"approval_approved", "approval_approved_with_edits"} =>
           status'[b] = "approved",
         event = "approval_rejected" => status'[b] = "rejected",
         event = "approval_expired" => status'[b] = "expired"
  PROVE  LedgerInv'
BY DEF LedgerInv, LedgerTellsTruth, Advances, Open

LEMMA CarriedStays ==
  ASSUME CarriedOutOnce, CarriedWasApproved, Advances, UNCHANGED carried
  PROVE  CarriedOutOnce' /\ CarriedWasApproved'
BY DEF CarriedOutOnce, CarriedWasApproved, Advances

LEMMA RowStays ==
  ASSUME IInv, Advances, Steady, UNCHANGED row
  PROVE  Backed(Threshold(row))'
<1> DEFINE t == Threshold(row)
<1>1. t \in ThresholdRow
  BY ThresholdType DEF IInv, TypeOK
<1>2. BackedBy(t, Settled, Approved)
  BY DEF IInv, Backed
<1>3. BackedBy(t, Settled', Approved')
  <2> HIDE DEF t
  <2> QED
    BY <1>1, <1>2, BackedStays
<1> QED
  BY <1>3 DEF Backed, Threshold, BackedBy, VirtualDefault

(* A step in which at most request q moves and nothing is carried out. *)
LEMMA Assembled ==
  ASSUME IInv, TypeOK', Advances, Steady, NEW q,
         \A r \in Requests : r # q => request'[r] = request[r],
         q \in Requests => RequestSane(q)',
         UNCHANGED carried, Backed(Threshold(row))', LedgerInv'
  PROVE  IInv'
<1>1. ASSUME NEW r \in Requests PROVE RequestSane(r)'
  <2>1. CASE r = q
    BY <2>1
  <2>2. CASE r # q
    BY <2>2, BystanderSane DEF IInv
  <2> QED
    BY <2>1, <2>2
<1>2. Alone'
  BY AloneStays DEF IInv
<1>3. CarriedOutOnce' /\ CarriedWasApproved'
  BY CarriedStays DEF IInv
<1> QED
  BY <1>1, <1>2, <1>3 DEF IInv

(* A step in which no request moves. *)
LEMMA Undisturbed ==
  ASSUME IInv, TypeOK', Advances, UNCHANGED <<request, carried>>,
         UNCHANGED row \/ Backed(Threshold(row))', LedgerInv'
  PROVE  IInv'
<1>1. Steady
  BY DEF Steady, Uncounted
<1>2. Backed(Threshold(row))'
  BY <1>1, RowStays
<1>3. \A r \in Requests : RequestSane(r)'
  BY <1>1, BystanderSane DEF IInv
<1> QED
  BY <1>1, <1>2, <1>3, Assembled

LEMMA QueueStep ==
  ASSUME IInv, NEW a \in Approvals,
         Evaluate(a) \/ Submit(a) \/ ExpirePending(a)
  PROVE  IInv'
<1>1. TypeOK'
  BY QueueType DEF IInv
<1>2. Advances
  BY DEF IInv, TypeOK, Advances, Unborn, Open, Evaluate, Submit, ExpirePending
<1>3. LedgerInv'
  <2>1. CASE Evaluate(a)
    BY <1>2, <2>1, LedgerStays DEF IInv, Evaluate
  <2>2. CASE Submit(a)
    <3>1. \/ ledger' = ledger \cup {<<"approval_auto_approved", a>>}
          \/ ledger' = ledger \cup {<<"approval_created", a>>}
          \/ UNCHANGED ledger
      BY <2>2 DEF Submit
    <3> QED
      BY <1>2, <3>1, LedgerGrows DEF IInv
  <2>3. CASE ExpirePending(a)
    <3>1. \/ ledger' = ledger \cup {<<"approval_expired", a>>}
          \/ UNCHANGED ledger
      BY <2>3 DEF ExpirePending
    <3>2. status'[a] = "expired"
      BY <2>3 DEF ExpirePending, IInv, TypeOK
    <3> QED
      BY <1>2, <3>1, <3>2, LedgerGrows DEF IInv
  <2> QED
    BY <2>1, <2>2, <2>3
<1>4. UNCHANGED <<row, request, carried>>
  BY DEF Evaluate, Submit, ExpirePending, trustVars
<1> QED
  BY <1>1, <1>2, <1>3, <1>4, Undisturbed

----------------------------------------------------------------------------
(* The requests *)

LEMMA SteadyWhenRested ==
  ASSUME NEW q, \A r \in Requests : r # q => request'[r] = request[r],
         q \in Requests =>
           ~Uncounted(q)' \/ (Uncounted(q)
                              /\ request'[q].target = request[q].target)
  PROVE  Steady
BY DEF Steady, Uncounted

LEMMA FreshBacked ==
  ASSUME NEW settled \in SUBSET Approvals, NEW approved
  PROVE  BackedBy(VirtualDefault, settled, approved)
<1>1. Cardinality(settled) \in Nat
  BY ApprovalAssumption, FS_Subset, FS_CardinalityType
<1> QED
  BY <1>1, ThresholdAssumption DEF BackedBy, VirtualDefault

LEMMA ResumedShape ==
  ASSUME NEW r \in RequestState, NEW a, NEW reported \in BOOLEAN
  PROVE  LET s == Resumed(r, a, reported)
         IN /\ s.pc \in {"claim", "log_batch", "done"}
            /\ s.snap = NoRow
            /\ s.todo \subseteq r.todo
            /\ s.listed \subseteq
                 r.listed \cup {b \in {a} : reported /\ r.op = "approve_batch"}
BY DEF Resumed, Blank, RequestState

(* A request between two approvals, or at its end. *)
LEMMA RestedSane ==
  ASSUME IInv, Advances, NEW q \in Requests,
         NEW a, NEW reported \in BOOLEAN,
         \/ request'[q] = Resumed(request[q], a, reported)
         \/ request'[q] = Blank("done"),
         reported /\ request[q].op = "approve_batch" => status'[a] \notin Open
  PROVE  RequestSane(q)' /\ ~Uncounted(q)'
<1> DEFINE s == request'[q]
<1>1. request[q] \in RequestState /\ RequestSane(q)
  BY DEF IInv, TypeOK
<1>2. /\ s.pc \in {"claim", "log_batch", "done"}
      /\ s.snap = NoRow
      /\ s.todo \subseteq request[q].todo
      /\ s.listed \subseteq request[q].listed
           \cup {b \in {a} : reported /\ request[q].op = "approve_batch"}
  <2>1. CASE s = Resumed(request[q], a, reported)
    BY <1>1, <2>1, ResumedShape
  <2>2. CASE s = Blank("done")
    BY <2>2 DEF Blank
  <2> QED
    BY <2>1, <2>2
<1>3. Aimed(q)' /\ Placed(q)' /\ ~Uncounted(q)'
  BY <1>2 DEF Aimed, Deciding, Placed, Uncounted
<1>4. Known(q)'
  BY <1>1, <1>2 DEF RequestSane, Known, Advances, RequestState
<1>5. Backed(Threshold(request[q].snap))'
  <2>1. Settled' \in SUBSET Approvals
    BY DEF Settled, Approved
  <2> QED
    BY <1>2, <2>1, FreshBacked DEF Backed, Threshold, BackedBy, VirtualDefault
<1> QED
  BY <1>3, <1>4, <1>5 DEF RequestSane

(* Request q leaves the queue and the trust alone and keeps what it read. *)
LEMMA KeptSane ==
  ASSUME IInv, TypeOK', Advances, Steady, NEW q \in Requests,
         request'[q].snap = request[q].snap,
         Aimed(q)', Placed(q)', Known(q)'
  PROVE  RequestSane(q)'
<1> DEFINE t == Threshold(request[q].snap)
<1>1. t \in ThresholdRow
  BY ThresholdType DEF IInv, TypeOK, RequestState
<1>2. BackedBy(t, Settled, Approved)
  BY DEF IInv, RequestSane, Backed
<1>3. BackedBy(t, Settled', Approved')
  <2> HIDE DEF t
  <2> QED
    BY <1>1, <1>2, BackedStays
<1> QED
  BY <1>3 DEF RequestSane, Backed, Threshold, BackedBy, VirtualDefault

LEMMA RouteStep ==
  ASSUME IInv, NEW q \in Requests,
         Decide(q) \/ DecideBatch(q) \/ Flag(q)
  PROVE  IInv'
<1>1. PICK place \in {"claim", "flag"}, operation \in Operations,
           approvals \in SUBSET Approvals :
        /\ Take(q, place, operation, approvals)
        /\ place = "flag" => operation = "flag"
        /\ \A a \in approvals : status[a] \notin Unborn
  <2>1. CASE Decide(q)
    BY <2>1 DEF Decide, Operations, Unborn
  <2>2. CASE DecideBatch(q)
    BY <2>2 DEF DecideBatch, Operations, Unborn
  <2>3. CASE Flag(q)
    BY <2>3 DEF Flag, Operations, Unborn
  <2> QED
    BY <2>1, <2>2, <2>3
<1>2. TypeOK'
  BY <1>1, RouteType DEF IInv, Places
<1>3. /\ UNCHANGED <<status, row, ledger, carried>>
      /\ \A r \in Requests : r # q => request'[r] = request[r]
  BY <1>1 DEF Take, queueVars, trustVars, IInv, TypeOK
<1>4. /\ request'[q].pc = place /\ request'[q].op = operation
      /\ request'[q].todo = approvals
      /\ request'[q].listed = request[q].listed
      /\ request'[q].snap = request[q].snap
  BY <1>1 DEF Take, IInv, TypeOK, RequestState
<1>5. Advances
  BY <1>3 DEF Advances
<1>6. Steady
  BY <1>3, <1>4, SteadyWhenRested DEF Uncounted
<1>7. RequestSane(q)'
  <2>1. Aimed(q)' /\ Placed(q)'
    BY <1>1, <1>4 DEF Aimed, Deciding, Placed
  <2>2. Known(q)'
    BY <1>1, <1>3, <1>4 DEF IInv, RequestSane, Known
  <2> QED
    BY <1>2, <1>4, <1>5, <1>6, <2>1, <2>2, KeptSane
<1>8. Backed(Threshold(row))' /\ LedgerInv'
  BY <1>3, <1>5, <1>6, RowStays, LedgerStays DEF IInv
<1> QED
  BY <1>2, <1>3, <1>5, <1>6, <1>7, <1>8, Assembled

(* The claim: only one request can win a pending approval. *)
LEMMA ClaimedShape ==
  ASSUME NEW r \in RequestState, NEW a \in Approvals
  PROVE  LET s == Claimed(r, a)
         IN /\ s.pc = IF r.op \in Approving THEN "execute" ELSE "calibrate"
            /\ s.target = a /\ s.op = r.op /\ s.snap = r.snap
            /\ s.todo \subseteq r.todo /\ s.listed = r.listed
BY DEF Claimed, RequestState

LEMMA ClaimWonStep ==
  ASSUME IInv, NEW q \in Requests, NEW a \in Approvals, ClaimWon(q, a)
  PROVE  IInv'
<1>1. TypeOK'
  BY ClaimType DEF IInv
<1>2. /\ UNCHANGED <<row, ledger, carried>> /\ status[a] = "pending"
      /\ \A r \in Requests : r # q => request'[r] = request[r]
      /\ request'[q] = Claimed(request[q], a)
      /\ status'[a] = Decision(request[q])
      /\ \A b \in Approvals : b # a => status'[b] = status[b]
  BY DEF ClaimWon, Claimable, trustVars, IInv, TypeOK
<1>3. LET s == request'[q]
      IN /\ s.pc = IF request[q].op \in Approving THEN "execute" ELSE "calibrate"
         /\ s.target = a /\ s.op = request[q].op
         /\ s.snap = request[q].snap
         /\ s.todo \subseteq request[q].todo /\ s.listed = request[q].listed
  BY <1>2, ClaimedShape DEF IInv, TypeOK
<1>4. Advances
  BY <1>2 DEF Advances, Decision, Unborn, Open
<1>5. Steady
  BY <1>2, <1>3 DEF Steady, Uncounted
<1>6. RequestSane(q)'
  <2>1. Aimed(q)'
    BY <1>2, <1>3 DEF Aimed, Deciding, Decision, Approving
  <2>2. carried[a] = 0
    BY <1>2 DEF IInv, TypeOK, CarriedWasApproved
  <2>3. Placed(q)'
    BY <1>2, <1>3, <2>2 DEF Placed
  <2>4. Known(q)'
    BY <1>3, <1>4 DEF IInv, RequestSane, Known, Advances, TypeOK, RequestState
  <2> QED
    BY <1>1, <1>3, <1>4, <1>5, <2>1, <2>3, <2>4, KeptSane
<1>7. Backed(Threshold(row))' /\ LedgerInv'
  BY <1>2, <1>4, <1>5, RowStays, LedgerStays DEF IInv
<1> QED
  BY <1>1, <1>2, <1>4, <1>5, <1>6, <1>7, Assembled

(* Every step after which a request is through with an approval, or ends.  *)
LEMMA RestedStep ==
  ASSUME IInv, TypeOK', Advances, NEW q \in Requests,
         NEW a, NEW reported \in BOOLEAN,
         \/ request' = [request EXCEPT ![q] = Resumed(@, a, reported)]
         \/ request' = [request EXCEPT ![q] = Blank("done")],
         reported /\ request[q].op = "approve_batch" => status'[a] \notin Open,
         UNCHANGED <<row, carried>>, LedgerInv'
  PROVE  IInv'
<1>1. /\ \A r \in Requests : r # q => request'[r] = request[r]
      /\ \/ request'[q] = Resumed(request[q], a, reported)
         \/ request'[q] = Blank("done")
  BY DEF IInv, TypeOK
<1>2. RequestSane(q)' /\ ~Uncounted(q)'
  BY <1>1, RestedSane
<1>3. Steady
  BY <1>1, <1>2, SteadyWhenRested
<1>4. Backed(Threshold(row))'
  BY <1>3, RowStays
<1> QED
  BY <1>1, <1>2, <1>3, <1>4, Assembled

LEMMA ClaimEndsStep ==
  ASSUME IInv, NEW q \in Requests, NEW a \in Approvals,
         ClaimLost(q, a) \/ ClaimThrew(q, a)
  PROVE  IInv'
<1>1. TypeOK'
  BY ClaimType DEF IInv
<1>2. UNCHANGED <<row, carried, ledger>>
  BY DEF ClaimLost, ClaimThrew, queueVars, trustVars
<1>3. Advances
  BY DEF ClaimLost, ClaimThrew, Claimable, Advances, Decision, Unborn, Open,
    IInv, TypeOK, queueVars
<1>4. LedgerInv'
  BY <1>2, <1>3, LedgerStays DEF IInv
<1>5. CASE ClaimLost(q, a)
  <2>1. status[a] \notin Open
    BY <1>5 DEF ClaimLost, Claimable, IInv, RequestSane, Known, Open, Unborn
  <2>2. status'[a] \notin Open
    BY <1>3, <2>1 DEF Advances
  <2>3. request' = [request EXCEPT ![q] = Resumed(@, a, TRUE)]
    BY <1>5 DEF ClaimLost, AfterLostClaim
  <2> QED
    BY <1>1, <1>2, <1>3, <1>4, <2>2, <2>3, RestedStep
<1>6. CASE ClaimThrew(q, a)
  <2>1. request' = [request EXCEPT ![q] = Resumed(@, a, FALSE)]
    BY <1>6 DEF ClaimThrew
  <2> QED
    BY <1>1, <1>2, <1>3, <1>4, <2>1, RestedStep
<1> QED
  BY <1>5, <1>6

(* A target is an approval, whose decision the row shows. *)
LEMMA TargetKnown ==
  ASSUME IInv, NEW q \in Requests, Deciding(q)
  PROVE  /\ request[q].target \in Approvals
         /\ request[q].op \in Approving =>
              status[request[q].target] = "approved"
         /\ request[q].op = "reject" =>
              status[request[q].target] = "rejected"
BY DEF IInv, RequestSane, Aimed

LEMMA StepTypeOK ==
  ASSUME IInv, NEW q \in Requests,
         \/ Execute(q) \/ FlagRow(q) \/ ReadThreshold(q)
         \/ CountRejections(q) \/ WriteThreshold(q) \/ ThresholdThrew(q)
         \/ LogDecision(q) \/ LogBatch(q) \/ Crash(q)
  PROVE  TypeOK'
<1>1. TypeOK
  BY DEF IInv
<1>2. request[q].pc \in {"log", "calibrate", "execute"} =>
        request[q].target \in Approvals
  BY TargetKnown DEF Deciding
<1> QED
  BY <1>1, <1>2, StepType

(* The side effect: request q is the only one still to carry it out. *)
LEMMA ExecuteStep ==
  ASSUME IInv, NEW q \in Requests, Execute(q)
  PROVE  IInv'
<1> DEFINE a == request[q].target
<1>1. TypeOK'
  BY StepTypeOK
<1>2. /\ UNCHANGED <<status, row, ledger>>
      /\ request[q].pc = "execute"
      /\ \A r \in Requests : r # q => request'[r] = request[r]
      /\ \A b \in Approvals : b # a => carried'[b] = carried[b]
      /\ carried'[a] \in {0, 1}
  BY TargetKnown DEF Execute, queueVars, trustVars, IInv, TypeOK, RequestSane,
    Placed, Deciding
<1>3. LET s == request'[q]
      IN /\ s.pc = "calibrate" /\ s.target = a /\ s.op = request[q].op
         /\ s.snap = request[q].snap
         /\ s.todo = request[q].todo /\ s.listed = request[q].listed
  BY DEF Execute, IInv, TypeOK, RequestState
<1>4. a \in Approvals /\ request[q].op \in Approving /\ status[a] = "approved"
  BY <1>2, TargetKnown DEF Deciding, IInv, RequestSane, Placed
<1>5. Advances
  BY <1>2 DEF Advances
<1>6. Steady
  BY <1>2, <1>3, SteadyWhenRested DEF Uncounted
<1>7. RequestSane(q)'
  <2>1. Aimed(q)' /\ Placed(q)' /\ Known(q)'
    BY <1>2, <1>3, <1>4
    DEF Aimed, Deciding, Placed, Known, IInv, RequestSane, Approving
  <2> QED
    BY <1>1, <1>3, <1>5, <1>6, <2>1, KeptSane
<1>8. ASSUME NEW r \in Requests, r # q
      PROVE  RequestSane(r)'
  <2>1. request'[r] = request[r]
    BY <1>2, <1>8
  <2>2. ASSUME request[r].pc = "execute"
        PROVE  carried'[request[r].target] = carried[request[r].target]
    <3>1. Uncounted(q) /\ Uncounted(r)
      BY <1>2, <1>4, <2>2 DEF Uncounted, IInv, RequestSane, Placed
    <3>2. request[r].target # a
      BY <1>8, <3>1 DEF IInv, Alone
    <3>3. request[r].target \in Approvals
      BY <2>2, TargetKnown DEF Deciding
    <3> QED
      BY <1>2, <3>2, <3>3
  <2> QED
    BY <1>1, <1>5, <1>6, <2>1, <2>2, BystanderSane DEF IInv
<1>9. Alone'
  BY <1>2, <1>6, AloneStays DEF IInv
<1>10. Backed(Threshold(row))' /\ LedgerInv'
  BY <1>2, <1>5, <1>6, RowStays, LedgerStays DEF IInv
<1>11. CarriedOutOnce' /\ CarriedWasApproved'
  BY <1>2, <1>4 DEF IInv, CarriedOutOnce, CarriedWasApproved
<1> QED
  BY <1>1, <1>7, <1>8, <1>9, <1>10, <1>11 DEF IInv

LEMMA FlagRowStep ==
  ASSUME IInv, NEW q \in Requests, FlagRow(q)
  PROVE  IInv'
<1>1. TypeOK'
  BY StepTypeOK
<1>2. PICK a \in Approvals :
        /\ request'[q] = Claimed(request[q], a)
        /\ \A b \in Approvals : status'[b] = status[b]
             \/ (status[b] = "auto_approved" /\ status'[b] = "flagged")
  <2>1. request[q].todo \subseteq Approvals
    BY DEF IInv, TypeOK, RequestState
  <2>2. PICK a \in request[q].todo :
          /\ request' = [request EXCEPT ![q] = Claimed(@, a)]
          /\ \/ status' = [status EXCEPT
                             ![a] = IF @ = "auto_approved" THEN "flagged" ELSE @]
             \/ UNCHANGED status
    BY DEF FlagRow
  <2>3. request'[q] = Claimed(request[q], a)
    BY <2>2 DEF IInv, TypeOK
  <2>4. \A b \in Approvals : status'[b] = status[b]
          \/ (status[b] = "auto_approved" /\ status'[b] = "flagged")
    BY <2>2 DEF IInv, TypeOK
  <2> QED
    BY <2>1, <2>3, <2>4
<1>3. /\ UNCHANGED <<row, ledger, carried>>
      /\ request[q].op = "flag"
      /\ \A r \in Requests : r # q => request'[r] = request[r]
  BY DEF FlagRow, trustVars, IInv, TypeOK, RequestSane, Placed
<1>4. LET s == request'[q]
      IN /\ s.pc = "calibrate" /\ s.target = a /\ s.op = "flag"
         /\ s.snap = request[q].snap
         /\ s.todo \subseteq request[q].todo /\ s.listed = request[q].listed
  BY <1>2, <1>3, ClaimedShape DEF IInv, TypeOK, Approving
<1>5. Advances
  BY <1>2 DEF Advances, Unborn, Open
<1>6. Steady
  BY <1>3, <1>4, SteadyWhenRested DEF Uncounted, Approving
<1>7. RequestSane(q)'
  <2>1. Aimed(q)' /\ Placed(q)'
    BY <1>4 DEF Aimed, Deciding, Placed, Approving
  <2>2. Known(q)'
    BY <1>4, <1>5 DEF IInv, RequestSane, Known, Advances, TypeOK, RequestState
  <2> QED
    BY <1>1, <1>4, <1>5, <1>6, <2>1, <2>2, KeptSane
<1>8. Backed(Threshold(row))' /\ LedgerInv'
  BY <1>3, <1>5, <1>6, RowStays, LedgerStays DEF IInv
<1> QED
  BY <1>1, <1>3, <1>5, <1>6, <1>7, <1>8, Assembled

(* The two reads of a calibration. *)
LEMMA ReadStep ==
  ASSUME IInv, NEW q \in Requests, ReadThreshold(q) \/ CountRejections(q)
  PROVE  IInv'
<1>1. TypeOK'
  BY StepTypeOK
<1>2. /\ UNCHANGED <<status, row, ledger, carried>>
      /\ \A r \in Requests : r # q => request'[r] = request[r]
      /\ request[q].pc \in {"calibrate", "count"}
      /\ request[q].pc = "count" => request[q].op \notin Approving
  BY DEF ReadThreshold, CountRejections, queueVars, trustVars, IInv, TypeOK,
    RequestSane, Placed
<1>3. LET s == request'[q]
      IN /\ s.pc \in {"count", "write"}
         /\ s.pc = "count" => s.op \notin Approving
         /\ s.target = request[q].target /\ s.op = request[q].op
         /\ s.snap = request[q].snap \/ s.snap = row
         /\ s.todo = request[q].todo /\ s.listed = request[q].listed
  <2> DEFINE r == request[q]
  <2>1. r \in RequestState
    BY DEF IInv, TypeOK
  <2>2. CASE ReadThreshold(q)
    <3>1. request'[q] =
            [r EXCEPT !.snap = row,
                      !.pc = IF r.op \in {"reject", "flag"} THEN "count"
                                                            ELSE "write"]
      BY <2>2 DEF ReadThreshold, IInv, TypeOK
    <3> HIDE DEF r
    <3>2. LET s == request'[q]
          IN /\ s.pc = IF r.op \in {"reject", "flag"} THEN "count" ELSE "write"
             /\ s.target = r.target /\ s.op = r.op /\ s.snap = row
             /\ s.todo = r.todo /\ s.listed = r.listed
      BY <2>1, <3>1 DEF RequestState
    <3> QED
      BY <3>2 DEF Approving, r
  <2>3. CASE CountRejections(q)
    <3>1. \/ \E n : request'[q] = [r EXCEPT !.pc = "write", !.recent = n]
          \/ request'[q] = [r EXCEPT !.pc = "write"]
      BY <2>3 DEF CountRejections, IInv, TypeOK
    <3> HIDE DEF r
    <3>2. LET s == request'[q]
          IN /\ s.pc = "write"
             /\ s.target = r.target /\ s.op = r.op /\ s.snap = r.snap
             /\ s.todo = r.todo /\ s.listed = r.listed
      BY <2>1, <3>1 DEF RequestState
    <3> QED
      BY <3>2 DEF r
  <2> QED
    BY <1>2, <2>2, <2>3 DEF ReadThreshold, CountRejections
<1>4. Advances
  BY <1>2 DEF Advances
<1>5. Steady
  BY <1>2, <1>3, SteadyWhenRested DEF Uncounted
<1>6. Backed(Threshold(row))' /\ LedgerInv'
  BY <1>2, <1>4, <1>5, RowStays, LedgerStays DEF IInv
<1>7. RequestSane(q)'
  <2>1. Aimed(q)' /\ Placed(q)' /\ Known(q)'
    BY <1>2, <1>3, TargetKnown DEF Aimed, Deciding, Placed, Known, IInv, RequestSane
  <2>2. CASE request'[q].snap = request[q].snap
    BY <1>1, <1>4, <1>5, <2>1, <2>2, KeptSane
  <2>3. CASE request'[q].snap = row
    BY <1>2, <1>6, <2>1, <2>3 DEF RequestSane
  <2> QED
    BY <1>3, <2>2, <2>3
<1> QED
  BY <1>1, <1>2, <1>4, <1>5, <1>6, <1>7, Assembled

----------------------------------------------------------------------------
(* The calibration *)

(* An approval that nobody had counted backs one more point of trust. *)
LEMMA CleanBacked ==
  ASSUME NEW t \in ThresholdRow,
         NEW settled \in SUBSET Approvals, NEW settled2 \in SUBSET Approvals,
         NEW approved \in SUBSET Approvals, NEW a \in Approvals \ settled,
         settled \cup {a} \subseteq settled2, settled2 \subseteq approved,
         BackedBy(t, settled, approved)
  PROVE  /\ BackedBy(ApprovedClean(t), settled2, approved)
         /\ BackedBy(ApprovedWithEdits(t), settled2, approved)
<1>1. /\ IsFiniteSet(settled) /\ IsFiniteSet(settled2) /\ IsFiniteSet(approved)
      /\ Cardinality(settled) \in Nat /\ Cardinality(settled2) \in Nat
      /\ Cardinality(approved) \in Nat
  BY ApprovalAssumption, FS_Subset, FS_CardinalityType
<1>2. Cardinality(settled \cup {a}) = Cardinality(settled) + 1
  BY <1>1, FS_AddElement
<1>3. /\ Cardinality(settled) + 1 <= Cardinality(settled2)
      /\ Cardinality(settled2) <= Cardinality(approved)
  BY <1>1, <1>2, FS_Subset
<1>4. t.streak \in Nat /\ t.approvals \in Nat /\ t.threshold \in Nat
  BY ThresholdAssumption DEF ThresholdRow
<1>5. t.streak + 1 <= Cardinality(approved)
  BY <1>1, <1>3, <1>4 DEF BackedBy
<1>6. BackedBy(ApprovedClean(t), settled2, approved)
  <2> DEFINE u == ApprovedClean(t)
  <2>1. /\ u.streak = t.streak + 1 /\ u.approvals = t.approvals + 1
        /\ u.threshold # t.threshold => t.streak + 1 \in Milestones
    BY DEF ApprovedClean
  <2>2. u.streak <= u.approvals /\ u.approvals <= Cardinality(settled2)
    BY <1>1, <1>3, <1>4, <2>1 DEF BackedBy
  <2>3. u.threshold < Default =>
          \E m \in Milestones : m <= Cardinality(approved)
    BY <1>5, <2>1 DEF BackedBy
  <2> QED
    BY <2>2, <2>3 DEF BackedBy
<1>7. BackedBy(ApprovedWithEdits(t), settled2, approved)
  BY <1>1, <1>3, <1>4 DEF BackedBy, ApprovedWithEdits
<1> QED
  BY <1>6, <1>7

(* A rejection takes trust and adds none. *)
LEMMA RejectedBacked ==
  ASSUME NEW t \in ThresholdRow, NEW n \in Nat,
         NEW settled, NEW approved, BackedBy(t, settled, approved)
  PROVE  BackedBy(Rejected(t, n), settled, approved)
<1> DEFINE u == Rejected(t, n)
<1>1. t.streak \in Nat /\ t.approvals \in Nat /\ t.threshold \in 0..Ceiling
  BY DEF ThresholdRow
<1>2. u.streak = 0 /\ u.approvals = t.approvals
  BY DEF Rejected
<1>3. u.threshold = Ceiling \/ u.threshold >= t.threshold
  BY <1>1, ThresholdAssumption DEF Rejected, AtMost
<1>4. u.threshold \in Int /\ (u.threshold < Default => t.threshold < Default)
  BY <1>1, <1>3, ThresholdAssumption DEF Rejected, AtMost
<1>5. t.streak <= t.approvals => 0 <= t.approvals
  BY <1>1
<1> HIDE DEF u
<1> QED
  BY <1>2, <1>4, <1>5 DEF BackedBy, u

(* The write: the approval q decided becomes one that is counted. *)
LEMMA WriteStep ==
  ASSUME IInv, NEW q \in Requests, WriteThreshold(q)
  PROVE  IInv'
<1> DEFINE r == request[q]
           t == Threshold(r.snap)
<1>1. TypeOK'
  BY StepTypeOK
<1>2. /\ UNCHANGED <<status, ledger, carried>> /\ r.pc = "write"
      /\ \A p \in Requests : p # q => request'[p] = request[p]
  BY DEF WriteThreshold, queueVars, IInv, TypeOK
<1>3. LET s == request'[q]
      IN /\ s.pc = "log" /\ s.snap = NoRow
         /\ s.target = r.target /\ s.op = r.op
         /\ s.todo = r.todo /\ s.listed = r.listed
  <2>1. r \in RequestState
    BY DEF IInv, TypeOK
  <2>2. request'[q] = [r EXCEPT !.pc = "log", !.snap = NoRow, !.recent = 0]
    BY DEF WriteThreshold, IInv, TypeOK
  <2> HIDE DEF r
  <2> QED
    BY <2>1, <2>2 DEF RequestState
<1>4. Advances
  BY <1>2 DEF Advances
<1>5. Steady
  BY <1>2, <1>3, SteadyWhenRested DEF Uncounted
<1>6. RequestSane(q)'
  <2>1. Aimed(q)' /\ Placed(q)' /\ Known(q)'
    BY <1>2, <1>3, TargetKnown DEF Aimed, Deciding, Placed, Known, IInv, RequestSane
  <2>2. Settled' \in SUBSET Approvals
    BY DEF Settled, Approved
  <2>3. BackedBy(VirtualDefault, Settled', Approved')
    BY <2>2, FreshBacked
  <2> QED
    BY <1>3, <2>1, <2>3 DEF RequestSane, Backed, Threshold, BackedBy, VirtualDefault
<1>7. BackedBy(Calibrated(r), Settled', Approved')
  <2>1. t \in ThresholdRow /\ r.recent \in Nat /\ r.op \in Operations
    BY ThresholdType DEF IInv, TypeOK, RequestState
  <2>2. BackedBy(t, Settled, Approved)
    BY DEF IInv, RequestSane, Backed
  <2>3. Approved' = Approved
    BY <1>2 DEF Approved
  <2>4. CASE r.op \in Approving
    <3>1. r.target \in Approved
      BY <1>2, <2>4, TargetKnown DEF Deciding, Approved
    <3>2. r.target \notin Settled
      BY <1>2, <2>4 DEF Settled, Uncounted
    <3>3. ASSUME NEW p \in Requests, Uncounted(p)'
          PROVE  request'[p].target # r.target
      <4>1. p # q /\ request'[p] = request[p] /\ Uncounted(p)
        BY <1>2, <1>3, <3>3 DEF Uncounted
      <4> QED
        BY <1>2, <2>4, <4>1 DEF IInv, Alone, Uncounted
    <3>4. r.target \in Settled'
      BY <2>3, <3>1, <3>3 DEF Settled
    <3>5. /\ Settled \cup {r.target} \subseteq Settled'
          /\ Settled' \subseteq Approved /\ Approved \subseteq Approvals
      BY <1>4, <1>5, <2>3, <3>4, SettledGrows DEF Settled, Approved
    <3> HIDE DEF t, r
    <3>6. /\ BackedBy(ApprovedClean(t), Settled', Approved)
          /\ BackedBy(ApprovedWithEdits(t), Settled', Approved)
      BY <2>1, <2>2, <3>1, <3>2, <3>5, CleanBacked
    <3> QED
      BY <2>3, <2>4, <3>6 DEF Calibrated, Approving, t
  <2>5. CASE r.op \notin Approving
    <3>1. BackedBy(t, Settled', Approved')
      <4> HIDE DEF t
      <4> QED
        BY <1>4, <1>5, <2>1, <2>2, BackedStays
    <3> HIDE DEF t, r
    <3>2. BackedBy(Rejected(t, r.recent), Settled', Approved')
      BY <2>1, <3>1, RejectedBacked
    <3> QED
      BY <2>1, <2>5, <3>2 DEF Calibrated, Approving, Operations, t
  <2> QED
    BY <2>4, <2>5
<1>8. Backed(Threshold(row))'
  <2>1. CASE UNCHANGED row
    BY <1>4, <1>5, <2>1, RowStays
  <2>2. CASE row' = Calibrated(r)
    <3>1. Calibrated(r) \in ThresholdRow
      BY CalibratedType DEF IInv, TypeOK
    <3>2. Calibrated(r) # NoRow
      BY <3>1, ThresholdAssumption DEF ThresholdRow
    <3> QED
      BY <1>7, <2>2, <3>2 DEF Backed, Threshold, BackedBy
  <2> QED
    BY <2>1, <2>2 DEF WriteThreshold, Persist
<1>9. LedgerInv'
  BY <1>2, <1>4, LedgerStays DEF IInv
<1> QED
  BY <1>1, <1>2, <1>4, <1>5, <1>6, <1>8, <1>9, Assembled

(* A decision that is logged, or given up. *)
LEMMA EndStep ==
  ASSUME IInv, NEW q \in Requests, ThresholdThrew(q) \/ LogDecision(q)
  PROVE  IInv'
<1> DEFINE r == request[q]
<1>1. TypeOK'
  BY StepTypeOK
<1>2. UNCHANGED <<status, row, carried>>
  BY DEF ThresholdThrew, LogDecision, queueVars, trustVars
<1>3. Advances
  BY <1>2 DEF Advances
<1>4. Deciding(q)
  BY DEF ThresholdThrew, LogDecision, Deciding
<1>5. CASE ThresholdThrew(q)
  <2>1. request' = [request EXCEPT ![q] = Resumed(@, r.target, FALSE)]
    BY <1>5 DEF ThresholdThrew
  <2>2. LedgerInv'
    BY <1>3, <1>5, LedgerStays DEF IInv, ThresholdThrew
  <2> QED
    BY <1>1, <1>2, <1>3, <2>1, <2>2, RestedStep
<1>6. CASE LogDecision(q)
  <2>1. request' = [request EXCEPT ![q] = Resumed(@, r.target, TRUE)]
    BY <1>6 DEF LogDecision
  <2>2. ledger' = ledger \cup {<<Event(r), r.target>>} \/ UNCHANGED ledger
    BY <1>6 DEF LogDecision
  <2>3. /\ r.target \in Approvals
        /\ r.op \in Approving => status'[r.target] = "approved"
        /\ r.op = "reject" => status'[r.target] = "rejected"
    BY <1>2, <1>4, TargetKnown
  <2> HIDE DEF r
  <2>4. /\ Event(r) \in {"approval_approved", "approval_approved_with_edits",
                         "approval_rejected", "approval_flagged"}
        /\ Event(r) \in {"approval_approved", "approval_approved_with_edits"} =>
             r.op \in Approving
        /\ Event(r) = "approval_rejected" => r.op = "reject"
    BY DEF Event, Approving
  <2>5. LedgerInv'
    BY <1>3, <2>2, <2>3, <2>4, LedgerGrows DEF IInv
  <2>6. r.op = "approve_batch" => status'[r.target] \notin Open
    BY <2>3 DEF Approving, Open
  <2> QED
    BY <1>1, <1>2, <1>3, <2>1, <2>5, <2>6, RestedStep DEF r
<1> QED
  BY <1>5, <1>6

(* The last entry of a batch, and the death of the process. *)
LEMMA DoneStep ==
  ASSUME IInv, NEW q \in Requests, LogBatch(q) \/ Crash(q)
  PROVE  IInv'
<1>1. TypeOK'
  BY StepTypeOK
<1>2. /\ UNCHANGED <<status, row, carried>>
      /\ request' = [request EXCEPT ![q] = Blank("done")]
  BY DEF LogBatch, Crash, queueVars, trustVars
<1>3. Advances
  BY <1>2 DEF Advances
<1>4. LedgerInv'
  <2>1. ledger' \subseteq
          ledger \cup ({"approval_batch_approved"} \X request[q].listed)
    BY DEF LogBatch, Crash
  <2>2. \A a \in request[q].listed : status'[a] \notin Open
    BY <1>2 DEF IInv, RequestSane, Known
  <2> QED
    BY <1>3, <2>1, <2>2 DEF IInv, LedgerInv, LedgerTellsTruth, Advances, Open
<1> QED
  BY <1>1, <1>2, <1>3, <1>4, RestedStep

LEMMA OverrideStep ==
  ASSUME IInv, SetOverride
  PROVE  IInv'
<1>1. TypeOK'
  BY OverrideType DEF IInv
<1>2. UNCHANGED <<status, ledger, request, carried>>
  BY DEF SetOverride, queueVars
<1>3. Advances
  BY <1>2 DEF Advances
<1>4. UNCHANGED row \/ Backed(Threshold(row))'
  <2> DEFINE v == [VirtualDefault EXCEPT !.threshold = Ceiling]
  <2>1. SUFFICES ASSUME row' = v PROVE Backed(Threshold(row))'
    BY DEF SetOverride
  <2>2. /\ v \in ThresholdRow /\ v.threshold = Ceiling
        /\ v.streak = 0 /\ v.approvals = 0
    BY ThresholdAssumption DEF VirtualDefault, ThresholdRow
  <2>3. Cardinality(Settled') \in Nat
    <3>1. Settled' \subseteq Approvals
      BY DEF Settled, Approved
    <3> QED
      BY <3>1, ApprovalAssumption, FS_Subset, FS_CardinalityType
  <2> HIDE DEF v
  <2>4. BackedBy(v, Settled', Approved')
    BY <2>2, <2>3, ThresholdAssumption DEF BackedBy
  <2>5. v # NoRow
    BY <2>2, ThresholdAssumption DEF ThresholdRow
  <2> QED
    BY <2>1, <2>4, <2>5 DEF Backed, Threshold, BackedBy
<1>5. LedgerInv'
  BY <1>2, <1>3, LedgerStays DEF IInv
<1> QED
  BY <1>1, <1>2, <1>3, <1>4, <1>5, Undisturbed

----------------------------------------------------------------------------
(* The invariant *)

LEMMA InitIsSane == Init => IInv
<1> SUFFICES ASSUME Init PROVE IInv
  OBVIOUS
<1>1. TypeOK
  <2>1. request \in [Requests -> RequestState]
    BY BlankType DEF Init, Places
  <2>2. seen \in [Approvals -> [threshold : 0..Ceiling, rule : Rules]]
    BY ThresholdAssumption DEF Init, Unseen, Rules
  <2> QED
    BY <2>1, <2>2, FaultAssumption DEF Init, TypeOK, Statuses, Types, Rules
<1>2. Backed(Threshold(NoRow))
  BY Subsets, FreshBacked DEF Backed, Threshold
<1>3. \A q \in Requests : RequestSane(q)
  BY <1>2 DEF Init, Blank, RequestSane, Aimed, Deciding, Placed, Known
<1>4. Alone
  BY DEF Init, Blank, Alone, Uncounted
<1>5. CarriedOutOnce /\ CarriedWasApproved /\ LedgerInv
  BY DEF Init, CarriedOutOnce, CarriedWasApproved, LedgerInv, LedgerTellsTruth
<1> QED
  BY <1>1, <1>2, <1>3, <1>4, <1>5 DEF IInv, Init

LEMMA NextKeepsInv == IInv /\ [Next]_vars => IInv'
<1> SUFFICES ASSUME IInv, [Next]_vars PROVE IInv'
  OBVIOUS
<1>1. ASSUME NEW a \in Approvals, Evaluate(a) \/ Submit(a) \/ ExpirePending(a)
      PROVE  IInv'
  BY <1>1, QueueStep
<1>2. ASSUME NEW q \in Requests, Decide(q) \/ DecideBatch(q) \/ Flag(q)
      PROVE  IInv'
  BY <1>2, RouteStep
<1>3. ASSUME NEW q \in Requests, Step(q) PROVE IInv'
  BY <1>3, ClaimWonStep, ClaimEndsStep, ExecuteStep, FlagRowStep, ReadStep,
    WriteStep, EndStep, DoneStep DEF Step
<1>4. ASSUME NEW q \in Requests, Crash(q) PROVE IInv'
  BY <1>4, DoneStep
<1>5. CASE SetOverride
  BY <1>5, OverrideStep
<1>6. CASE UNCHANGED vars
  <2>1. TypeOK' /\ Advances /\ LedgerInv'
    BY <1>6 DEF vars, queueVars, trustVars, IInv, TypeOK, Advances, LedgerInv,
      LedgerTellsTruth
  <2> QED
    BY <1>6, <2>1, Undisturbed DEF vars, trustVars
<1> QED
  BY <1>1, <1>2, <1>3, <1>4, <1>5, <1>6 DEF Next

LEMMA Invariance == Spec => []IInv
BY InitIsSane, NextKeepsInv, PTL DEF Spec

(* Every variable stays in its range: in particular every threshold stays  *)
(* between 0 and the ceiling, whatever sequence of decisions is calibrated. *)
THEOREM TypeCorrect == Spec => []TypeOK
<1>1. IInv => TypeOK
  BY DEF IInv
<1> QED
  BY <1>1, Invariance, PTL

(* executeApprovedAction runs at most once for an approval, however many   *)
(* requests decide it and wherever they fail.                              *)
THEOREM CarriedOutAtMostOnce == Spec => []CarriedOutOnce
<1>1. IInv => CarriedOutOnce
  BY DEF IInv
<1> QED
  BY <1>1, Invariance, PTL

(* executeApprovedAction runs for no approval that the queue does not show *)
(* as approved: a rejected or an expired action has no side effect here.   *)
THEOREM CarriedOnlyIfApproved == Spec => []CarriedWasApproved
<1>1. IInv => CarriedWasApproved
  BY DEF IInv
<1> QED
  BY <1>1, Invariance, PTL

(* calibrateThreshold counts no approval twice and credits none that was   *)
(* not given: lost updates only ever lower the counters.                   *)
THEOREM TrustAlwaysBacked == Spec => []TrustIsBacked
<1>1. IInv => TrustIsBacked
  <2> SUFFICES ASSUME IInv, row # NoRow PROVE row.streak <= row.approvals
                                       /\ row.approvals <= Cardinality(Approved)
    BY DEF TrustIsBacked
  <2>1. row \in ThresholdRow /\ BackedBy(row, Settled, Approved)
    BY DEF IInv, TypeOK, Backed, Threshold
  <2>2. /\ Cardinality(Settled) <= Cardinality(Approved)
        /\ Cardinality(Settled) \in Nat /\ Cardinality(Approved) \in Nat
    <3>1. IsFiniteSet(Approved)
      BY Subsets, ApprovalAssumption, FS_Subset
    <3>2. IsFiniteSet(Settled)
      BY <3>1, Subsets, FS_Subset
    <3> QED
      BY <3>1, <3>2, Subsets, FS_Subset, FS_CardinalityType
  <2> QED
    BY <2>1, <2>2 DEF BackedBy, ThresholdRow
<1> QED
  BY <1>1, Invariance, PTL

(* The bar for acting without the customer is never below where it started *)
(* unless a milestone's worth of approvals was given.                      *)
THEOREM TrustAlwaysEarned == Spec => []TrustIsEarned
<1>1. IInv => TrustIsEarned
  <2> SUFFICES ASSUME IInv, row # NoRow, row.threshold < Default
               PROVE  \E m \in Milestones : Cardinality(Approved) >= m
    BY DEF TrustIsEarned
  <2>1. BackedBy(row, Settled, Approved)
    BY DEF IInv, Backed, Threshold
  <2>2. PICK m \in Milestones : m <= Cardinality(Approved)
    BY <2>1 DEF BackedBy
  <2>3. m \in Nat /\ Cardinality(Approved) \in Nat
    BY Subsets, ApprovalAssumption, ThresholdAssumption, FS_Subset, FS_CardinalityType
  <2> QED
    BY <2>2, <2>3
<1> QED
  BY <1>1, Invariance, PTL

(* What the Ledger says of an approval is what its row shows. *)
THEOREM LedgerAlwaysTrue == Spec => []LedgerTellsTruth
<1>1. IInv => LedgerTellsTruth
  BY DEF IInv, LedgerInv
<1> QED
  BY <1>1, Invariance, PTL

----------------------------------------------------------------------------
(* What the parts add up to *)

(* Neither the counters nor the threshold show trust nobody gave.          *)
THEOREM TrustAlwaysRests == Spec => []TrustRestsOnApprovals
BY TrustAlwaysBacked, TrustAlwaysEarned, PTL DEF TrustRestsOnApprovals

----------------------------------------------------------------------------
(* The queue as a gate *)

(* Several requests decide and carry out the approvals, and the gate sees  *)
(* one decision and one start of each: a claim decides, what loses it does *)
(* nothing, and only the request that won an approval executes it.         *)
THEOREM GateIsImplemented == Spec => ImplementsGate
<1> DEFINE seenAs == [a \in Approvals |->
                        IF status[a] = "evaluating" THEN "none" ELSE status[a]]
<1>1. Init => Gate!Init
  BY DEF Init, Gate!Init
<1>2. IInv /\ [Next]_vars => [Gate!Next]_<<seenAs, carried>>
  <2> SUFFICES ASSUME IInv, [Next]_vars
               PROVE  \/ \E a \in Approvals : \/ Gate!Submit(a) \/ Gate!Decide(a)
                                               \/ Gate!Flag(a) \/ Gate!Carry(a)
                      \/ UNCHANGED <<seenAs, carried>>
    BY DEF Gate!Next
  <2>0. TypeOK
    BY DEF IInv
  <2>1. ASSUME NEW a \in Approvals, NEW v,
               status' = [status EXCEPT ![a] = v], v # "evaluating"
        PROVE  seenAs' = [seenAs EXCEPT ![a] = v]
    BY <2>0, <2>1 DEF TypeOK
  <2>2. ASSUME NEW a \in Approvals, Evaluate(a)
        PROVE  UNCHANGED <<seenAs, carried>>
    BY <2>0, <2>2 DEF Evaluate, TypeOK
  <2>3. ASSUME NEW a \in Approvals, Submit(a) PROVE Gate!Submit(a)
    <3>1. PICK v \in {"pending", "auto_approved"} :
                 status' = [status EXCEPT ![a] = v]
      BY <2>3 DEF Submit
    <3> QED
      BY <2>1, <2>3, <3>1 DEF Submit, Gate!Submit
  <2>4. ASSUME NEW a \in Approvals, status[a] = "pending",
               NEW v \in {"approved", "rejected", "expired"},
               status' = [status EXCEPT ![a] = v], UNCHANGED carried
        PROVE  Gate!Decide(a)
    BY <2>1, <2>4 DEF Gate!Decide
  <2>5. ASSUME NEW a \in Approvals, ExpirePending(a) PROVE Gate!Decide(a)
    BY <2>4, <2>5 DEF ExpirePending
  <2>6. ASSUME NEW q \in Requests, NEW a \in Approvals,
               ClaimWon(q, a) \/ ClaimLost(q, a) \/ ClaimThrew(q, a)
        PROVE  Gate!Decide(a) \/ UNCHANGED <<status, carried>>
    <3>1. \/ UNCHANGED <<status, carried>>
          \/ /\ Claimable(a) /\ UNCHANGED carried
             /\ status' = [status EXCEPT ![a] = Decision(request[q])]
      BY <2>6 DEF ClaimWon, ClaimLost, ClaimThrew, queueVars
    <3> QED
      BY <2>4, <3>1 DEF Claimable, Decision
  <2>7. ASSUME NEW q \in Requests, Execute(q)
        PROVE  \/ \E a \in Approvals : Gate!Carry(a)
               \/ UNCHANGED <<status, carried>>
    <3> DEFINE a == request[q].target
    <3>1. /\ request[q].pc = "execute" /\ UNCHANGED status
          /\ carried' = [carried EXCEPT ![a] = @ + 1] \/ UNCHANGED carried
      BY <2>7 DEF Execute, queueVars
    <3>2. request[q].op \in Approving /\ carried[a] = 0
      BY <3>1 DEF IInv, RequestSane, Placed
    <3>3. a \in Approvals /\ status[a] = "approved"
      BY <3>1, <3>2, TargetKnown DEF Deciding
    <3> QED
      BY <3>1, <3>2, <3>3 DEF Gate!Carry
  <2>8. ASSUME NEW q \in Requests, FlagRow(q)
        PROVE  \/ \E a \in Approvals : Gate!Flag(a)
               \/ UNCHANGED <<status, carried>>
    <3>1. PICK a \in request[q].todo :
            \/ status' = [status EXCEPT ![a] =
                            IF @ = "auto_approved" THEN "flagged" ELSE @]
            \/ UNCHANGED status
      BY <2>8 DEF FlagRow
    <3>2. a \in Approvals /\ UNCHANGED carried
      BY <2>0, <2>8 DEF FlagRow, TypeOK, RequestState
    <3>3. CASE status[a] = "auto_approved"
      <4>1. \/ status' = [status EXCEPT ![a] = "flagged"]
            \/ UNCHANGED status
        BY <3>1, <3>3
      <4> QED
        BY <2>1, <3>2, <3>3, <4>1 DEF Gate!Flag
    <3>4. CASE status[a] # "auto_approved"
      BY <2>0, <3>1, <3>2, <3>4 DEF TypeOK
    <3> QED
      BY <3>3, <3>4
  <2>9. CASE \/ SetOverride \/ UNCHANGED vars
             \/ \E q \in Requests :
                  \/ Decide(q) \/ DecideBatch(q) \/ Flag(q) \/ Crash(q)
                  \/ ReadThreshold(q) \/ CountRejections(q)
                  \/ WriteThreshold(q) \/ ThresholdThrew(q)
                  \/ LogDecision(q) \/ LogBatch(q)
    BY <2>9 DEF SetOverride, vars, queueVars, Decide, DecideBatch, Flag, Take,
                Crash, ReadThreshold, CountRejections, WriteThreshold,
                ThresholdThrew, LogDecision, LogBatch
  <2> QED
    BY <2>2, <2>3, <2>5, <2>6, <2>7, <2>8, <2>9 DEF Next, Step
<1> QED
  BY <1>1, <1>2, Invariance, PTL DEF Spec, ImplementsGate, Gate!Spec

----------------------------------------------------------------------------
(* Trust without races *)

(* No calibration under way has read a row that was written since.         *)
NeverStale ==
  \A q \in Requests :
    request[q].pc \in {"count", "write"} => request[q].snap = row

(* Of the approvals whose calibration is not still under way, the counter  *)
(* misses at most one for each failure.                                    *)
MissedOnlyByFault ==
  Cardinality(Settled) <= Threshold(row).approvals + faults

(* What a rejection makes of a threshold is not lower.                     *)
LEMMA RejectionRaises ==
  ASSUME NEW t \in ThresholdRow, NEW n \in Nat
  PROVE  ~(Rejected(t, n).threshold < t.threshold)
<1>1. t.threshold \in Nat /\ t.threshold <= Ceiling
  BY ThresholdAssumption DEF ThresholdRow
<1> QED
  BY <1>1, ThresholdAssumption DEF Rejected, AtMost

(* The stale read is all that is wrong: as long as no calibration          *)
(* overwrites a row it has not read, "20 consecutive clean" is the only    *)
(* thing that lowers a threshold, whatever else overlaps or fails.         *)
THEOREM TrustGrowsByStreakUnlessStale ==
  Spec /\ []NeverStale => TrustGrowsOnlyByStreak
<1>1. IInv /\ NeverStale /\ [Next]_vars
        => [row # NoRow /\ row'.threshold < row.threshold
              => row'.streak \in Milestones]_row
  <2> SUFFICES ASSUME IInv, NeverStale, [Next]_vars, row # NoRow,
                      row' # row, row'.threshold < row.threshold
               PROVE  row'.streak \in Milestones
    OBVIOUS
  <2>1. PICK q \in Requests : WriteThreshold(q)
    BY DEF Next, Step, vars, queueVars, trustVars, Evaluate, Submit,
      ExpirePending, Decide, DecideBatch, Flag, Take, Crash, ClaimWon,
      ClaimLost, ClaimThrew, Execute, FlagRow, ReadThreshold,
      CountRejections, ThresholdThrew, LogDecision, LogBatch, SetOverride
  <2>2. request[q].snap = row /\ row' = Calibrated(request[q])
    BY <2>1 DEF NeverStale, WriteThreshold, Persist
  <2>3. /\ row \in ThresholdRow /\ request[q].recent \in Nat
        /\ Threshold(request[q].snap) = row
    BY <2>2 DEF IInv, TypeOK, RequestState, Threshold
  <2>4. row' # Rejected(row, request[q].recent)
    BY <2>3, RejectionRaises
  <2>5. row' = ApprovedWithEdits(row) \/ row' = ApprovedClean(row)
    BY <2>2, <2>3, <2>4 DEF Calibrated
  <2>6. CASE row' = ApprovedWithEdits(row)
    <3>1. row'.threshold = row.threshold /\ row.threshold \in Nat
      BY <2>3, <2>6, ThresholdAssumption DEF ApprovedWithEdits, ThresholdRow
    <3> QED
      BY <3>1
  <2>7. CASE row' = ApprovedClean(row)
    <3>1. /\ row'.streak = row.streak + 1 /\ row.threshold \in Nat
          /\ row'.threshold # row.threshold => row.streak + 1 \in Milestones
      BY <2>3, <2>7, ThresholdAssumption DEF ApprovedClean, ThresholdRow
    <3> QED
      BY <3>1
  <2> QED
    BY <2>5, <2>6, <2>7
<1> QED
  BY <1>1, Invariance, PTL DEF Spec, TrustGrowsOnlyByStreak

(* A step of request q settles no approval but x.                          *)
LEMMA SettlesOnly ==
  ASSUME NEW q, NEW x,
         Approved' \subseteq Approved \cup {x},
         \A r \in Requests : r # q => request'[r] = request[r],
         q \in Requests /\ Uncounted(q) =>
           \/ request[q].target = x
           \/ Uncounted(q)' /\ request'[q].target = request[q].target
  PROVE  Settled' \subseteq Settled \cup {x}
<1> SUFFICES ASSUME NEW a \in Settled', a # x, NEW r \in Requests, Uncounted(r),
                    request[r].target = a
             PROVE  FALSE
  BY DEF Settled
<1>1. CASE r = q
  BY <1>1 DEF Settled
<1>2. CASE r # q
  BY <1>2 DEF Settled, Uncounted
<1> QED
  BY <1>1, <1>2

(* What each step settles: nothing, but for a failure and for the write of *)
(* a calibration, which settle at most the approval they are about.        *)
LEMMA SettledByStep ==
  ASSUME IInv, [Next]_vars
  PROVE  \/ Settled' \subseteq Settled
         \/ \E x : /\ Settled' \subseteq Settled \cup {x}
                  /\ \/ Fault
                     \/ \E q \in Requests :
                          /\ WriteThreshold(q)
                          /\ request[q].op \in Approving
<1> USE DEF IInv
<1>0. TypeOK /\ NoApproval \notin Settled' /\ NoApproval \notin Approvals
  BY ApprovalAssumption DEF Settled, Approved
<1>1. ASSUME NEW a \in Approvals, Evaluate(a) \/ Submit(a) \/ ExpirePending(a)
      PROVE  Settled' \subseteq Settled
  <2>1. Approved' \subseteq Approved \cup {NoApproval} /\ UNCHANGED request
    BY <1>0, <1>1 DEF Evaluate, Submit, ExpirePending, TypeOK, Approved
  <2> QED
    BY <1>0, <2>1, SettlesOnly DEF Uncounted
<1>2. ASSUME NEW q \in Requests,
             \/ Decide(q) \/ DecideBatch(q) \/ Flag(q) \/ FlagRow(q)
             \/ CountRejections(q) \/ LogDecision(q) \/ LogBatch(q)
             \/ \E a \in Approvals : ClaimLost(q, a)
      PROVE  Settled' \subseteq Settled
  <2>1. \A r \in Requests : r # q => request'[r] = request[r]
    BY <1>0, <1>2
       DEF TypeOK, Decide, DecideBatch, Flag, Take, FlagRow, CountRejections,
           LogDecision, LogBatch, ClaimLost
  <2>2. Approved' \subseteq Approved
    <3>1. CASE FlagRow(q)
      BY <1>0, <3>1 DEF FlagRow, TypeOK, Approved
    <3>2. CASE ~FlagRow(q)
      <4>1. UNCHANGED status
        BY <1>2, <3>2
           DEF Decide, DecideBatch, Flag, Take, CountRejections, LogDecision,
               LogBatch, ClaimLost, queueVars
      <4> QED
        BY <4>1 DEF Approved
    <3> QED
      BY <3>1, <3>2
  <2>3. ~Uncounted(q)
    BY <1>2
       DEF Uncounted, Decide, DecideBatch, Flag, Take, FlagRow,
           CountRejections, LogDecision, LogBatch, ClaimLost
  <2> QED
    BY <1>0, <2>1, <2>2, <2>3, SettlesOnly
<1>3. ASSUME NEW q \in Requests, Execute(q) \/ ReadThreshold(q)
      PROVE  Settled' \subseteq Settled
  <2>1. /\ \A r \in Requests : r # q => request'[r] = request[r]
        /\ Approved' = Approved
    BY <1>0, <1>3
       DEF TypeOK, Execute, ReadThreshold, queueVars, Approved
  <2>2. request[q].op \in Approving =>
          Uncounted(q)' /\ request'[q].target = request[q].target
    <3> DEFINE r == request[q]
    <3>1. r \in RequestState
      BY <1>0 DEF TypeOK
    <3>2. request'[q] \in
            {[r EXCEPT !.pc = "calibrate"],
             [r EXCEPT !.snap = row,
                       !.pc = IF r.op \in {"reject", "flag"} THEN "count"
                                                             ELSE "write"]}
      BY <1>0, <1>3 DEF TypeOK, Execute, ReadThreshold
    <3> HIDE DEF r
    <3>3. /\ request'[q].target = r.target /\ request'[q].op = r.op
          /\ request'[q].pc \in {"calibrate", "count", "write"}
          /\ request'[q].pc = "count" => r.op \in {"reject", "flag"}
      BY <3>1, <3>2 DEF RequestState
    <3> QED
      BY <3>3 DEF Uncounted, Approving, r
  <2> QED
    BY <1>0, <2>1, <2>2, SettlesOnly DEF Uncounted
<1>4. ASSUME NEW q \in Requests, NEW a \in Approvals, ClaimWon(q, a)
      PROVE  Settled' \subseteq Settled
  <2>1. /\ \A r \in Requests : r # q => request'[r] = request[r]
        /\ Approved' \subseteq Approved \cup {a}
        /\ request'[q] = Claimed(request[q], a) /\ ~Uncounted(q)
        /\ status'[a] = Decision(request[q])
    BY <1>0, <1>4 DEF TypeOK, ClaimWon, Approved, Uncounted
  <2>2. Settled' \subseteq Settled \cup {a}
    BY <2>1, SettlesOnly
  <2>3. a \notin Settled'
    BY <1>0, <2>1, ClaimedShape
       DEF TypeOK, Settled, Approved, Uncounted, Decision
  <2> QED
    BY <2>2, <2>3
<1>5. ASSUME NEW q \in Requests, NEW a \in Approvals, ClaimThrew(q, a)
      PROVE  Fault /\ Settled' \subseteq Settled \cup {a}
  <2>1. /\ \A r \in Requests : r # q => request'[r] = request[r]
        /\ Approved' \subseteq Approved \cup {a} /\ ~Uncounted(q) /\ Fault
    BY <1>0, <1>5 DEF TypeOK, ClaimThrew, Approved, Uncounted
  <2> QED
    BY <2>1, SettlesOnly
<1>6. ASSUME NEW q \in Requests,
             WriteThreshold(q) \/ ThresholdThrew(q) \/ Crash(q)
      PROVE  Settled' \subseteq Settled \cup {request[q].target}
  <2>1. /\ \A r \in Requests : r # q => request'[r] = request[r]
        /\ Approved' = Approved
    BY <1>0, <1>6
       DEF TypeOK, WriteThreshold, ThresholdThrew, Crash, queueVars, Approved
  <2> QED
    BY <2>1, SettlesOnly
<1>7. ASSUME NEW q \in Requests, WriteThreshold(q),
             request[q].op \notin Approving
      PROVE  Settled' \subseteq Settled
  <2>1. /\ \A r \in Requests : r # q => request'[r] = request[r]
        /\ Approved' = Approved /\ ~Uncounted(q)
    BY <1>0, <1>7 DEF TypeOK, WriteThreshold, queueVars, Approved, Uncounted
  <2>2. Settled' \subseteq Settled \cup {NoApproval}
    BY <2>1, SettlesOnly
  <2> QED
    BY <1>0, <2>2
<1>8. CASE SetOverride \/ UNCHANGED vars
  <2>1. Approved' = Approved /\ UNCHANGED request
    BY <1>8 DEF SetOverride, vars, queueVars, Approved
  <2> QED
    BY <2>1 DEF Settled, Uncounted
<1>9. ASSUME NEW q \in Requests, ThresholdThrew(q) \/ Crash(q) PROVE Fault
  BY <1>9 DEF ThresholdThrew, Crash
<1> HIDE DEF IInv
<1> QED
  BY <1>1, <1>2, <1>3, <1>4, <1>5, <1>6, <1>7, <1>8, <1>9 DEF Next, Step

(* And a race is the only other way to lose an approval: as long as no     *)
(* calibration is stale, the counter misses at most one approval for each  *)
(* failure, and none without one.                                          *)
THEOREM TrustMissesOnlyByFault ==
  Spec /\ []NeverStale => []MissedOnlyByFault
<1>1. Init => MissedOnlyByFault
  <2> SUFFICES ASSUME Init PROVE MissedOnlyByFault
    OBVIOUS
  <2>1. Settled = {}
    BY DEF Init, Settled, Approved
  <2> QED
    BY <2>1, FS_EmptySet
       DEF Init, MissedOnlyByFault, Threshold, VirtualDefault
<1>2. IInv /\ IInv' /\ NeverStale /\ MissedOnlyByFault /\ [Next]_vars
        => MissedOnlyByFault'
  <2> SUFFICES ASSUME IInv, IInv', NeverStale, MissedOnlyByFault, [Next]_vars
               PROVE  MissedOnlyByFault'
    OBVIOUS
  <2> DEFINE n == Threshold(row).approvals
             m == Threshold(row').approvals
  <2>1. /\ Threshold(row) \in ThresholdRow /\ n \in Nat /\ m \in Nat
        /\ faults \in Nat /\ faults' \in Nat
    BY ThresholdType, FaultAssumption DEF IInv, TypeOK, ThresholdRow
  <2>2. /\ IsFiniteSet(Settled) /\ Cardinality(Settled) \in Nat
        /\ IsFiniteSet(Settled') /\ Cardinality(Settled') \in Nat
    <3>1. Settled \subseteq Approvals /\ Settled' \subseteq Approvals
      BY DEF Settled, Approved
    <3> QED
      BY <3>1, ApprovalAssumption, FS_Subset, FS_CardinalityType
  <2>3. faults' = faults \/ faults' = faults + 1
    BY DEF Next, Step, vars, Fault, Evaluate, Submit, ExpirePending, Decide,
      DecideBatch, Flag, Take, Crash, ClaimWon, ClaimLost, ClaimThrew, Execute,
      FlagRow, ReadThreshold, CountRejections, WriteThreshold, ThresholdThrew,
      LogDecision, LogBatch, SetOverride
  <2>4. ASSUME NEW q \in Requests, WriteThreshold(q)
        PROVE  \/ /\ UNCHANGED row /\ Fault
               \/ /\ m >= n
                  /\ request[q].op \in Approving => m = n + 1
    <3>1. \/ UNCHANGED row /\ Fault
          \/ row' = Calibrated(request[q]) /\ request[q].snap = row
      BY <2>4 DEF WriteThreshold, Persist, NeverStale
    <3>2. ASSUME row' = Calibrated(request[q]), request[q].snap = row
          PROVE  m >= n /\ (request[q].op \in Approving => m = n + 1)
      <4>1. row' # NoRow
        <5>1. Calibrated(request[q]) \in ThresholdRow
          BY CalibratedType DEF IInv, TypeOK
        <5> QED
          BY <3>2, <5>1, ThresholdAssumption DEF ThresholdRow
      <4>2. m = Calibrated(request[q]).approvals
        BY <3>2, <4>1 DEF Threshold
      <4> DEFINE t == Threshold(row)
      <4>3. /\ Calibrated(request[q]).approvals \in {t.approvals, t.approvals + 1}
            /\ request[q].op \in Approving =>
                 Calibrated(request[q]).approvals = t.approvals + 1
        BY <3>2 DEF Calibrated, Approving, Rejected, ApprovedWithEdits,
                    ApprovedClean
      <4> QED
        BY <2>1, <4>2, <4>3
    <3> QED
      BY <3>1, <3>2
  <2>5. (\A q \in Requests : ~WriteThreshold(q)) => m = n
    <3> SUFFICES ASSUME \A q \in Requests : ~WriteThreshold(q), row' # row
                 PROVE  m = n
      OBVIOUS
    <3>1. SetOverride
      BY DEF Next, Step, vars, trustVars, Evaluate, Submit, ExpirePending,
        Decide, DecideBatch, Flag, Take, Crash, ClaimWon, ClaimLost,
        ClaimThrew, Execute, FlagRow, ReadThreshold, CountRejections,
        ThresholdThrew, LogDecision, LogBatch
    <3>2. row = NoRow /\ row' = [VirtualDefault EXCEPT !.threshold = Ceiling]
      BY <3>1 DEF SetOverride
    <3>3. row' # NoRow /\ row'.approvals = 0
      BY <3>2, ThresholdAssumption DEF VirtualDefault, ThresholdRow
    <3> QED
      BY <3>2, <3>3 DEF Threshold, VirtualDefault
  <2>6. m >= n
    BY <2>1, <2>4, <2>5
  <2>7. CASE Settled' \subseteq Settled
    <3>1. Cardinality(Settled') <= Cardinality(Settled)
      BY <2>2, <2>7, FS_Subset
    <3> QED
      BY <2>1, <2>2, <2>3, <2>6, <3>1 DEF MissedOnlyByFault
  <2>8. ASSUME NEW x, Settled' \subseteq Settled \cup {x},
               \/ Fault
               \/ \E q \in Requests :
                    WriteThreshold(q) /\ request[q].op \in Approving
        PROVE  MissedOnlyByFault'
    <3>1. Cardinality(Settled') <= Cardinality(Settled) + 1
      <4>1. /\ IsFiniteSet(Settled \cup {x})
            /\ Cardinality(Settled \cup {x}) \in
                 {Cardinality(Settled), Cardinality(Settled) + 1}
        BY <2>2, FS_AddElement
      <4>2. Cardinality(Settled') <= Cardinality(Settled \cup {x})
        BY <2>8, <4>1, FS_Subset
      <4> QED
        BY <2>2, <4>1, <4>2
    <3>2. m + faults' >= n + faults + 1
      <4>1. CASE Fault
        BY <2>1, <2>6, <4>1 DEF Fault
      <4>2. CASE ~Fault
        BY <2>1, <2>3, <2>4, <2>8, <4>2
      <4> QED
        BY <4>1, <4>2
    <3> QED
      BY <2>1, <2>2, <3>1, <3>2 DEF MissedOnlyByFault
  <2> QED
    BY <2>7, <2>8, SettledByStep
<1> QED
  BY <1>1, <1>2, Invariance, PTL DEF Spec

----------------------------------------------------------------------------
(* No request runs for ever *)

(* Where request r is with the approval it is processing.                  *)
Stage(r) ==
  CASE r.pc = "execute" -> 7
    [] r.pc = "calibrate" -> 6
    [] r.pc = "count" -> 5
    [] r.pc = "write" -> 4
    [] r.pc = "log" -> 3
    [] r.pc = "log_batch" -> 2
    [] r.pc \in {"claim", "flag"} -> 1
    [] OTHER -> 0

(* An upper bound on the steps request r still has to take.                *)
Remaining(r) ==
  IF r.pc = "idle" THEN 8 * Cardinality(Approvals) + 8
  ELSE 8 * Cardinality(r.todo) + Stage(r)

(* Every step of a request brings it nearer to its end, and no other       *)
(* request, submission, expiry or override takes it further away.          *)
DecisionsDescend ==
  [][\A q \in Requests :
       /\ Remaining(request[q])' <= Remaining(request[q])
       /\ Step(q) \/ Crash(q) =>
            Remaining(request[q])' < Remaining(request[q])]_vars

LEMMA TodoIsCounted ==
  ASSUME NEW r \in RequestState
  PROVE  /\ IsFiniteSet(r.todo)
         /\ Cardinality(r.todo) \in 0..Cardinality(Approvals)
         /\ Cardinality(Approvals) \in Nat
<1>1. r.todo \subseteq Approvals
  BY DEF RequestState
<1>2. /\ IsFiniteSet(r.todo)
      /\ Cardinality(r.todo) <= Cardinality(Approvals)
  BY <1>1, ApprovalAssumption, FS_Subset
<1> QED
  BY <1>2, ApprovalAssumption, FS_CardinalityType

LEMMA StageTable ==
  ASSUME NEW r
  PROVE  /\ r.pc = "execute" => Stage(r) = 7
         /\ r.pc = "calibrate" => Stage(r) = 6
         /\ r.pc = "count" => Stage(r) = 5
         /\ r.pc = "write" => Stage(r) = 4
         /\ r.pc = "log" => Stage(r) = 3
         /\ r.pc = "log_batch" => Stage(r) = 2
         /\ r.pc \in {"claim", "flag"} => Stage(r) = 1
         /\ r.pc \in {"idle", "done"} => Stage(r) = 0
BY DEF Stage

LEMMA TypesRemain ==
  ASSUME NEW r \in RequestState
  PROVE  /\ Stage(r) \in 0..7 /\ Remaining(r) \in Nat
         /\ r.pc # "idle" => Remaining(r) < 8 * Cardinality(Approvals) + 8
<1>1. Stage(r) \in 0..7
  BY DEF Stage
<1> QED
  BY <1>1, TodoIsCounted DEF Remaining

(* A request that is through with an approval is nearer to its end, and so *)
(* is one that has just claimed one.                                       *)
LEMMA ResumedIsLess ==
  ASSUME NEW r \in RequestState, NEW a, NEW reported \in BOOLEAN,
         \/ r.pc = "claim" /\ a \in r.todo
         \/ r.pc \in {"calibrate", "log"}
  PROVE  Remaining(Resumed(r, a, reported)) < Remaining(r)
<1> DEFINE left == r.todo \ {a}
           n == Cardinality(r.todo)
           m == Cardinality(left)
           s == Resumed(r, a, reported)
<1>1. /\ n \in Nat /\ m \in Nat /\ m <= n
      /\ a \in r.todo => m = n - 1
  BY TodoIsCounted, FS_RemoveElement, FS_Subset, FS_CardinalityType
<1>2. \/ /\ s.pc = "claim" /\ s.todo = left
      \/ /\ s.pc = "log_batch" /\ s.todo = {}
      \/ /\ s.pc = "done" /\ s.todo = {}
  BY DEF Resumed, Blank
<1>3. Remaining(s) \in {8 * m + 1, 2, 0}
  <2> HIDE DEF s, left
  <2>1. CASE s.pc = "claim" /\ s.todo = left
    <3>1. Remaining(s) = 8 * m + 1
      BY <2>1, StageTable DEF Remaining
    <3> QED
      BY <3>1
  <2>2. CASE s.pc \in {"log_batch", "done"} /\ s.todo = {}
    <3>1. Cardinality(s.todo) = 0
      BY <2>2, FS_EmptySet
    <3> QED
      BY <2>2, <3>1, StageTable DEF Remaining
  <2> QED
    BY <1>2, <2>1, <2>2
<1>4. \/ a \in r.todo /\ Remaining(r) = 8 * n + 1
      \/ Remaining(r) \in {8 * n + 6, 8 * n + 3}
  <2>1. \/ a \in r.todo /\ Stage(r) = 1
        \/ Stage(r) \in {3, 6}
    BY StageTable
  <2>2. Remaining(r) = 8 * n + Stage(r)
    BY DEF Remaining
  <2> QED
    BY <2>1, <2>2
<1>5. Remaining(s) < Remaining(r)
  <2> HIDE DEF n, m, s
  <2> QED
    BY <1>1, <1>3, <1>4
<1> QED
  BY <1>5

LEMMA ClaimedIsLess ==
  ASSUME NEW r \in RequestState, NEW a \in r.todo, r.pc \in {"claim", "flag"}
  PROVE  Remaining(Claimed(r, a)) < Remaining(r)
<1> DEFINE n == Cardinality(r.todo)
           s == Claimed(r, a)
<1>1. n \in Nat
  BY TodoIsCounted
<1>2. Cardinality(r.todo \ {a}) = n - 1
  BY TodoIsCounted, FS_RemoveElement
<1>3. s.todo = r.todo \ {a} /\ s.pc \in {"execute", "calibrate"}
  BY DEF Claimed, RequestState
<1>4. Remaining(r) = 8 * n + 1
  BY StageTable DEF Remaining
<1>5. Remaining(s) \in {8 * (n - 1) + 7, 8 * (n - 1) + 6}
  <2> HIDE DEF s
  <2> QED
    BY <1>2, <1>3, StageTable DEF Remaining
<1>6. Remaining(s) < Remaining(r)
  <2> HIDE DEF n, s
  <2> QED
    BY <1>1, <1>4, <1>5
<1> QED
  BY <1>6

(* So a request ends after at most eight steps for each approval it was    *)
(* given: a batch whose approvals others decide, expire or fail to         *)
(* calibrate cannot be kept going.                                         *)
THEOREM RequestsEnd == Spec => DecisionsDescend
<1>1. ASSUME IInv, IInv', NEW q \in Requests, Step(q) \/ Crash(q)
      PROVE  Remaining(request'[q]) < Remaining(request[q])
  <2> DEFINE r == request[q]
             s == request'[q]
  <2> SUFFICES Remaining(s) < Remaining(r)
    OBVIOUS
  <2>0. TypeOK /\ r \in RequestState /\ s \in RequestState
    BY <1>1 DEF IInv, TypeOK
  <2>1. ASSUME NEW a \in Approvals, ClaimWon(q, a)
        PROVE  Remaining(s) < Remaining(r)
    <3>1. /\ s = Claimed(r, a) /\ a \in r.todo /\ r.pc = "claim"
      BY <2>0, <2>1 DEF ClaimWon, TypeOK
    <3> HIDE DEF r, s
    <3> QED
      BY <2>0, <3>1, ClaimedIsLess
  <2>2. ASSUME NEW a \in Approvals, ClaimLost(q, a) \/ ClaimThrew(q, a)
        PROVE  Remaining(s) < Remaining(r)
    <3>1. /\ s = Resumed(r, a, TRUE) \/ s = Resumed(r, a, FALSE)
          /\ a \in r.todo /\ r.pc = "claim"
      BY <2>0, <2>2 DEF ClaimLost, ClaimThrew, AfterLostClaim, TypeOK
    <3> HIDE DEF r, s
    <3> QED
      BY <2>0, <3>1, ResumedIsLess
  <2>3. CASE FlagRow(q)
    <3>1. PICK a \in r.todo : s = Claimed(r, a) /\ r.pc = "flag"
      BY <2>0, <2>3 DEF FlagRow, TypeOK
    <3> HIDE DEF r, s
    <3> QED
      BY <2>0, <3>1, ClaimedIsLess
  <2>4. CASE \/ Execute(q) \/ ReadThreshold(q) \/ CountRejections(q)
             \/ WriteThreshold(q)
    <3>1. \/ r.pc = "execute" /\ s = [r EXCEPT !.pc = "calibrate"]
          \/ /\ r.pc = "calibrate"
             /\ \E p \in {"count", "write"} :
                  s = [r EXCEPT !.snap = row, !.pc = p]
          \/ /\ r.pc = "count"
             /\ \/ \E n : s = [r EXCEPT !.pc = "write", !.recent = n]
                \/ s = [r EXCEPT !.pc = "write"]
          \/ /\ r.pc = "write"
             /\ s = [r EXCEPT !.pc = "log", !.snap = NoRow, !.recent = 0]
      BY <2>0, <2>4 DEF Execute, ReadThreshold, CountRejections,
                        WriteThreshold, TypeOK
    <3> HIDE DEF r, s
    <3>2. /\ s.todo = r.todo
          /\ \/ r.pc = "execute" /\ s.pc = "calibrate"
             \/ r.pc = "calibrate" /\ s.pc \in {"count", "write"}
             \/ r.pc = "count" /\ s.pc = "write"
             \/ r.pc = "write" /\ s.pc = "log"
      BY <2>0, <3>1 DEF RequestState
    <3>3. Cardinality(r.todo) \in Nat
      BY <2>0, TodoIsCounted
    <3> QED
      BY <3>2, <3>3, StageTable DEF Remaining
  <2>5. CASE ThresholdThrew(q) \/ LogDecision(q)
    <3>1. /\ r.pc \in {"calibrate", "log"}
          /\ \/ s = Resumed(r, r.target, TRUE)
             \/ s = Resumed(r, r.target, FALSE)
      BY <2>0, <2>5 DEF ThresholdThrew, LogDecision, TypeOK
    <3> HIDE DEF r, s
    <3> QED
      BY <2>0, <3>1, ResumedIsLess
  <2>6. CASE LogBatch(q) \/ Crash(q)
    <3>1. s = Blank("done") /\ r.pc \notin {"idle", "done"}
      BY <2>0, <2>6 DEF LogBatch, Crash, TypeOK
    <3> HIDE DEF r, s
    <3>2. Remaining(s) = 0
      BY <3>1, FS_EmptySet DEF Remaining, Stage, Blank
    <3>3. Stage(r) \in 1..7 /\ Cardinality(r.todo) \in Nat
      BY <2>0, <3>1, TodoIsCounted, StageTable DEF RequestState, Places
    <3>4. Remaining(r) = 8 * Cardinality(r.todo) + Stage(r)
      BY <3>1 DEF Remaining
    <3> QED
      BY <3>2, <3>3, <3>4
  <2> QED
    BY <1>1, <2>1, <2>2, <2>3, <2>4, <2>5, <2>6 DEF Step
<1>2. ASSUME IInv, IInv', NEW q \in Requests,
             Decide(q) \/ DecideBatch(q) \/ Flag(q)
      PROVE  Remaining(request'[q]) <= Remaining(request[q])
  <2>1. /\ request[q].pc = "idle" /\ request'[q].pc # "idle"
        /\ request[q] \in RequestState /\ request'[q] \in RequestState
    BY <1>2 DEF Decide, DecideBatch, Flag, Take, IInv, TypeOK, RequestState
  <2>2. Remaining(request[q]) = 8 * Cardinality(Approvals) + 8
    BY <2>1 DEF Remaining
  <2> QED
    BY <2>1, <2>2, TypesRemain
<1>3. ASSUME IInv, [Next]_vars, NEW q \in Requests
      PROVE  \/ Step(q) \/ Crash(q)
             \/ Decide(q) \/ DecideBatch(q) \/ Flag(q)
             \/ request'[q] = request[q]
  <2> USE <1>3 DEF IInv, TypeOK
  <2>1. ASSUME NEW p \in Requests, p # q,
               \/ Decide(p) \/ DecideBatch(p) \/ Flag(p) \/ Crash(p)
               \/ Step(p)
        PROVE  request'[q] = request[q]
    BY <2>1 DEF Decide, DecideBatch, Flag, Take, Crash, Step, ClaimWon,
      ClaimLost, ClaimThrew, Execute, FlagRow, ReadThreshold,
      CountRejections, WriteThreshold, ThresholdThrew, LogDecision, LogBatch
  <2>2. ASSUME \/ SetOverride \/ UNCHANGED vars
               \/ \E a \in Approvals :
                    Evaluate(a) \/ Submit(a) \/ ExpirePending(a)
        PROVE  request'[q] = request[q]
    BY <2>2 DEF SetOverride, vars, Evaluate, Submit, ExpirePending
  <2> QED
    BY <2>1, <2>2 DEF Next
<1>4. IInv /\ IInv' /\ [Next]_vars
        => [\A q \in Requests :
              /\ Remaining(request[q])' <= Remaining(request[q])
              /\ Step(q) \/ Crash(q) =>
                   Remaining(request[q])' < Remaining(request[q])]_vars
  <2> SUFFICES ASSUME IInv, IInv', [Next]_vars, NEW q \in Requests
               PROVE  /\ Remaining(request'[q]) <= Remaining(request[q])
                      /\ Step(q) \/ Crash(q) =>
                           Remaining(request'[q]) < Remaining(request[q])
    BY DEF Remaining, Stage
  <2>1. request[q] \in RequestState /\ request'[q] \in RequestState
    BY DEF IInv, TypeOK
  <2>2. Remaining(request[q]) \in Nat /\ Remaining(request'[q]) \in Nat
    BY <2>1, TypesRemain
  <2> QED
    BY <1>1, <1>2, <1>3, <2>2
<1> QED
  BY <1>4, Invariance, PTL DEF Spec, DecisionsDescend
=============================================================================

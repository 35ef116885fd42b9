----------------------- MODULE ContextProposals_proofs -----------------------
(***************************************************************************)
(* Proofs about ContextProposals, for every set of proposals, workers,     *)
(* fields and drafts and every number of failures.                         *)
(*                                                                         *)
(* The invariant says what each worker may rely on at the place where it   *)
(* waits: its proposal has been inserted, the layer it has read is the     *)
(* layer unless somebody overtook it, what it is about to accept has been  *)
(* merged, and what it is about to route has been accepted.                *)
(***************************************************************************)
EXTENDS ContextProposals, TLAPS

----------------------------------------------------------------------------
(* The inductive invariant *)

Busy(w) ==
  job[w].at # "idle" => /\ job[w].proposal \in Proposals
                        /\ status[job[w].proposal] # "unsent"
Fresh(w) ==
  w \notin overtaken =>
    /\ job[w].at \in {"read", "write"} => ~Declines(job[w].proposal)
    /\ job[w].at = "write" => job[w].seen = layer
Earned(w) ==
  job[w].at = "settle" /\ job[w].verdict = "accepted"
    => job[w].proposal \in merged
Told(w) ==
  job[w].at \in {"throttle", "route"}
    => status[job[w].proposal] \in {"accepted", "superseded"}
WorkerSane(w) == Busy(w) /\ Fresh(w) /\ Earned(w) /\ Told(w)

SweepSane ==
  /\ doomed \subseteq Accepted
  /\ doomed # {} => Accepted \ doomed # {}
LayerSane == ~layer.exists => layer.source = "system"

IInv ==
  /\ TypeOK
  /\ \A w \in Workers : WorkerSane(w)
  /\ SweepSane
  /\ LayerSane
  /\ AppsLearnAcceptedOnly

----------------------------------------------------------------------------
(* Type correctness *)

LEMMA BlanksAreTyped ==
  NoLayer \in Layer /\ Idle \in Job
BY DEF NoLayer, Layer, Sources, Idle, Job, Places

LEMMA InitIsSane == Init => IInv
<1> SUFFICES ASSUME Init PROVE IInv
  OBVIOUS
<1>1. layer \in Layer
  BY BlanksAreTyped DEF Init, Layer
<1>2. TypeOK
  BY <1>1, BlanksAreTyped, ProposalAssumption, FaultAssumption
     DEF Init, TypeOK, Statuses
<1>3. ASSUME NEW w \in Workers PROVE WorkerSane(w)
  BY <1>3 DEF Init, Idle, WorkerSane, Busy, Fresh, Earned, Told
<1>4. SweepSane /\ AppsLearnAcceptedOnly
  BY DEF Init, SweepSane, AppsLearnAcceptedOnly
<1>5. LayerSane
  BY DEF Init, LayerSane, NoLayer
<1> QED
  BY <1>2, <1>3, <1>4, <1>5 DEF IInv

(* The forms in which a step changes the local state of a worker.           *)
LEMMA JobForms ==
  ASSUME TypeOK, NEW w \in Workers, job[w].proposal \in Proposals
  PROVE  /\ \A place \in Places : Goes(w, place) => job' \in [Workers -> Job]
         /\ Rests(w) => job' \in [Workers -> Job]
         /\ \A v \in {"accepted", "declined", "escalated"} :
              GoesToSettle(w, v) => job' \in [Workers -> Job]
<1>1. job \in [Workers -> Job] /\ job[w] \in Job
  BY DEF TypeOK
<1>2. ASSUME NEW place \in Places, Goes(w, place)
      PROVE  job' \in [Workers -> Job]
  <2>1. [job[w] EXCEPT !.at = place] \in Job
    BY <1>1 DEF Job
  <2> QED
    BY <1>1, <1>2, <2>1 DEF Goes
<1>3. ASSUME Rests(w) PROVE job' \in [Workers -> Job]
  BY <1>1, <1>3, BlanksAreTyped DEF Rests
<1>4. ASSUME NEW v \in {"accepted", "declined", "escalated"},
             GoesToSettle(w, v)
      PROVE  job' \in [Workers -> Job]
  <2>1. [Idle EXCEPT !.at = "settle", !.proposal = job[w].proposal,
                     !.verdict = v, !.user = job[w].user] \in Job
    BY <1>1, BlanksAreTyped DEF Job, Places
  <2> QED
    BY <1>1, <1>4, <2>1 DEF GoesToSettle
<1> QED
  BY <1>2, <1>3, <1>4

LEMMA MergeIsTyped ==
  ASSUME TypeOK, NEW w \in Workers, job[w].proposal \in Proposals
  PROVE  /\ [exists |-> TRUE, source |-> "synapse",
             data |-> Merge(job[w].proposal, job[w].seen)] \in Layer
         /\ [exists |-> TRUE, source |-> "user_explicit",
             data |-> Overwritten(job[w].proposal, job[w].seen)] \in Layer
<1>1. job[w].seen.data \in [Cells -> SUBSET Proposals]
  BY DEF TypeOK, Job, Layer
<1>2. /\ Overwritten(job[w].proposal, job[w].seen)
           \in [Cells -> SUBSET Proposals]
      /\ DeepMerged(job[w].proposal, job[w].seen)
           \in [Cells -> SUBSET Proposals]
  BY <1>1 DEF Overwritten, DeepMerged, Proposed
<1> QED
  BY <1>2 DEF Merge, Layer, Sources

(* A waiting worker has a proposal that was inserted.                       *)
LEMMA HasProposal ==
  ASSUME IInv, NEW w \in Workers, job[w].at # "idle"
  PROVE  /\ job[w].proposal \in Proposals
         /\ status[job[w].proposal] # "unsent"
         /\ status[job[w].proposal] \in Statuses
BY DEF IInv, WorkerSane, Busy, TypeOK

LEMMA TypeStep ==
  ASSUME IInv, [Next]_vars PROVE TypeOK'
<1> USE FaultAssumption, ProposalAssumption DEF layerVars, sweepVars, tableVars
<1>1. TypeOK
  BY DEF IInv
<1>2. ASSUME NEW p \in Proposals, Submit(p) \/ Lapse(p) \/ SweepStale(p)
      PROVE  TypeOK'
  <2>1. CASE Submit(p)
    BY <1>1, <2>1 DEF Submit, TypeOK, Statuses
  <2>2. CASE Lapse(p)
    BY <1>1, <2>2 DEF Lapse, TypeOK
  <2>3. CASE SweepStale(p)
    BY <1>1, <2>3 DEF SweepStale, TypeOK, Statuses
  <2> QED
    BY <1>2, <2>1, <2>2, <2>3
<1>3. ASSUME NEW w \in Workers, NEW p \in Proposals, Start(w, p) \/ Answer(w, p)
      PROVE  TypeOK'
  <2>1. ASSUME NEW place \in Places,
               NEW v \in {"accepted", "declined", "escalated"},
               NEW u \in BOOLEAN
        PROVE  [Idle EXCEPT !.at = place, !.proposal = p, !.user = u,
                            !.verdict = v] \in Job
    BY <2>1, BlanksAreTyped DEF Job
  <2>2. [Idle EXCEPT !.at = "detect", !.proposal = p] \in Job
    BY BlanksAreTyped DEF Job, Places
  <2>3. job' \in [Workers -> Job]
    <3>1. CASE Start(w, p)
      BY <1>1, <2>2, <3>1 DEF Start, TypeOK
    <3>2. CASE Answer(w, p)
      <4>1. PICK place \in {"consult", "settle"} :
              job' = [job EXCEPT ![w] =
                [Idle EXCEPT !.at = place, !.proposal = p, !.user = TRUE,
                   !.verdict = IF place = "settle" THEN "declined"
                                                   ELSE "accepted"]]
        BY <3>2 DEF Answer
      <4>2. place \in Places
        BY <4>1 DEF Places
      <4> QED
        BY <1>1, <2>1, <4>1, <4>2 DEF TypeOK
    <3> QED
      BY <1>3, <3>1, <3>2
  <2> QED
    BY <1>1, <1>3, <2>3 DEF Start, Answer, TypeOK
<1>4. ASSUME NEW w \in Workers, Step(w) \/ Fail(w)
      PROVE  TypeOK'
  <2>1. job[w].proposal \in Proposals
    BY <1>4, HasProposal
       DEF Step, Detect, ReadLayer, WriteLayer, Settle, CheckThrottle, Route,
           Consult, Upsert, Fail
  <2>2. job[w] \in Job /\ job[w].verdict \in {"accepted", "declined", "escalated"}
    BY <1>1 DEF TypeOK, Job
  <2> USE <1>1, <2>1, <2>2, JobForms
  <2>3. CASE Detect(w)
    <3>1. job' \in [Workers -> Job]
      BY <2>3 DEF Detect, Places
    <3> QED
      BY <2>3, <3>1 DEF Detect, TypeOK
  <2>4. CASE ReadLayer(w) \/ Consult(w)
    <3>1. /\ [job[w] EXCEPT !.at = "write", !.seen = layer] \in Job
          /\ [job[w] EXCEPT !.at = "upsert", !.seen = layer] \in Job
      BY DEF Job, Places, TypeOK
    <3>2. job' \in [Workers -> Job]
      BY <2>4, <3>1 DEF ReadLayer, Consult, TypeOK
    <3> QED
      BY <2>4, <3>2 DEF ReadLayer, Consult, TypeOK
  <2>5. CASE WriteLayer(w)
    <3>1. job' \in [Workers -> Job]
      BY <2>5 DEF WriteLayer
    <3>2. /\ layer' \in Layer
          /\ merged' \subseteq Proposals /\ overtaken' \subseteq Workers
      BY <2>5, MergeIsTyped DEF WriteLayer, Stored, TypeOK
    <3> QED
      BY <2>5, <3>1, <3>2 DEF WriteLayer, TypeOK
  <2>6. CASE Settle(w)
    <3>1. job' \in [Workers -> Job]
      BY <2>6 DEF Settle, Refused, Places
    <3>2. status' \in [Proposals -> Statuses]
      BY <2>6 DEF Settle, TypeOK, Statuses
    <3> QED
      BY <2>6, <3>1, <3>2 DEF Settle, TypeOK
  <2>7. CASE CheckThrottle(w) \/ Route(w)
    <3>1. job' \in [Workers -> Job]
      BY <2>7 DEF CheckThrottle, Route, Places
    <3> QED
      BY <2>7, <3>1 DEF CheckThrottle, Route, TypeOK
  <2>8. CASE Upsert(w)
    <3>1. job' \in [Workers -> Job]
      BY <2>8 DEF Upsert
    <3>2. /\ layer' \in Layer
          /\ merged' \subseteq Proposals /\ overtaken' \subseteq Workers
      BY <2>8, MergeIsTyped DEF Upsert, Stored, TypeOK
    <3> QED
      BY <2>8, <3>1, <3>2 DEF Upsert, TypeOK
  <2>9. CASE Fail(w)
    <3>1. job' \in [Workers -> Job] /\ faults' \in 0..MaxFaults
      BY <2>9 DEF Fail, Fault, TypeOK
    <3> QED
      BY <2>9, <3>1 DEF Fail, TypeOK
  <2> QED
    BY <1>4, <2>3, <2>4, <2>5, <2>6, <2>7, <2>8, <2>9 DEF Step
<1>5. ASSUME SweepOverdue \/ FindSuperseded \/ MarkSuperseded PROVE TypeOK'
  <2>1. CASE SweepOverdue
    BY <1>1, <2>1 DEF SweepOverdue, TypeOK, Statuses
  <2>2. CASE FindSuperseded
    BY <1>1, <2>2 DEF FindSuperseded, Superseded, Accepted, TypeOK
  <2>3. CASE MarkSuperseded
    <3>1. status' \in [Proposals -> Statuses] /\ faults' \in 0..MaxFaults
      BY <1>1, <2>3 DEF MarkSuperseded, Fault, TypeOK, Statuses
    <3> QED
      BY <1>1, <2>3, <3>1 DEF MarkSuperseded, TypeOK
  <2> QED
    BY <1>5, <2>1, <2>2, <2>3
<1>6. CASE UNCHANGED vars
  BY <1>1, <1>6 DEF vars, TypeOK
<1> QED
  BY <1>2, <1>3, <1>4, <1>5, <1>6 DEF Next

----------------------------------------------------------------------------
(* What a step leaves alone *)

(* What was inserted stays as it is, and what was accepted stays accepted  *)
(* or is superseded.                                                       *)
StatusGrows ==
  \A p \in Proposals :
    status[p] # "unsent" =>
      /\ status'[p] # "unsent" /\ draft'[p] = draft[p]
      /\ status[p] \in {"accepted", "superseded"}
         => status'[p] \in {"accepted", "superseded"}

(* Whether a proposal is declined depends on itself and on the layer.      *)
LEMMA JudgementKept ==
  ASSUME UNCHANGED layer, NEW p \in Proposals, draft'[p] = draft[p]
  PROVE  Declines(p)' <=> Declines(p)
<1>1. \A c \in Cells : Proposed(p, c)' = Proposed(p, c)
  BY DEF Proposed
<1>2. Nulls(p)' = Nulls(p)
  BY DEF Nulls
<1>3. Conflicts(p)' = Conflicts(p)
  BY <1>1, <1>2 DEF Conflicts, Within
<1>4. \A f : GainsKey(p, f)' <=> GainsKey(p, f)
  BY DEF GainsKey
<1>5. Sacred(p)' = Sacred(p)
  BY <1>3, <1>4 DEF Sacred, Extends
<1> QED
  BY <1>3, <1>5 DEF Declines

(* A worker that a step does not move may go on relying on what it has.    *)
LEMMA OthersKeep ==
  ASSUME IInv, StatusGrows, NEW u \in Workers, UNCHANGED job[u],
         merged \subseteq merged',
         \/ u \in overtaken' \/ job[u].at \notin {"read", "write"}
         \/ UNCHANGED layer /\ u \notin overtaken
  PROVE  WorkerSane(u)'
<1>1. WorkerSane(u) /\ Busy(u)
  BY DEF IInv, WorkerSane
<1>2. CASE job[u].at = "idle"
  BY <1>2 DEF WorkerSane, Busy, Fresh, Earned, Told
<1>3. CASE job[u].at # "idle"
  <2> DEFINE p == job[u].proposal
  <2>1. /\ p \in Proposals /\ status[p] # "unsent"
        /\ status'[p] # "unsent" /\ draft'[p] = draft[p]
        /\ status[p] \in {"accepted", "superseded"}
           => status'[p] \in {"accepted", "superseded"}
    BY <1>1, <1>3 DEF Busy, StatusGrows
  <2>2. Busy(u)' /\ Earned(u)' /\ Told(u)'
    BY <1>1, <2>1 DEF WorkerSane, Busy, Earned, Told
  <2>3. Fresh(u)'
    <3>1. CASE u \in overtaken' \/ job[u].at \notin {"read", "write"}
      BY <3>1 DEF Fresh
    <3>2. CASE UNCHANGED layer /\ u \notin overtaken
      <4>1. Declines(p)' <=> Declines(p)
        BY <2>1, <3>2, JudgementKept
      <4> QED
        BY <1>1, <3>2, <4>1 DEF WorkerSane, Fresh
    <3> QED
      BY <3>1, <3>2
  <2> QED
    BY <2>2, <2>3 DEF WorkerSane
<1> QED
  BY <1>2, <1>3

----------------------------------------------------------------------------
(* The actions *)

(* A step that changes no status and routes nothing.                       *)
LEMMA TableKept ==
  ASSUME IInv, UNCHANGED <<status, doomed, routed>>
  PROVE  SweepSane' /\ AppsLearnAcceptedOnly'
BY DEF IInv, SweepSane, Accepted, AppsLearnAcceptedOnly

LEMMA SubmitAndClockSteps ==
  ASSUME IInv, TypeOK', NEW p \in Proposals,
         Submit(p) \/ Lapse(p) \/ SweepStale(p)
  PROVE  IInv'
<1> USE DEF tableVars, layerVars, sweepVars
<1>1. TypeOK
  BY DEF IInv
<1>2. StatusGrows
  BY <1>1 DEF StatusGrows, Submit, Lapse, SweepStale, TypeOK
<1>3. UNCHANGED <<layerVars, job>>
  BY DEF Submit, Lapse, SweepStale
<1>4. ASSUME NEW u \in Workers PROVE WorkerSane(u)'
  BY <1>2, <1>3, OthersKeep
<1>5. SweepSane' /\ AppsLearnAcceptedOnly'
  BY <1>1 DEF IInv, SweepSane, Accepted, AppsLearnAcceptedOnly, Submit,
              Lapse, SweepStale, TypeOK
<1>6. LayerSane'
  BY <1>3 DEF IInv, LayerSane
<1> QED
  BY <1>4, <1>5, <1>6 DEF IInv

LEMMA StartSteps ==
  ASSUME IInv, TypeOK', NEW w \in Workers, NEW p \in Proposals,
         Start(w, p) \/ Answer(w, p)
  PROVE  IInv'
<1> USE DEF tableVars, layerVars, sweepVars
<1>1. job \in [Workers -> Job]
  BY DEF IInv, TypeOK
<1>2. /\ StatusGrows /\ status[p] # "unsent"
      /\ UNCHANGED <<tableVars, layerVars, sweepVars, routed>>
  BY DEF StatusGrows, Start, Answer
<1>3. ASSUME NEW u \in Workers PROVE WorkerSane(u)'
  <2>1. CASE u # w
    BY <1>1, <1>2, <2>1, OthersKeep DEF Start, Answer
  <2>2. CASE u = w
    <3>1. /\ job'[w].proposal = p /\ job'[w].at \in {"detect", "consult", "settle"}
          /\ job'[w].at = "settle" => job'[w].verdict = "declined"
      BY <1>1 DEF Start, Answer, Idle
    <3> QED
      BY <1>2, <2>2, <3>1 DEF WorkerSane, Busy, Fresh, Earned, Told
  <2> QED
    BY <2>1, <2>2
<1> QED
  BY <1>2, <1>3, TableKept DEF IInv, LayerSane

(* Detection, reads, throttle and failures move one worker and nothing     *)
(* else; what it has become is sane because of what it has just seen.      *)
LEMMA LocalSteps ==
  ASSUME IInv, TypeOK', NEW w \in Workers,
         \/ Detect(w) \/ ReadLayer(w) \/ CheckThrottle(w) \/ Route(w)
         \/ Consult(w) \/ Fail(w)
  PROVE  IInv'
<1> USE DEF tableVars, layerVars, sweepVars
<1>1. job \in [Workers -> Job]
  BY DEF IInv, TypeOK
<1>2. UNCHANGED <<tableVars, layer, merged, sweepVars>>
  BY DEF Detect, ReadLayer, CheckThrottle, Route, Consult, Fail
<1>3. StatusGrows
  BY <1>2 DEF StatusGrows
<1>4. /\ job[w].proposal \in Proposals /\ status[job[w].proposal] # "unsent"
      /\ WorkerSane(w)
  BY HasProposal DEF Detect, ReadLayer, CheckThrottle, Route, Consult, Fail, IInv
<1>5. ASSUME NEW u \in Workers, u # w PROVE WorkerSane(u)'
  <2>1. UNCHANGED job[u] /\ (u \in overtaken' <=> u \in overtaken)
    BY <1>1, <1>5 DEF Detect, ReadLayer, CheckThrottle, Route, Consult, Fail,
                      Goes, Rests, GoesToSettle
  <2> QED
    BY <1>2, <1>3, <2>1, OthersKeep
<1>6. WorkerSane(w)'
  <2>1. CASE Rests(w)
    BY <1>1, <2>1 DEF Rests, Idle, WorkerSane, Busy, Fresh, Earned, Told
  <2>2. CASE Detect(w)
    <3>1. CASE Goes(w, "read")
      <4>1. ~Declines(job[w].proposal)
        BY <1>1, <2>2, <3>1 DEF Detect, Goes, GoesToSettle, Idle
      <4>2. ~Declines(job[w].proposal)'
        BY <1>1, <1>2, <1>4, <3>1, <4>1, JudgementKept DEF Goes
      <4> QED
        BY <1>1, <1>2, <1>4, <3>1, <4>2
           DEF Goes, WorkerSane, Busy, Fresh, Earned, Told
    <3>2. CASE GoesToSettle(w, "declined") \/ GoesToSettle(w, "escalated")
      BY <1>1, <1>2, <1>4, <3>2
         DEF GoesToSettle, Idle, WorkerSane, Busy, Fresh, Earned, Told
    <3> QED
      BY <2>2, <3>1, <3>2 DEF Detect
  <2>3. CASE ReadLayer(w)
    <3>1. /\ job'[w].at = "write" /\ job'[w].proposal = job[w].proposal
          /\ job'[w].seen = layer
      BY <1>1, <2>3 DEF ReadLayer, Job
    <3>2. job[w].at = "read" /\ (w \in overtaken' <=> w \in overtaken)
      BY <2>3 DEF ReadLayer
    <3>3. Declines(job[w].proposal)' <=> Declines(job[w].proposal)
      BY <1>2, <1>4, <3>1, JudgementKept
    <3> QED
      BY <1>2, <1>4, <3>1, <3>2, <3>3 DEF WorkerSane, Busy, Fresh, Earned, Told
  <2>4. CASE CheckThrottle(w) /\ Goes(w, "route")
    BY <1>1, <1>2, <1>4, <2>4
       DEF CheckThrottle, Goes, WorkerSane, Busy, Fresh, Earned, Told
  <2>5. CASE Consult(w) /\ ~Rests(w)
    <3>1. job'[w].at = "upsert" /\ job'[w].proposal = job[w].proposal
      BY <1>1, <2>5 DEF Consult, Job
    <3> QED
      BY <1>2, <1>4, <3>1 DEF WorkerSane, Busy, Fresh, Earned, Told
  <2> QED
    BY <2>1, <2>2, <2>3, <2>4, <2>5 DEF CheckThrottle, Route, Fail
<1>7. SweepSane' /\ AppsLearnAcceptedOnly'
  <2>1. CASE Route(w)
    BY <1>2, <1>4, <2>1
       DEF Route, WorkerSane, Told, IInv, SweepSane, Accepted,
           AppsLearnAcceptedOnly
  <2>2. CASE UNCHANGED routed
    BY <1>2, <2>2, TableKept
  <2> QED
    BY <2>1, <2>2 DEF Detect, ReadLayer, CheckThrottle, Consult, Fail
<1> QED
  BY <1>2, <1>5, <1>6, <1>7 DEF IInv, LayerSane

LEMMA WriteSteps ==
  ASSUME IInv, TypeOK', NEW w \in Workers, WriteLayer(w) \/ Upsert(w)
  PROVE  IInv'
<1> USE DEF tableVars, layerVars, sweepVars
<1>1. job \in [Workers -> Job]
  BY DEF IInv, TypeOK
<1>2. UNCHANGED <<tableVars, sweepVars, routed>>
  BY DEF WriteLayer, Upsert
<1>3. StatusGrows
  BY <1>2 DEF StatusGrows
<1>4. job[w].proposal \in Proposals /\ status[job[w].proposal] # "unsent"
  BY HasProposal DEF WriteLayer, Upsert
<1>5. CASE Rests(w) /\ UNCHANGED layerVars
  <2>1. ASSUME NEW u \in Workers PROVE WorkerSane(u)'
    <3>1. CASE u = w
      BY <1>1, <1>5, <3>1
         DEF Rests, Idle, WorkerSane, Busy, Fresh, Earned, Told
    <3>2. CASE u # w
      BY <1>1, <1>3, <1>5, <3>2, OthersKeep DEF Rests
    <3> QED
      BY <3>1, <3>2
  <2> QED
    BY <1>2, <1>5, <2>1, TableKept DEF IInv, LayerSane
<1>6. CASE /\ GoesToSettle(w, "accepted")
           /\ layer'.exists /\ merged' = merged \cup {job[w].proposal}
           /\ overtaken' = {u \in Workers \ {w} : job[u].at \in {"read", "write"}}
  <2>1. ASSUME NEW u \in Workers PROVE WorkerSane(u)'
    <3>1. CASE u = w
      BY <1>1, <1>2, <1>4, <1>6, <3>1
         DEF GoesToSettle, Idle, WorkerSane, Busy, Fresh, Earned, Told
    <3>2. CASE u # w
      BY <1>1, <1>3, <1>6, <3>2, OthersKeep DEF GoesToSettle
    <3> QED
      BY <3>1, <3>2
  <2> QED
    BY <1>2, <1>6, <2>1, TableKept DEF IInv, LayerSane
<1> QED
  BY <1>5, <1>6 DEF WriteLayer, Upsert, Stored

LEMMA SettleStep ==
  ASSUME IInv, TypeOK', NEW w \in Workers, Settle(w)
  PROVE  IInv'
<1> USE DEF tableVars, layerVars, sweepVars
<1> DEFINE p == job[w].proposal
           v == job[w].verdict
<1>1. TypeOK /\ job \in [Workers -> Job]
  BY DEF IInv, TypeOK
<1>2. UNCHANGED <<draft, layerVars, sweepVars, routed>>
  BY DEF Settle
<1>3. p \in Proposals /\ status[p] # "unsent"
  BY HasProposal DEF Settle
<1>4. v \in {"accepted", "declined", "escalated"}
  BY <1>1 DEF Job
<1>5. /\ StatusGrows
      /\ \A q \in Accepted : status'[q] = "accepted"
  BY <1>1, <1>2, <1>3, <1>4
     DEF Settle, Legal, StatusGrows, Accepted, TypeOK
<1>6. ASSUME NEW u \in Workers, u # w PROVE WorkerSane(u)'
  <2>1. UNCHANGED job[u]
    BY <1>1, <1>6 DEF Settle, Goes, Rests, Refused
  <2> QED
    BY <1>2, <1>5, <2>1, OthersKeep
<1>7. WorkerSane(w)'
  <2>1. CASE Rests(w)
    BY <1>1, <2>1 DEF Rests, Idle, WorkerSane, Busy, Fresh, Earned, Told
  <2>2. CASE Goes(w, "throttle") /\ status' = [status EXCEPT ![p] = "accepted"]
    BY <1>1, <1>3, <2>2
       DEF Goes, TypeOK, WorkerSane, Busy, Fresh, Earned, Told
  <2> QED
    BY <2>1, <2>2 DEF Settle, Refused
<1>8. SweepSane'
  <2>1. Accepted \subseteq Accepted'
    BY <1>5 DEF Accepted
  <2> QED
    BY <1>2, <2>1 DEF IInv, SweepSane
<1>9. AppsLearnAcceptedOnly'
  BY <1>1, <1>2, <1>5 DEF IInv, AppsLearnAcceptedOnly, StatusGrows, TypeOK
<1> QED
  BY <1>2, <1>6, <1>7, <1>8, <1>9 DEF IInv, LayerSane

LEMMA SweepSteps ==
  ASSUME IInv, TypeOK', SweepOverdue \/ FindSuperseded \/ MarkSuperseded
  PROVE  IInv'
<1> USE DEF layerVars, sweepVars
<1>1. TypeOK
  BY DEF IInv
<1>2. UNCHANGED <<layerVars, job, draft, routed>>
  BY DEF SweepOverdue, FindSuperseded, MarkSuperseded, tableVars
<1>3. StatusGrows
  <2>1. CASE SweepOverdue
    BY <1>1, <2>1 DEF SweepOverdue, Legal, StatusGrows, TypeOK
  <2>2. CASE FindSuperseded
    BY <2>2 DEF FindSuperseded, tableVars, StatusGrows
  <2>3. CASE MarkSuperseded
    BY <1>1, <2>3
       DEF MarkSuperseded, StatusGrows, IInv, SweepSane, Accepted, TypeOK
  <2> QED
    BY <2>1, <2>2, <2>3
<1>4. ASSUME NEW u \in Workers PROVE WorkerSane(u)'
  BY <1>2, <1>3, OthersKeep
<1>5. SweepSane'
  <2>1. CASE SweepOverdue
    <3>1. Accepted' = Accepted /\ doomed' = doomed
      BY <1>1, <2>1 DEF SweepOverdue, Legal, Accepted, TypeOK
    <3> QED
      BY <3>1 DEF IInv, SweepSane
  <2>2. CASE FindSuperseded
    BY <2>2 DEF FindSuperseded, Superseded, Accepted, SweepSane, tableVars
  <2>3. CASE MarkSuperseded
    BY <2>3 DEF MarkSuperseded, SweepSane
  <2> QED
    BY <2>1, <2>2, <2>3
<1>6. AppsLearnAcceptedOnly'
  BY <1>1, <1>2, <1>3 DEF IInv, AppsLearnAcceptedOnly, StatusGrows, TypeOK
<1> QED
  BY <1>2, <1>4, <1>5, <1>6 DEF IInv, LayerSane

LEMMA StepIsSane == IInv /\ [Next]_vars => IInv'
<1> SUFFICES ASSUME IInv, [Next]_vars PROVE IInv'
  OBVIOUS
<1>1. TypeOK'
  BY TypeStep
<1>2. CASE UNCHANGED vars
  <2>1. /\ UNCHANGED <<status, draft, layer, job, overtaken, merged>>
        /\ StatusGrows
    BY <1>2 DEF vars, tableVars, layerVars, StatusGrows
  <2>2. ASSUME NEW u \in Workers PROVE WorkerSane(u)'
    BY <2>1, OthersKeep
  <2> QED
    BY <1>1, <1>2, <2>2, TableKept DEF vars, IInv, LayerSane, tableVars,
       layerVars, sweepVars
<1> QED
  BY <1>1, <1>2, SubmitAndClockSteps, StartSteps, LocalSteps, WriteSteps,
     SettleStep, SweepSteps DEF Next, Step

----------------------------------------------------------------------------
(* Theorems *)

THEOREM SpecIsSane == Spec => []IInv
BY InitIsSane, StepIsSane, PTL DEF Spec

(* Every reachable state is well typed. *)
THEOREM ProposalTypeCorrect == Spec => []TypeOK
<1>1. IInv => TypeOK
  BY DEF IInv
<1> QED
  BY <1>1, SpecIsSane, PTL

(* Whoever else decided a proposal, the apps are told of accepted ones.    *)
THEOREM RoutedWasAccepted == Spec => []AppsLearnAcceptedOnly
<1>1. IInv => AppsLearnAcceptedOnly
  BY DEF IInv
<1> QED
  BY <1>1, SpecIsSane, PTL

(* What becomes of a cell in a merge whose view of the layer is right.     *)
LEMMA CellRespected ==
  ASSUME NEW p \in Proposals, NEW c \in Cells, draft[p] \in Drafts,
         ~Declines(p), ~layer.exists => layer.source = "system",
         Merge(p, layer)[c] # layer.data[c]
  PROVE  /\ FieldOf[c] \in draft[p].payload
         /\ draft[p].action = "add" => c \in draft[p].sets
         /\ layer.source = "user_explicit" =>
              layer.data[c] \subseteq Merge(p, layer)[c] \/ c \in Holes(p)
<1> DEFINE f == FieldOf[c]
<1>1. /\ draft[p].action = "add" => c \in draft[p].sets
      /\ f \in draft[p].payload /\ f \in Fields /\ c \in Within(f)
  BY CellAssumption, ProposalAssumption DEF Merge, DeepMerged, Overwritten, Within
<1>2. layer.source = "user_explicit" => Sacred(p) = {}
  BY DEF Declines
<1>3. ASSUME layer.source = "user_explicit", layer.data[c] # {},
             layer.data[c] # Proposed(p, c), f \notin Nulls(p)
      PROVE  Extends(p, f) \/ GainsKey(p, f)
  <2>1. f \in Conflicts(p)
    BY <1>1, <1>3 DEF Conflicts
  <2> QED
    BY <1>2, <1>3, <2>1 DEF Sacred
<1>4. ASSUME layer.source = "user_explicit", draft[p].action = "add"
      PROVE  layer.data[c] \subseteq Merge(p, layer)[c] \/ c \in Holes(p)
  <2>1. CASE c \in Lists
    BY <1>1, <1>4, <2>1 DEF Merge, DeepMerged
  <2>2. CASE c \notin Lists
    <3>1. Merge(p, layer)[c] = {p} /\ Proposed(p, c) = {p}
      BY <1>1, <1>4, <2>2 DEF Merge, DeepMerged, Proposed
    <3>2. f \notin Nulls(p) /\ ~Extends(p, f)
      BY <1>1, <1>4, <2>2 DEF Nulls, Extends
    <3>3. GainsKey(p, f) => c \in Holes(p)
      BY <1>1, <1>4, <2>2 DEF Holes
    <3> QED
      BY <1>3, <1>4, <3>1, <3>2, <3>3
  <2> QED
    BY <2>1, <2>2
<1>5. ASSUME layer.source = "user_explicit", draft[p].action # "add"
      PROVE  layer.data[c] \subseteq Merge(p, layer)[c] \/ c \in Holes(p)
  <2>1. Merge(p, layer)[c] = Proposed(p, c)
    BY <1>1, <1>5 DEF Merge, Overwritten
  <2>2. f \in Nulls(p) \/ Extends(p, f) \/ GainsKey(p, f) => c \in Holes(p)
    BY <1>5 DEF Holes
  <2> QED
    BY <1>3, <1>5, <2>1, <2>2
<1> QED
  BY <1>1, <1>4, <1>5

(* A merge whose view of the layer still holds respects the layer.         *)
THEOREM MergesRespectLayer == Spec => MergeRespectsLayer
<1>1. ASSUME IInv, [Next]_vars, NEW w \in Workers, NEW c \in Cells,
             job[w].at = "write", job'[w].at = "settle", w \notin overtaken,
             layer'.data[c] # layer.data[c]
      PROVE  LET p == job[w].proposal
             IN /\ FieldOf[c] \in draft[p].payload
                /\ draft[p].action = "add" => c \in draft[p].sets
                /\ layer.source = "user_explicit" =>
                     layer.data[c] \subseteq layer'.data[c] \/ c \in Holes(p)
  <2> DEFINE p == job[w].proposal
  <2>1. /\ job \in [Workers -> Job] /\ layer \in Layer
        /\ job[w].seen = layer /\ ~Declines(p)
        /\ ~layer.exists => layer.source = "system"
    BY <1>1 DEF IInv, TypeOK, WorkerSane, Fresh, LayerSane
  <2>2. WriteLayer(w)
    <3>1. job'[w] # job[w]
      BY <1>1
    <3>2. job' # job
      BY <3>1
    <3>3. ~(\/ \E q \in Proposals : Submit(q) \/ Lapse(q) \/ SweepStale(q)
            \/ SweepOverdue \/ FindSuperseded \/ MarkSuperseded
            \/ UNCHANGED vars)
      BY <3>2 DEF Submit, Lapse, SweepStale, SweepOverdue, FindSuperseded,
                  MarkSuperseded, vars
    <3>4. ASSUME NEW v \in Workers, NEW q \in Proposals
          PROVE  ~(Start(v, q) \/ Answer(v, q))
      BY <1>1, <2>1, <3>1 DEF Start, Answer
    <3>5. ASSUME NEW v \in Workers, Step(v) \/ Fail(v), v # w
          PROVE  FALSE
      <4>1. job'[w] = job[w]
        BY <2>1, <3>5
           DEF Step, Detect, ReadLayer, WriteLayer, Settle, CheckThrottle,
               Route, Consult, Upsert, Fail, Goes, Rests, GoesToSettle, Refused
      <4> QED
        BY <3>1, <4>1
    <3>6. ~Fail(w)
      BY <1>1, <2>1 DEF Fail, Rests, Idle
    <3>7. Step(w)
      BY <1>1, <3>3, <3>4, <3>5, <3>6 DEF Next
    <3> QED
      BY <1>1, <3>7
         DEF Step, Detect, ReadLayer, Settle, CheckThrottle, Route, Consult,
             Upsert
  <2>3. layer' = [exists |-> TRUE, source |-> "synapse",
                  data |-> Merge(p, layer)]
    BY <1>1, <2>1, <2>2 DEF WriteLayer, Stored, Rests, Idle
  <2>4. Merge(p, layer)[c] = layer'.data[c]
    BY <2>3
  <2>5. p \in Proposals /\ draft[p] \in Drafts
    BY <1>1, HasProposal DEF IInv, TypeOK
  <2> QED
    BY <1>1, <2>1, <2>4, <2>5, CellRespected
<1>2. IInv /\ [Next]_vars =>
        [\A w \in Workers, c \in Cells :
         LET p == job[w].proposal
         IN /\ job[w].at = "write" /\ job'[w].at = "settle" /\ w \notin overtaken
            /\ layer'.data[c] # layer.data[c]
            => /\ FieldOf[c] \in draft[p].payload
               /\ draft[p].action = "add" => c \in draft[p].sets
               /\ layer.source = "user_explicit" =>
                    layer.data[c] \subseteq layer'.data[c] \/ c \in Holes(p)]_vars
  BY <1>1
<1> QED
  BY <1>2, SpecIsSane, PTL DEF Spec, MergeRespectsLayer

(* The table, its sweeps and the workers keep the promises of the desk.    *)
THEOREM KeepsDesk == Spec => ImplementsDesk
<1> DEFINE verdict == [p \in Proposals |-> Verdict(status[p])]
<1>1. Init => Desk!Init
  BY DEF Init, Desk!Init, Verdict
<1>2. ASSUME IInv, [Next]_vars PROVE [Desk!Next]_(Desk!vars)
  <2> USE DEF layerVars, sweepVars, tableVars
  <2>1. TypeOK
    BY <1>2 DEF IInv
  <2>2. ASSUME NEW p \in Proposals, Submit(p) PROVE Desk!Open(p)
    BY <2>1, <2>2 DEF Submit, Desk!Open, Desk!Set, Verdict, TypeOK
  <2>3. ASSUME NEW p \in Proposals, SweepStale(p) PROVE Desk!Close({p})
    BY <2>1, <2>3 DEF SweepStale, Desk!Close, Desk!Set, Verdict, TypeOK
  <2>4. ASSUME NEW w \in Workers, WriteLayer(w) \/ Upsert(w)
        PROVE  [Desk!Next]_(Desk!vars)
    <3>1. job[w].proposal \in Proposals /\ status[job[w].proposal] # "unsent"
      BY <1>2, <2>4, HasProposal DEF WriteLayer, Upsert
    <3>2. CASE UNCHANGED <<status, merged>>
      BY <3>2 DEF Desk!vars
    <3>3. CASE UNCHANGED status /\ merged' = merged \cup {job[w].proposal}
      <4>1. Verdict(status[job[w].proposal]) # "unsent"
        BY <2>1, <3>1 DEF Verdict, TypeOK, Statuses
      <4>2. Desk!Write(job[w].proposal)
        BY <3>1, <3>3, <4>1 DEF Desk!Write
      <4> QED
        BY <3>1, <4>2 DEF Desk!Next
    <3> QED
      BY <2>4, <3>2, <3>3 DEF WriteLayer, Upsert, Stored
  <2>5. ASSUME NEW w \in Workers, Settle(w) PROVE [Desk!Next]_(Desk!vars)
    <3> DEFINE p == job[w].proposal
               v == job[w].verdict
    <3>1. /\ p \in Proposals /\ status[p] # "unsent" /\ status[p] \in Statuses
          /\ v \in {"accepted", "declined", "escalated"}
          /\ v = "accepted" => p \in merged
          /\ UNCHANGED merged
      BY <1>2, <2>1, <2>5, HasProposal
         DEF Settle, IInv, TypeOK, Job, WorkerSane, Earned
    <3>2. CASE UNCHANGED status
      BY <3>1, <3>2 DEF Desk!vars
    <3>3. CASE /\ ~UNCHANGED status
               /\ status' = [status EXCEPT ![p] = v] /\ Legal(status[p], v)
      <4>1. status[p] \in {"submitted", "escalated"}
        BY <2>1, <3>1, <3>3 DEF Legal, TypeOK
      <4>2. v = "accepted" => Desk!Accept(p)
        BY <2>1, <3>1, <3>3, <4>1 DEF Desk!Accept, Desk!Set, Verdict, TypeOK
      <4>3. v = "declined" => Desk!Close({p})
        BY <2>1, <3>1, <3>3, <4>1 DEF Desk!Close, Desk!Set, Verdict, TypeOK
      <4>4. v = "escalated" => UNCHANGED Desk!vars
        BY <2>1, <3>1, <3>3, <4>1 DEF Desk!vars, Verdict, TypeOK
      <4> QED
        BY <3>1, <4>2, <4>3, <4>4 DEF Desk!Next
    <3> QED
      BY <2>5, <3>2, <3>3 DEF Settle
  <2>6. CASE SweepOverdue
    <3> DEFINE due == {p \in overdue : status[p] \in {"submitted", "accepted"}}
    <3>1. Desk!Close(due)
      BY <2>1, <2>6
         DEF SweepOverdue, Legal, Desk!Close, Desk!Set, Verdict, TypeOK
    <3> QED
      BY <2>1, <3>1 DEF Desk!Next, TypeOK
  <2>7. CASE MarkSuperseded
    <3>1. CASE UNCHANGED status
      BY <2>7, <3>1 DEF MarkSuperseded, Desk!vars
    <3>2. CASE status' = [p \in Proposals |->
                            IF p \in doomed THEN "superseded" ELSE status[p]]
      <4>1. doomed \subseteq Accepted /\ Accepted \ doomed # {}
        BY <1>2, <2>7 DEF IInv, SweepSane, MarkSuperseded
      <4>2. Desk!Standing = Accepted
        BY <2>1 DEF Desk!Standing, Accepted, Verdict, TypeOK, Statuses
      <4>3. Desk!Supersede(doomed)
        BY <2>1, <2>7, <3>2, <4>1, <4>2
           DEF MarkSuperseded, Desk!Supersede, Desk!Set, Verdict, TypeOK
      <4> QED
        BY <2>1, <4>3 DEF Desk!Next, TypeOK
    <3> QED
      BY <2>7, <3>1, <3>2 DEF MarkSuperseded
  <2>8. CASE UNCHANGED <<status, merged>>
    BY <2>8 DEF Desk!vars
  <2> QED
    BY <1>2, <2>2, <2>3, <2>4, <2>5, <2>6, <2>7, <2>8
       DEF Next, Step, Desk!Next, Lapse, Start, Answer, Detect, ReadLayer,
           CheckThrottle, Route, Consult, Fail, FindSuperseded, vars
<1> QED
  BY <1>1, <1>2, SpecIsSane, PTL DEF Spec, ImplementsDesk, Desk!Spec

----------------------------------------------------------------------------
(* Evaluations end, and end with a verdict *)

(* An upper bound on the steps a worker has still to take.                 *)
Rank(w) ==
  CASE job[w].at = "detect" -> 6
    [] job[w].at \in {"read", "consult"} -> 5
    [] job[w].at \in {"write", "upsert"} -> 4
    [] job[w].at = "settle" -> 3
    [] job[w].at = "throttle" -> 2
    [] job[w].at = "route" -> 1
    [] OTHER -> 0

(* Every step of a worker brings it nearer to its end; the row of the      *)
(* layer is never taken away; and a worker that ends by itself leaves its  *)
(* proposal evaluated, unless the first row of the layer appeared between  *)
(* its read and its insert.                                                *)
EvaluationsDecide ==
  [][/\ \A w \in Workers :
          /\ Step(w) => Rank(w)' < Rank(w)
          /\ Step(w) /\ job'[w].at = "idle" =>
               \/ status'[job[w].proposal] # "submitted"
               \/ layer.exists /\ ~job[w].seen.exists
     /\ layer.exists => layer'.exists]_vars

(* What the customer is asked about is not evaluated again.                *)
Evaluated(p) == status[p] \notin {"unsent", "submitted"}
AskedAreEvaluated ==
  \A w \in Workers :
    job[w].at \in {"consult", "upsert"} => Evaluated(job[w].proposal)

LEMMA EvaluatedStays ==
  ASSUME IInv, [Next]_vars, NEW p \in Proposals, Evaluated(p)
  PROVE  Evaluated(p)'
<1> USE DEF IInv, TypeOK, Evaluated
<1>1. ASSUME NEW q \in Proposals, Submit(q) \/ SweepStale(q)
      PROVE  Evaluated(p)'
  BY <1>1 DEF Submit, SweepStale
<1>2. ASSUME NEW w \in Workers, Settle(w) PROVE Evaluated(p)'
  <2>1. job[w].verdict \notin {"unsent", "submitted"}
    BY DEF Job
  <2> QED
    BY <1>2, <2>1 DEF Settle
<1>3. CASE SweepOverdue \/ MarkSuperseded
  BY <1>3 DEF SweepOverdue, MarkSuperseded
<1>4. CASE UNCHANGED status
  BY <1>4
<1> QED
  BY <1>1, <1>2, <1>3, <1>4
     DEF Next, Step, Lapse, Start, Answer, Detect, ReadLayer, WriteLayer,
         CheckThrottle, Route, Consult, Upsert, Fail, FindSuperseded, vars,
         tableVars

(* Where a worker is after a step of each form.                            *)
LEMMA WorkerLands ==
  ASSUME job \in [Workers -> Job], NEW w \in Workers
  PROVE  /\ \A place \in Places : Goes(w, place) => job'[w].at = place
         /\ Rests(w) => job'[w].at = "idle"
         /\ \A v \in {"accepted", "declined", "escalated"} :
              GoesToSettle(w, v) => job'[w].at = "settle"
         /\ \A seen \in Layer, place \in Places :
              job' = [job EXCEPT ![w] = [@ EXCEPT !.at = place, !.seen = seen]]
                => /\ job'[w].at = place
                   /\ job'[w].proposal = job[w].proposal
<1>1. job[w] \in Job
  OBVIOUS
<1>2. ASSUME NEW place \in Places, Goes(w, place) PROVE job'[w].at = place
  <2>1. job'[w] = [job[w] EXCEPT !.at = place]
    BY <1>2 DEF Goes
  <2> QED
    BY <1>1, <2>1 DEF Job
<1>3. ASSUME Rests(w) PROVE job'[w].at = "idle"
  BY <1>3 DEF Rests, Idle
<1>4. ASSUME NEW v \in {"accepted", "declined", "escalated"},
             GoesToSettle(w, v)
      PROVE  job'[w].at = "settle"
  BY <1>4 DEF GoesToSettle, Idle
<1>5. ASSUME NEW seen \in Layer, NEW place \in Places,
             job' = [job EXCEPT ![w] = [@ EXCEPT !.at = place, !.seen = seen]]
      PROVE  job'[w].at = place /\ job'[w].proposal = job[w].proposal
  <2>1. job'[w] = [job[w] EXCEPT !.at = place, !.seen = seen]
    BY <1>5
  <2> QED
    BY <1>1, <2>1 DEF Job
<1> QED
  BY <1>2, <1>3, <1>4, <1>5

LEMMA AskedStay ==
  ASSUME IInv, AskedAreEvaluated, [Next]_vars
  PROVE  AskedAreEvaluated'
<1> SUFFICES ASSUME NEW w \in Workers, job'[w].at \in {"consult", "upsert"}
             PROVE  Evaluated(job[w].proposal)'
  BY DEF AskedAreEvaluated, Evaluated
<1>0. job \in [Workers -> Job] /\ layer \in Layer
  BY DEF IInv, TypeOK
<1>1. CASE \E p \in Proposals : Answer(w, p)
  <2>1. PICK p \in Proposals : Answer(w, p)
    BY <1>1
  <2>2. job'[w].proposal = p /\ Evaluated(p)
    BY <1>0, <2>1 DEF Answer, Idle, Evaluated
  <2> QED
    BY <2>1, <2>2, EvaluatedStays
<1>2. CASE /\ job[w].at \in {"consult", "upsert"}
           /\ job'[w].proposal = job[w].proposal
  <2>1. job[w].proposal \in Proposals /\ Evaluated(job[w].proposal)
    BY <1>2, HasProposal DEF AskedAreEvaluated
  <2> QED
    BY <1>2, <2>1, EvaluatedStays
<1>3. ASSUME NEW v \in Workers, NEW p \in Proposals,
             Start(v, p) \/ (Answer(v, p) /\ v # w)
      PROVE  job'[w] = job[w]
  BY <1>0, <1>3 DEF Start, Answer, Idle
<1>4. ASSUME NEW v \in Workers, Step(v) \/ Fail(v), v # w
      PROVE  job'[w] = job[w]
  BY <1>0, <1>4 DEF Step, Fail, Detect, ReadLayer, WriteLayer, Settle, Refused,
    CheckThrottle, Route, Consult, Upsert, Goes, Rests, GoesToSettle
<1>5. ASSUME Step(w) \/ Fail(w)
      PROVE  /\ job[w].at \in {"consult", "upsert"}
             /\ job'[w].proposal = job[w].proposal
  <2>1. /\ \A place \in Places : Goes(w, place) => job'[w].at = place
        /\ ~Rests(w)
        /\ \A v \in {"accepted", "declined", "escalated"} : ~GoesToSettle(w, v)
    BY <1>0, WorkerLands
  <2>2. CASE Consult(w)
    BY <1>0, <2>1, <2>2, WorkerLands DEF Consult, Places
  <2>3. CASE ReadLayer(w)
    <3>1. job'[w].at = "write"
      BY <1>0, <2>3, WorkerLands DEF ReadLayer, Places
    <3> QED
      BY <3>1
  <2>4. CASE \/ Detect(w) \/ WriteLayer(w) \/ CheckThrottle(w) \/ Route(w)
             \/ Upsert(w) \/ Fail(w)
    BY <2>1, <2>4 DEF Detect, WriteLayer, CheckThrottle, Route, Upsert, Fail,
                      Relevant, Places
  <2>5. CASE Settle(w)
    BY <2>1, <2>5 DEF Settle, Refused, Places
  <2> QED
    BY <1>5, <2>2, <2>3, <2>4, <2>5 DEF Step
<1>6. CASE UNCHANGED job
  BY <1>2, <1>6, EvaluatedStays DEF AskedAreEvaluated
<1> QED
  BY <1>1, <1>2, <1>3, <1>4, <1>5, <1>6
     DEF Next, Submit, Lapse, SweepStale, SweepOverdue, FindSuperseded,
         MarkSuperseded, vars

(* The unique key of the layer can turn an evaluation away only while the  *)
(* layer gets its first row, so cron's attempts cannot fail for ever: what *)
(* is left of SubmittedIsEvaluated is that cron comes back.                *)
THEOREM EvaluationsEnd == Spec => EvaluationsDecide
<1>1. ASSUME TypeOK, NEW w \in Workers, Step(w) PROVE Rank(w)' < Rank(w)
  <2>1. \/ job[w].at = "detect" /\ job'[w].at \in {"settle", "read"}
        \/ job[w].at = "read" /\ job'[w].at = "write"
        \/ job[w].at = "consult" /\ job'[w].at \in {"upsert", "idle"}
        \/ job[w].at = "write" /\ job'[w].at \in {"settle", "idle"}
        \/ job[w].at = "upsert" /\ job'[w].at = "settle"
        \/ job[w].at = "settle" /\ job'[w].at \in {"throttle", "idle"}
        \/ job[w].at = "throttle" /\ job'[w].at \in {"route", "idle"}
        \/ job[w].at = "route" /\ job'[w].at = "idle"
    <3>1. job \in [Workers -> Job] /\ layer \in Layer
      BY <1>1 DEF TypeOK
    <3>2. /\ \A place \in Places : Goes(w, place) => job'[w].at = place
          /\ Rests(w) => job'[w].at = "idle"
          /\ \A v \in {"accepted", "declined", "escalated"} :
               GoesToSettle(w, v) => job'[w].at = "settle"
      BY <3>1, WorkerLands
    <3>3. CASE ReadLayer(w) \/ Consult(w)
      BY <3>1, <3>2, <3>3, WorkerLands DEF ReadLayer, Consult, Places
    <3>4. CASE Detect(w)
      BY <3>2, <3>4 DEF Detect, Relevant, Places
    <3>5. CASE \/ WriteLayer(w) \/ Settle(w) \/ CheckThrottle(w)
               \/ Route(w) \/ Upsert(w)
      BY <3>2, <3>5 DEF WriteLayer, Settle, Refused, CheckThrottle, Route,
                        Upsert, Places
    <3> QED
      BY <1>1, <3>3, <3>4, <3>5 DEF Step
  <2> QED
    BY <2>1 DEF Rank
<1>2. ASSUME IInv, AskedAreEvaluated, NEW w \in Workers, Step(w),
             job'[w].at = "idle"
      PROVE  \/ status'[job[w].proposal] # "submitted"
             \/ layer.exists /\ ~job[w].seen.exists
  <2> DEFINE p == job[w].proposal
  <2>1. /\ TypeOK /\ WorkerSane(w)
        /\ job \in [Workers -> Job] /\ layer \in Layer
    BY <1>2 DEF IInv, TypeOK
  <2>2. /\ \A place \in Places : Goes(w, place) => job'[w].at = place
        /\ \A v \in {"accepted", "declined", "escalated"} :
             GoesToSettle(w, v) => job'[w].at = "settle"
    BY <2>1, WorkerLands
  <2>3. CASE Detect(w)
    BY <1>2, <2>2, <2>3 DEF Detect, Relevant, Places
  <2>4. CASE ReadLayer(w) \/ Upsert(w)
    BY <1>2, <2>1, <2>2, <2>4, WorkerLands DEF ReadLayer, Upsert, Places
  <2>5. CASE WriteLayer(w)
    BY <1>2, <2>2, <2>5 DEF WriteLayer
  <2>6. CASE Settle(w)
    <3>1. p \in Proposals /\ job[w].verdict # "submitted"
      BY <2>1, <2>6 DEF Settle, WorkerSane, Busy, Job
    <3>2. CASE Legal(status[p], job[w].verdict)
      BY <2>1, <2>6, <3>1, <3>2 DEF Settle, TypeOK
    <3>3. CASE ~Legal(status[p], job[w].verdict)
      <4>1. status[p] # "submitted"
        BY <2>1, <3>3 DEF Legal, Job
      <4> QED
        BY <2>6, <3>3, <4>1 DEF Settle
    <3> QED
      BY <3>2, <3>3
  <2>7. CASE CheckThrottle(w) \/ Route(w)
    BY <2>1, <2>7
       DEF CheckThrottle, Route, WorkerSane, Told, tableVars
  <2>8. CASE Consult(w)
    BY <1>2, <2>8 DEF Consult, AskedAreEvaluated, Evaluated, tableVars
  <2> QED
    BY <1>2, <2>3, <2>4, <2>5, <2>6, <2>7, <2>8 DEF Step
<1>3. IInv /\ [Next]_vars => (layer.exists => layer'.exists)
  <2> SUFFICES ASSUME IInv, [Next]_vars, layer.exists PROVE layer'.exists
    OBVIOUS
  <2>1. ASSUME NEW w \in Workers, Step(w) PROVE layer'.exists
    BY <2>1 DEF Step, Detect, ReadLayer, WriteLayer, Settle, CheckThrottle,
      Route, Consult, Upsert, Stored, layerVars
  <2>2. CASE UNCHANGED layer
    BY <2>2
  <2> QED
    BY <2>1, <2>2
       DEF Next, Submit, Lapse, SweepStale, Start, Answer, Fail, SweepOverdue,
           FindSuperseded, MarkSuperseded, vars, layerVars
<1>4. IInv /\ AskedAreEvaluated /\ [Next]_vars =>
        [/\ \A w \in Workers :
              /\ Step(w) => Rank(w)' < Rank(w)
              /\ Step(w) /\ job'[w].at = "idle" =>
                   \/ status'[job[w].proposal] # "submitted"
                   \/ layer.exists /\ ~job[w].seen.exists
         /\ layer.exists => layer'.exists]_vars
  <2>1. IInv => TypeOK
    BY DEF IInv
  <2> QED
    BY <1>1, <1>2, <1>3, <2>1
<1>5. Init => AskedAreEvaluated
  BY DEF Init, Idle, AskedAreEvaluated
<1>6. IInv /\ AskedAreEvaluated /\ [Next]_vars => AskedAreEvaluated'
  BY AskedStay
<1> QED
  BY <1>4, <1>5, <1>6, SpecIsSane, PTL DEF Spec, EvaluationsDecide
==============================================================================

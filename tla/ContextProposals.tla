--------------------------- MODULE ContextProposals ---------------------------
(* The proposals that change one context layer of an account: their        *)
(* evaluation (packages/cortex/src/evaluate.ts, conflict.ts), the          *)
(* customer's answer to an escalated one (resolve-proposal.ts), routing to *)
(* the other apps (route.ts), the sweeps of supabase/functions/expire-cron *)
(* and the transition trigger of migrations/00033.  A proposal is          *)
(* evaluated by the request that submits it and again by cortex-cron while *)
(* it is still marked submitted, so evaluations of one proposal overlap.   *)
(* Every await is a step of its own.                                       *)
(*                                                                         *)
(* The value of a field is a scalar, a list or an object, and an object    *)
(* has keys whose values are scalars or lists: the cells of a layer are    *)
(* its fields, and in their place the keys of those that are objects.  A   *)
(* cell holds the proposals whose entries are in it, none when it is null  *)
(* or absent; no two propose the same value.  Values of another shape than *)
(* their field and objects inside objects are left out.                    *)
EXTENDS FiniteSets, Naturals

CONSTANTS
  Proposals,   \* ids of the rows of kinetiks_proposals for this layer
  NoProposal,  \* no proposal
  Workers,     \* requests: evaluations and answers of the customer
  Fields,      \* fields of the layer
  Objects,     \* those whose values are objects
  Cells,       \* the values that make up a layer
  FieldOf,     \* the field a cell belongs to
  Lists,       \* the cells that hold an array
  Drafts,      \* what a proposal may say
  MaxFaults    \* bound on infrastructure failures and crashes

Draft ==
  [action : {"add", "update", "escalate"},
   confidence : {"validated", "inferred", "speculative"},
   payload : SUBSET Fields,   \* the fields it names
   sets : SUBSET Cells,       \* what it says of them: a field without is null
   wellFormed : BOOLEAN,      \* it passes validateSchema
   evidenced : BOOLEAN,       \* it carries evidence
   expires : BOOLEAN,         \* it has an expires_at
   byUser : BOOLEAN]          \* an edit of the customer's own

ASSUME CellAssumption ==
  /\ Objects \subseteq Fields /\ Lists \subseteq Cells
  /\ FieldOf \in [Cells -> Fields]
  /\ \A c, d \in Cells :
       FieldOf[c] = FieldOf[d] /\ FieldOf[c] \notin Objects => c = d
ASSUME ProposalAssumption ==
  /\ NoProposal \notin Proposals /\ Drafts \subseteq Draft /\ Drafts # {}
  /\ \A d \in Drafts, c \in Cells : c \in d.sets => FieldOf[c] \in d.payload
ASSUME FaultAssumption == MaxFaults \in Nat

VARIABLES
  status,     \* of each proposal; "unsent" before it is inserted
  draft,      \* what each proposal says, fixed when it is inserted
  layer,      \* the row of the context table
  job,        \* the local state of each worker
  overdue,    \* the proposals past their expires_at
  doomed,     \* what the sweep is about to mark superseded
  routed,     \* the proposals the other apps were told of
  merged,     \* history: the proposals written into the layer
  overtaken,  \* history: workers whose view of the layer is out of date
  faults

layerVars == <<layer, merged, overtaken>>
sweepVars == <<overdue, doomed>>
tableVars == <<status, draft>>
vars == <<tableVars, layerVars, sweepVars, routed, job, faults>>

Statuses == {"unsent", "submitted", "accepted", "declined", "escalated",
             "expired", "superseded"}
Sources == {"system", "synapse", "user_explicit"}
Layer == [exists : BOOLEAN, source : Sources,
          data : [Cells -> SUBSET Proposals]]
NoLayer == [exists |-> FALSE, source |-> "system",
            data |-> [c \in Cells |-> {}]]

Places == {"idle", "detect", "read", "write", "settle", "throttle", "route",
           "consult", "upsert"}
Job == [at : Places, proposal : Proposals \cup {NoProposal},
        verdict : {"accepted", "declined", "escalated"},
        user : BOOLEAN,   \* this is the customer's answer
        seen : Layer]     \* the layer as read for the merge
Idle == [at |-> "idle", proposal |-> NoProposal, verdict |-> "accepted",
         user |-> FALSE, seen |-> NoLayer]

(* Creating the account inserts an empty row, or fails to without notice.  *)
Init ==
  /\ status = [p \in Proposals |-> "unsent"]
  /\ draft \in [Proposals -> {CHOOSE d \in Drafts : TRUE}]
  /\ \E created \in BOOLEAN : layer = [NoLayer EXCEPT !.exists = created]
  /\ job = [w \in Workers |-> Idle]
  /\ overdue = {} /\ doomed = {} /\ routed = {}
  /\ merged = {} /\ overtaken = {}
  /\ faults = 0

Fault ==
  /\ faults < MaxFaults
  /\ faults' = faults + 1

Accepted == {p \in Proposals : status[p] = "accepted"}

(* Worker w goes to a place, keeping its proposal.                         *)
Goes(w, place) == job' = [job EXCEPT ![w] = [@ EXCEPT !.at = place]]
Rests(w) == job' = [job EXCEPT ![w] = Idle]
GoesToSettle(w, verdict) ==
  job' = [job EXCEPT ![w] = [Idle EXCEPT !.at = "settle",
                               !.proposal = job[w].proposal,
                               !.verdict = verdict, !.user = job[w].user]]

----------------------------------------------------------------------------
(* The database *)

(* kinetiks_proposals_check_transition.  The first mutant is the table     *)
(* without its trigger, the second forgets that what is submitted can be   *)
(* declined.                                                               *)
Legal_Unguarded(from, to) == TRUE
Legal_NoDecline(from, to) ==
  \/ from = to
  \/ from = "submitted" /\ to \in {"accepted", "escalated", "expired"}
  \/ from = "escalated" /\ to \in {"accepted", "declined", "expired"}
  \/ from = "accepted" /\ to = "superseded"
Legal(from, to) ==
  \/ from = to
  \/ from = "submitted" /\ to \in {"accepted", "declined", "escalated",
                                   "expired"}
  \/ from = "escalated" /\ to \in {"accepted", "declined", "expired"}
  \/ from = "accepted" /\ to = "superseded"

(* Worker w writes the layer: the view of everybody else who is between    *)
(* judging it and writing it is out of date.                               *)
Stored(w, row) ==
  /\ layer' = row
  /\ merged' = merged \cup {job[w].proposal}
  /\ overtaken' = {u \in Workers \ {w} : job[u].at \in {"read", "write"}}

Submit(p) ==
  /\ status[p] = "unsent"
  /\ status' = [status EXCEPT ![p] = "submitted"]
  /\ \E d \in Drafts : draft' = [draft EXCEPT ![p] = d]
  /\ UNCHANGED <<layerVars, sweepVars, routed, job, faults>>

----------------------------------------------------------------------------
(* evaluateProposal *)

(* The submitting request, or POST /api/cortex/evaluate from cortex-cron:  *)
(* the row is read once, and not looked at again.                          *)
Start(w, p) ==
  /\ job[w].at = "idle" /\ status[p] = "submitted"
  /\ job' = [job EXCEPT ![w] = [Idle EXCEPT !.at = "detect", !.proposal = p]]
  /\ UNCHANGED <<tableVars, layerVars, sweepVars, routed, faults>>

Priority(source) ==
  CASE source = "user_explicit" -> 5
    [] source = "synapse" -> 2
    [] OTHER -> 0
Strength(confidence) ==
  CASE confidence = "validated" -> 3
    [] confidence = "inferred" -> 2
    [] OTHER -> 1

Within(f) == {c \in Cells : FieldOf[c] = f}

(* The value proposal p has for a cell of a field it names.                *)
Proposed(p, c) == IF c \in draft[p].sets THEN {p} ELSE {}
Nulls(p) == {f \in draft[p].payload : Within(f) \cap draft[p].sets = {}}

(* findConflictingFields: a null on either side is no conflict.            *)
Conflicts(p) ==
  {f \in draft[p].payload \ Nulls(p) :
     /\ \E c \in Within(f) : layer.data[c] # {}
     /\ \E c \in Within(f) : layer.data[c] # Proposed(p, c)}

(* What rule 1 of detectConflict lets through: a list, and an object that  *)
(* is to gain a key, whatever becomes of its other keys.                   *)
GainsKey(p, f) ==
  f \in Objects /\ \E c \in Within(f) \cap draft[p].sets : layer.data[c] = {}
Extends(p, f) == f \notin Objects /\ Within(f) \subseteq Lists
Sacred(p) == {f \in Conflicts(p) : ~Extends(p, f) /\ ~GainsKey(p, f)}

(* detectConflict.  The mutant forgets that the customer's values are       *)
(* sacred when the proposal is as strong as evidence can be.               *)
Declines_Validated(p) ==
  /\ layer.exists
  /\ IF layer.source = "user_explicit"
     THEN Sacred(p) # {} /\ draft[p].confidence # "validated"
     ELSE /\ Conflicts(p) # {}
          /\ Priority(layer.source) > Strength(draft[p].confidence)
Declines(p) ==
  /\ layer.exists
  /\ IF layer.source = "user_explicit"
     THEN Sacred(p) # {}
     ELSE /\ Conflicts(p) # {}
          /\ Priority(layer.source) > Strength(draft[p].confidence)

(* scoreRelevance >= RELEVANCE_THRESHOLD: what is validated passes, what   *)
(* has no evidence does not, what is inferred from any evidence does, and  *)
(* a speculation depends on how much evidence there is and how old it is.  *)
Relevant(p) ==
  IF draft[p].confidence = "validated" THEN {TRUE}
  ELSE IF ~draft[p].evidenced THEN {FALSE}
  ELSE IF draft[p].confidence = "inferred" THEN {TRUE}
  ELSE BOOLEAN

Detect(w) ==
  LET p == job[w].proposal
  IN /\ job[w].at = "detect"
     /\ IF ~draft[p].wellFormed THEN GoesToSettle(w, "declined")
        ELSE IF draft[p].action = "escalate" THEN GoesToSettle(w, "escalated")
        ELSE IF Declines(p) THEN GoesToSettle(w, "declined")
        ELSE \E relevant \in Relevant(p) :
               IF relevant THEN Goes(w, "read")
                           ELSE GoesToSettle(w, "declined")
     /\ overtaken' = overtaken \ {w}
     /\ UNCHANGED <<tableVars, layer, merged, sweepVars, routed, faults>>

(* mergeProposal selects the row again. *)
ReadLayer(w) ==
  /\ job[w].at = "read"
  /\ job' = [job EXCEPT ![w] = [@ EXCEPT !.at = "write", !.seen = layer]]
  /\ UNCHANGED <<tableVars, layerVars, sweepVars, routed, faults>>

(* The shallow { ...existing, ...payload } puts its own value, a null and  *)
(* the absence of a key included, in place of every field it names.        *)
Overwritten(p, seen) ==
  [c \in Cells |-> IF FieldOf[c] \in draft[p].payload THEN Proposed(p, c)
                                                     ELSE seen.data[c]]
(* deepMerge passes over nulls, goes into objects key by key and extends   *)
(* lists; any other value it has takes the place of the one that is there. *)
DeepMerged(p, seen) ==
  [c \in Cells |-> IF c \notin draft[p].sets THEN seen.data[c]
                  ELSE IF c \in Lists THEN seen.data[c] \cup {p}
                  ELSE {p}]

(* deepMerge for an addition, an overwrite for an update.  The mutant      *)
(* stores the payload in place of the merged data.                         *)
Merge_Replaces(p, seen) == [c \in draft[p].sets |-> {p}]
Merge(p, seen) ==
  IF draft[p].action = "add" THEN DeepMerged(p, seen) ELSE Overwritten(p, seen)

(* An update by account_id replaces whatever is there by now; an insert    *)
(* meets the unique key when a row has appeared, and throws.               *)
WriteLayer(w) ==
  /\ job[w].at = "write"
  /\ IF layer.exists /\ ~job[w].seen.exists
     THEN Rests(w) /\ UNCHANGED layerVars
     ELSE /\ Stored(w, [exists |-> TRUE, source |-> "synapse",
                        data |-> Merge(job[w].proposal, job[w].seen)])
          /\ GoesToSettle(w, "accepted")
  /\ UNCHANGED <<tableVars, sweepVars, routed, faults>>

(* updateProposalStatus: by id, so the trigger alone decides; an illegal   *)
(* transition raises, and the evaluation ends there.  The mutant does not  *)
(* look at the error.                                                      *)
Refused_Ignored(w) == Goes(w, "throttle")
Refused(w) == Rests(w)
Settle(w) ==
  LET p == job[w].proposal
      verdict == job[w].verdict
  IN /\ job[w].at = "settle"
     /\ IF Legal(status[p], verdict)
        THEN /\ status' = [status EXCEPT ![p] = verdict]
             /\ IF verdict = "accepted" /\ ~job[w].user
                THEN Goes(w, "throttle") ELSE Rests(w)
        ELSE Refused(w) /\ UNCHANGED status
     /\ UNCHANGED <<draft, layerVars, sweepVars, routed, faults>>

(* checkRecencyThrottle: an event of the last five minutes, or an error of *)
(* the query, and the apps are not told; then the routing event is written.*)
CheckThrottle(w) ==
  /\ job[w].at = "throttle"
  /\ Rests(w) \/ Goes(w, "route")
  /\ UNCHANGED <<tableVars, layerVars, sweepVars, routed, faults>>

Route(w) ==
  /\ job[w].at = "route"
  /\ routed' = routed \cup {job[w].proposal}
  /\ Rests(w)
  /\ UNCHANGED <<tableVars, layerVars, sweepVars, faults>>

----------------------------------------------------------------------------
(* resolveProposal: the customer answers an escalated proposal *)

Answer(w, p) ==
  /\ job[w].at = "idle" /\ status[p] = "escalated"
  /\ \E place \in {"consult", "settle"} :
       job' = [job EXCEPT ![w] =
         [Idle EXCEPT !.at = place, !.proposal = p, !.user = TRUE,
            !.verdict = IF place = "settle" THEN "declined" ELSE "accepted"]]
  /\ UNCHANGED <<tableVars, layerVars, sweepVars, routed, faults>>

(* The merged data may fail validateLayerData: nothing is written then.    *)
Consult(w) ==
  /\ job[w].at = "consult"
  /\ \/ job' = [job EXCEPT ![w] = [@ EXCEPT !.at = "upsert", !.seen = layer]]
     \/ Rests(w)
  /\ UNCHANGED <<tableVars, layerVars, sweepVars, routed, faults>>

Upsert(w) ==
  LET p == job[w].proposal
  IN /\ job[w].at = "upsert"
     /\ Stored(w, [exists |-> TRUE, source |-> "user_explicit",
                   data |-> Overwritten(p, job[w].seen)])
     /\ GoesToSettle(w, "accepted")
     /\ UNCHANGED <<tableVars, sweepVars, routed, faults>>

(* A query fails and throws, or the process dies.                          *)
Fail(w) ==
  /\ job[w].at # "idle"
  /\ Fault /\ Rests(w)
  /\ UNCHANGED <<tableVars, layerVars, sweepVars, routed>>

----------------------------------------------------------------------------
(* expire-cron, sections 1 to 3, and the passing of time *)

Lapse(p) ==
  /\ p \notin overdue /\ status[p] # "unsent" /\ draft[p].expires
  /\ overdue' = overdue \cup {p}
  /\ UNCHANGED <<tableVars, layerVars, doomed, routed, job, faults>>

(* One UPDATE of all overdue rows: the trigger raises for an accepted one  *)
(* and none of them expires.                                               *)
SweepOverdue ==
  LET due == {p \in overdue : status[p] \in {"submitted", "accepted"}}
  IN /\ due # {} /\ \A p \in due : Legal(status[p], "expired")
     /\ status' = [p \in Proposals |->
                     IF p \in due THEN "expired" ELSE status[p]]
     /\ UNCHANGED <<draft, layerVars, sweepVars, routed, job, faults>>

(* A proposal has waited for seven days. *)
SweepStale(p) ==
  /\ status[p] = "submitted"
  /\ status' = [status EXCEPT ![p] = "expired"]
  /\ UNCHANGED <<draft, layerVars, sweepVars, routed, job, faults>>

(* The accepted ones but the one with the newest evaluated_at, which an     *)
(* overlapping evaluation can renew.  The mutant keeps none.               *)
Superseded_All(newest) == Accepted
Superseded(newest) == Accepted \ {newest}

FindSuperseded ==
  /\ doomed = {}
  /\ \E newest \in Accepted : doomed' = Superseded(newest)
  /\ UNCHANGED <<tableVars, overdue, layerVars, routed, job, faults>>

MarkSuperseded ==
  /\ doomed # {}
  /\ \/ /\ status' = [p \in Proposals |->
                        IF p \in doomed THEN "superseded" ELSE status[p]]
        /\ UNCHANGED faults
     \/ Fault /\ UNCHANGED status
  /\ doomed' = {}
  /\ UNCHANGED <<draft, overdue, layerVars, routed, job>>

----------------------------------------------------------------------------
Step(w) ==
  \/ Detect(w) \/ ReadLayer(w) \/ WriteLayer(w) \/ Settle(w)
  \/ CheckThrottle(w) \/ Route(w) \/ Consult(w) \/ Upsert(w)

Next ==
  \/ \E p \in Proposals : Submit(p) \/ Lapse(p) \/ SweepStale(p)
  \/ \E w \in Workers, p \in Proposals : Start(w, p) \/ Answer(w, p)
  \/ \E w \in Workers : Step(w) \/ Fail(w)
  \/ SweepOverdue \/ FindSuperseded \/ MarkSuperseded

Spec == Init /\ [][Next]_vars

(* cortex-cron runs every minute and takes the oldest submitted proposals  *)
(* first; a worker that neither fails nor dies gets on.                    *)
Fairness ==
  /\ \A w \in Workers : WF_vars(Step(w))
  /\ \A p \in Proposals : SF_vars(\E w \in Workers : Start(w, p))
FairSpec == Spec /\ Fairness

----------------------------------------------------------------------------
(* Properties *)

TypeOK ==
  /\ status \in [Proposals -> Statuses]
  /\ draft \in [Proposals -> Drafts]
  /\ layer \in Layer
  /\ job \in [Workers -> Job]
  /\ overdue \subseteq Proposals /\ doomed \subseteq Proposals
  /\ routed \subseteq Proposals
  /\ merged \subseteq Proposals /\ overtaken \subseteq Workers
  /\ faults \in 0..MaxFaults

(* The other apps are told of nothing that was declined or has expired,    *)
(* although a routing event is written by whoever evaluated the proposal   *)
(* and somebody else may have decided it first (evaluate.ts, route.ts).    *)
AppsLearnAcceptedOnly ==
  \A p \in routed : status[p] \in {"accepted", "superseded"}

(* Where a merge may still take a value from a layer the customer          *)
(* confirmed: an update nulls a field or replaces a list, and an object    *)
(* that is to gain a key is given other values for the keys it has, or, by *)
(* an update, loses them.                                                  *)
Holes(p) ==
  {c \in Cells :
     \/ /\ draft[p].action # "add"
        /\ FieldOf[c] \in Nulls(p) \/ Extends(p, FieldOf[c])
     \/ /\ GainsKey(p, FieldOf[c])
        /\ draft[p].action = "add" => c \in draft[p].sets \ Lists}

(* Evaluation rests on a view of the layer.  Unless another write overtook *)
(* that view, an addition changes what it sets and an update the fields it *)
(* names, nothing else.  Of a layer the customer confirmed no value is     *)
(* lost ("User explicit data is SACRED", conflict.ts:126), except in the   *)
(* holes above, which its "existing user entries are preserved" denies.    *)
MergeRespectsLayer ==
  [][\A w \in Workers, c \in Cells :
       LET p == job[w].proposal
       IN /\ job[w].at = "write" /\ job'[w].at = "settle" /\ w \notin overtaken
          /\ layer'.data[c] # layer.data[c]
          => /\ FieldOf[c] \in draft[p].payload
             /\ draft[p].action = "add" => c \in draft[p].sets
             /\ layer.source = "user_explicit" =>
                  layer.data[c] \subseteq layer'.data[c] \/ c \in Holes(p)]_vars

(* What the customer entered stays when an AI proposal is merged: "A       *)
(* direct Cortex Identity edit is user_explicit - the highest authority"   *)
(* (submit-context-edit.ts) and "can never be overridden" (conflict.ts).   *)
UserDataSacred ==
  [][\A c \in Cells, u \in Proposals, w \in Workers :
       /\ job[w].at = "write" /\ job'[w].at = "settle" /\ w \notin overtaken
       /\ u \in layer.data[c] /\ draft[u].byUser
       /\ ~draft[job[w].proposal].byUser
       => u \in layer'.data[c]]_vars

(* The evaluation of a submitted proposal comes to a verdict, in spite of  *)
(* failed attempts and lost races for the layer's row.                     *)
SubmittedIsEvaluated ==
  \A p \in Proposals : status[p] = "submitted" ~> status[p] # "submitted"

(* The desk that keeps these promises, as this table shows it.             *)
Verdict(s) ==
  CASE s \in {"submitted", "escalated"} -> "open"
    [] s \in {"declined", "expired"} -> "closed"
    [] OTHER -> s
Desk == INSTANCE ProposalDesk WITH
          verdict <- [p \in Proposals |-> Verdict(status[p])],
          written <- merged

(* Accepted is merged, verdicts are final, and something accepted stays    *)
(* ("a failed merge never leaves an accepted proposal without merged       *)
(* context", resolve-proposal.ts).                                         *)
ImplementsDesk == Desk!Spec
==============================================================================

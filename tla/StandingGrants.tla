--------------------------- MODULE StandingGrants ---------------------------
(***************************************************************************)
(* What the rest of the system may rely on about the rows of               *)
(* kinetiks_authority_grants, whoever writes them: a status moves only     *)
(* along the lifecycle trigger of migration 00050, a grant ends as         *)
(* "expired" only once its expires_at has passed, and an expires_at that   *)
(* has passed stays so.  One statement may move several rows, as the       *)
(* UPDATE of expire-cron does.                                             *)
(*                                                                         *)
(* AgentRuntime runs in this environment; GrantLifecycle, with its         *)
(* requests, races, failures and sweeps, is shown to be one.               *)
(***************************************************************************)
CONSTANT Grants

VARIABLES
  status,   \* grant -> status; "proposed" until the customer decides
  lapsed    \* grants whose expires_at has passed

Statuses == {"proposed", "active", "paused", "revoked", "expired"}

Init ==
  /\ status \in [Grants -> {"proposed", "active"}]
  /\ lapsed = {}

LegalTransition ==
  {<<"proposed", "active">>, <<"proposed", "revoked">>,
   <<"active", "paused">>, <<"active", "revoked">>, <<"active", "expired">>,
   <<"paused", "active">>, <<"paused", "revoked">>, <<"paused", "expired">>}

Transition ==
  /\ status' \in [Grants -> Statuses]
  /\ \A g \in Grants :
       status'[g] # status[g] =>
         /\ <<status[g], status'[g]>> \in LegalTransition
         /\ status'[g] = "expired" => g \in lapsed
  /\ UNCHANGED lapsed

Lapse(g) ==
  /\ g \notin lapsed
  /\ lapsed' = lapsed \cup {g}
  /\ UNCHANGED status

Next == Transition \/ \E g \in Grants : Lapse(g)

Spec == Init /\ [][Next]_<<status, lapsed>>
=============================================================================

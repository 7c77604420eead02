----------------------------- MODULE MCRiskAlerts -----------------------------
(***************************************************************************)
(* RiskAlerts on one account: accounts share no rows.  The worlds raise    *)
(* and drop one condition of a position and one of the account, while the  *)
(* position climbs a milestone, falls back and is closed; the conditions   *)
(* of signals are raised and dropped in the same way.                      *)
(***************************************************************************)
EXTENDS RiskAlerts

Calm ==
  [status |-> "fresh", open |-> TRUE, marked |-> TRUE, near |-> FALSE,
   roi |-> 0, match |-> FALSE, opposite |-> FALSE]

MCWorlds ==
  { [Calm EXCEPT !.roi = 1],
    [Calm EXCEPT !.roi = 2, !.near = TRUE],
    [Calm EXCEPT !.open = FALSE, !.status = "stale"] }

=============================================================================

--------------------------- MODULE SignalLifecycle ---------------------------
(***************************************************************************)
(* What the signal state machine promises everything downstream of it (the *)
(* signals table, the delivery queue, the outcome evaluators): for each    *)
(* symbol and direction a signal is opened, promoted, closed and rearmed,  *)
(* one stage at a time, and two directions of one symbol are never active  *)
(* together.  No stage is entered twice before the signal is rearmed: the  *)
(* edges climb the order below until COOLDOWN, and that is what makes one  *)
(* delivery per (signal, user, stage) enough.                              *)
(***************************************************************************)
EXTENDS Naturals

CONSTANT Symbol

VARIABLE stage    \* [Symbol -> [Direction -> State]]

Direction == {"LONG", "SHORT"}

State == {"NORMAL", "CANDIDATE", "EARLY", "WATCH", "CONFIRMED",
          "INVALIDATED", "TOO_LATE", "COOLDOWN"}

Active == {"CANDIDATE", "EARLY", "WATCH", "CONFIRMED"}

Opposite(d) == IF d = "LONG" THEN "SHORT" ELSE "LONG"

\* The order in which one signal may visit its stages.
Rank == [x \in State |->
           CASE x = "NORMAL"      -> 0
             [] x = "CANDIDATE"   -> 1
             [] x = "EARLY"       -> 2
             [] x = "WATCH"       -> 3
             [] x = "CONFIRMED"   -> 4
             [] x = "INVALIDATED" -> 5
             [] x = "TOO_LATE"    -> 6
             [] x = "COOLDOWN"    -> 7]

\* Where a stage may go next, apart from being opened or rearmed.
Promotions(from) ==
  CASE from = "CANDIDATE" -> {"EARLY", "WATCH"}
    [] from = "EARLY"     -> {"WATCH"}
    [] from = "WATCH"     -> {"CONFIRMED"}
    [] OTHER              -> {}

Closings(from) ==
  CASE from = "EARLY"   -> {"INVALIDATED", "TOO_LATE"}
    [] from \in Active \ {"EARLY"} -> {"INVALIDATED", "TOO_LATE", "COOLDOWN"}
    [] OTHER            -> {}

Settlings(from) ==
  CASE from = "NORMAL"      -> {"TOO_LATE"}
    [] from = "INVALIDATED" -> {"TOO_LATE", "COOLDOWN"}
    [] from = "TOO_LATE"    -> {"COOLDOWN"}
    [] OTHER                -> {}

-----------------------------------------------------------------------------

TypeOK == stage \in [Symbol -> [Direction -> State]]

Init == stage = [s \in Symbol |-> [d \in Direction |-> "NORMAL"]]

Enter(s, d, to) == stage' = [stage EXCEPT ![s][d] = to]

\* A signal may only be opened while the other direction is not active.
Open(s, d) ==
  /\ stage[s][d] = "NORMAL"
  /\ stage[s][Opposite(d)] \notin Active
  /\ Enter(s, d, "CANDIDATE")

Promote(s, d) == \E to \in Promotions(stage[s][d]) : Enter(s, d, to)

Close(s, d) == \E to \in Closings(stage[s][d]) : Enter(s, d, to)

Settle(s, d) == \E to \in Settlings(stage[s][d]) : Enter(s, d, to)

Rearm(s, d) == stage[s][d] = "COOLDOWN" /\ Enter(s, d, "NORMAL")

Next ==
  \E s \in Symbol, d \in Direction :
    Open(s, d) \/ Promote(s, d) \/ Close(s, d) \/ Settle(s, d) \/ Rearm(s, d)

Spec == Init /\ [][Next]_stage

-----------------------------------------------------------------------------

\* Every stage ranks above the one before it until the signal is rearmed, so
\* no stage is entered twice in the life of one signal.
NoStageTwice ==
  [][\A s \in Symbol, d \in Direction :
       stage'[s][d] \in {stage[s][d], "NORMAL"}
         \/ Rank[stage'[s][d]] > Rank[stage[s][d]]]_stage

\* At most one direction of a symbol is active.
OneDirection ==
  \A s \in Symbol : ~(stage[s]["LONG"] \in Active /\ stage[s]["SHORT"] \in Active)

=============================================================================

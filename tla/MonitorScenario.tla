--------------------------- MODULE MonitorScenario ---------------------------
(***************************************************************************)
(* The scenarios of one user on one symbol (personal_monitor/service.py,   *)
(* evaluator.py): the handlers that create, activate and stop them, and    *)
(* the task that evaluates the active one at each closed candle.  All of   *)
(* them read a row in a transaction and write it at its end, and the ORM   *)
(* writes only the columns whose value differs from what was read.         *)
(***************************************************************************)
EXTENDS Integers, FiniteSets

CONSTANTS
  Scenario,     \* rows of monitored_scenarios there may be
  Handler,      \* Telegram callbacks that may run at once
  Plans,        \* the plans an analysis may select, a subset of Plan
  MaxCandle,    \* bound of the model: closed candles
  MaxCallback   \* bound of the model: activations and stops

ASSUME ScenarioAssumption == IsFiniteSet(Scenario) /\ IsFiniteSet(Handler)

ASSUME CandleAssumption == MaxCandle \in Nat /\ MaxCallback \in Nat

ScenarioStatus ==
  {"NONE", "SEARCHING", "SCENARIO_FOUND", "WAITING", "CONFIRMED", "INVALIDATED",
   "STOPPED"}

\* No plan, or the setup of the plan.
Setup == {"NONE", "BREAK_RETEST", "BREAKOUT", "BOUNCE"}

Candle == 0..MaxCandle

\* last: the candle evaluated last; broke, retested: latches of the setup.
Row ==
  [status: ScenarioStatus, active: BOOLEAN, setup: Setup, last: Candle,
   broke: BOOLEAN, retested: BOOLEAN]

\* What a plan says, and whether its breakout and retest have begun.
Plan == [setup: Setup, broke: BOOLEAN, retested: BOOLEAN]

ASSUME PlansAssumption == Plans \subseteq Plan

NoPlan == [setup |-> "NONE", broke |-> FALSE, retested |-> FALSE]

\* What a closed candle shows: a close beyond the invalidation, a close beyond
\* the trigger, a touch of the zone; and whether volume, pressure and open
\* interest confirm.
Facts == [beyond: BOOLEAN, closes: BOOLEAN, touches: BOOLEAN, confirms: BOOLEAN]

VARIABLES
  scenario,     \* [Scenario -> Row], status NONE while there is no row
  handler,      \* the locals of activate and stop
  job,          \* [1..2 -> ...]: _process_closed_candle; 2 is never needed
  candle,       \* the last candle closed
  evaluated,    \* history: the pairs of a scenario and a candle evaluated
  repeated,     \* history: some pair was evaluated again
  callbacks

past == <<evaluated, repeated>>
scenarioVars == <<scenario, handler, job, candle, past, callbacks>>

Blank ==
  [status |-> "NONE", active |-> FALSE, setup |-> "NONE", last |-> 0,
   broke |-> FALSE, retested |-> FALSE]

NoHandler ==
  [op |-> "idle", on |-> {}, goal |-> "NONE", same |-> FALSE, active |-> FALSE,
   swept |-> {}]

NoJob == [phase |-> "idle", candle |-> 0, plan |-> NoPlan, rows |-> <<>>]

ScenarioInit ==
  /\ scenario = [s \in Scenario |-> Blank]
  /\ handler = [h \in Handler |-> NoHandler]
  /\ job = [j \in 1..2 |-> NoJob]
  /\ candle = 0
  /\ evaluated = {} /\ repeated = FALSE
  /\ callbacks = 0

Active == {s \in Scenario : scenario[s].active}

\* A row an uncommitted transaction has updated is locked.
Locked(s) == \E h \in Handler : s \in handler[h].swept

-----------------------------------------------------------------------------
(* The handlers.                                                           *)

\* _new_record_from_values: never active.
NewRow(p) ==
  [Blank EXCEPT !.status = IF p = NoPlan THEN "SEARCHING" ELSE "SCENARIO_FOUND",
                !.setup = p.setup, !.broke = p.broke, !.retested = p.retested]

\* An analysis selects a plan or none.
Found == Plans \cup {NoPlan}

\* analyze_for_user, and recalculate, which calls it.
Analyze(s) ==
  /\ scenario[s] = Blank
  /\ \E p \in Found : scenario' = [scenario EXCEPT ![s] = NewRow(p)]
  /\ UNCHANGED <<handler, job, candle, past, callbacks>>

\* activate and stop begin: the row is read, and the status to give it chosen.
Take(h, op, s) ==
  LET r == scenario[s]
      goal == IF op = "stop" THEN "STOPPED"
              ELSE IF r.setup = "NONE" THEN "SEARCHING" ELSE "WAITING"
  IN /\ handler[h] = NoHandler /\ r.status # "NONE" /\ callbacks < MaxCallback
     /\ callbacks' = callbacks + 1
     /\ handler' = [handler EXCEPT ![h] =
          [op |-> op, on |-> {s}, goal |-> goal, same |-> r.status = goal,
           active |-> r.active, swept |-> {}]]
     /\ UNCHANGED <<scenario, job, candle, past>>

\* activate's update of every active row of the user, which waits for locks.
StopOthers(h) ==
  /\ handler[h].op = "activate"
  /\ \A s \in Active : ~Locked(s)
  /\ handler' = [handler EXCEPT ![h].op = "activating", ![h].swept = Active]
  /\ UNCHANGED <<scenario, job, candle, past, callbacks>>

\* Faulty: no unique index on the active scenario of a user.
NoIndex(h, s) == TRUE

\* uq_monitored_scenarios_active_user lets the row be the user's active one.
IndexAllows(h, s) == Active \ handler[h].swept \subseteq {s}

\* The commit of activate.  A row read active was brought up to date in memory
\* by the update, so both columns are written; one read inactive keeps a status
\* that seems not to change.
Activate(h, s) ==
  LET t == handler[h]
      stopped == [x \in Scenario |-> IF x \in t.swept
                    THEN [scenario[x] EXCEPT !.active = FALSE, !.status = "STOPPED"]
                    ELSE scenario[x]]
  IN /\ t.op = "activating" /\ t.on = {s}
     /\ \A g \in Handler \ {h} : s \notin handler[g].swept
     /\ handler' = [handler EXCEPT ![h] = NoHandler]
     /\ scenario' =
          IF ~IndexAllows(h, s) THEN scenario
          ELSE [stopped EXCEPT ![s].active = TRUE,
                  ![s].status = IF ~t.active /\ t.same THEN @ ELSE t.goal]
     /\ UNCHANGED <<job, candle, past, callbacks>>

\* The commit of stop.
Stop(h, s) ==
  LET t == handler[h]
  IN /\ t.op = "stop" /\ t.on = {s} /\ ~Locked(s)
     /\ handler' = [handler EXCEPT ![h] = NoHandler]
     /\ scenario' = [scenario EXCEPT
          ![s].status = IF t.same THEN @ ELSE t.goal,
          ![s].active = @ /\ ~t.active]
     /\ UNCHANGED <<job, candle, past, callbacks>>

-----------------------------------------------------------------------------
(* The candles.                                                            *)

\* Faulty: a task is started for every candle.
NeverBusy == FALSE

\* The task of the symbol is not done.
Busy == \E j \in DOMAIN job : job[j] # NoJob

\* _handle_event, for a closed candle.  The stream may repeat the latest one;
\* a candle that finds the task running, or no runtime, is dropped.
Arrive ==
  /\ \E n \in {candle, candle + 1} :
       /\ n \in 1..MaxCandle
       /\ candle' = n
       /\ \/ UNCHANGED job
          \/ /\ ~Busy
             /\ \E j \in DOMAIN job :
                  /\ job[j] = NoJob /\ \A i \in 1..(j - 1) : job[i] # NoJob
                  /\ job' = [job EXCEPT ![j] = [NoJob EXCEPT !.phase = "new",
                                                             !.candle = n]]
  /\ UNCHANGED <<scenario, handler, past, callbacks>>

\* _has_pending_candle.
Pending(n) == \E s \in Active : scenario[s].last # n

\* The analysis of both directions, then the transaction reads the active
\* scenarios of the symbol.  The look for a pending candle, which ends the task
\* before the analysis, is taken at the same moment: a candle dropped a little
\* earlier is one Arrive drops.
ReadActive(j) ==
  /\ job[j].phase = "new"
  /\ IF Pending(job[j].candle)
     THEN \E p \in Found : job' = [job EXCEPT ![j].phase = "read", ![j].plan = p,
                                      ![j].rows = [s \in Active |-> scenario[s]]]
     ELSE job' = [job EXCEPT ![j] = NoJob]
  /\ UNCHANGED <<scenario, handler, candle, past, callbacks>>

\* The analysis, a request or the commit fails: the task ends.
Abandon(j) ==
  /\ job[j] # NoJob
  /\ job' = [job EXCEPT ![j] = NoJob]
  /\ UNCHANGED <<scenario, handler, candle, past, callbacks>>

\* evaluate_scenario, of a row and what the candle shows: the row it leaves.
Broke(r, f) == r.broke \/ f.closes

Retested(r, f) == r.retested \/ (Broke(r, f) /\ f.touches)

PatternReady(r, f) ==
  f.closes /\ CASE r.setup = "BREAK_RETEST" -> Retested(r, f)
                [] r.setup = "BREAKOUT"     -> Broke(r, f)
                [] OTHER                    -> f.touches

Judged(r, f) ==
  IF f.beyond THEN [r EXCEPT !.status = "INVALIDATED", !.active = FALSE]
  ELSE LET seen == [r EXCEPT !.broke = Broke(r, f), !.retested = Retested(r, f)]
       IN IF PatternReady(r, f) /\ f.confirms
          THEN [seen EXCEPT !.status = "CONFIRMED", !.active = FALSE] ELSE seen

\* What the task makes of a row: a plan is offered, a setup judged.
Outcome(r, p, f) ==
  CASE r.status = "SEARCHING" /\ p # NoPlan ->
         [NewRow(p) EXCEPT !.last = r.last]
    [] r.status = "WAITING" -> Judged(r, f)
    [] OTHER -> r

\* Faulty: the whole row is written.
WholeRow(now, read, new) == new

\* Only the columns that differ from what was read are written.
Columns(now, read, new) ==
  [c \in DOMAIN now |-> IF new[c] = read[c] THEN now[c] ELSE new[c]]

\* The commit.  An invalidated scenario leaves a new row, inactive, behind it.
Evaluate(j, f) ==
  LET t == job[j]
      due == {s \in DOMAIN t.rows : t.rows[s].last # t.candle}
      after(s) == [Outcome(t.rows[s], t.plan, f) EXCEPT !.last = t.candle]
      written == [s \in Scenario |->
                    IF s \in due THEN Columns(scenario[s], t.rows[s], after(s))
                    ELSE scenario[s]]
      free == {s \in Scenario : scenario[s] = Blank}
  IN /\ t.phase = "read" /\ \A s \in due : ~Locked(s)
     /\ job' = [job EXCEPT ![j] = NoJob]
     /\ evaluated' = evaluated \cup (due \X {t.candle})
     /\ repeated' = (repeated \/ due \X {t.candle} \cap evaluated # {})
     /\ IF free # {} /\ \E s \in due : t.rows[s].status = "WAITING" /\ f.beyond
        THEN \E n \in free : scenario' = [written EXCEPT ![n] = NewRow(t.plan)]
        ELSE scenario' = written
     /\ UNCHANGED <<handler, candle, callbacks>>

ScenarioNext ==
  \/ \E s \in Scenario : Analyze(s)
  \/ \E h \in Handler, s \in Scenario :
       \/ \E op \in {"activate", "stop"} : Take(h, op, s)
       \/ Activate(h, s) \/ Stop(h, s)
  \/ \E h \in Handler : StopOthers(h)
  \/ Arrive
  \/ \E j \in DOMAIN job :
       \/ ReadActive(j) \/ Abandon(j)
       \/ \E f \in Facts : Evaluate(j, f)

ScenarioSpec == ScenarioInit /\ [][ScenarioNext]_scenarioVars

-----------------------------------------------------------------------------
(* Properties.                                                             *)

ScenarioTypeOK ==
  /\ scenario \in [Scenario -> Row]
  /\ \A h \in Handler :
       /\ handler[h].op \in {"idle", "activate", "activating", "stop"}
       /\ handler[h].on \subseteq Scenario /\ handler[h].swept \subseteq Scenario
       /\ handler[h].goal \in ScenarioStatus
       /\ handler[h].same \in BOOLEAN /\ handler[h].active \in BOOLEAN
  /\ \A j \in 1..2 :
       /\ job[j].phase \in {"idle", "new", "read"}
       /\ job[j].candle \in Candle /\ job[j].plan \in Found
       /\ DOMAIN job[j].rows \subseteq Scenario
       /\ \A s \in DOMAIN job[j].rows : job[j].rows[s] \in Row
  /\ candle \in Candle
  /\ evaluated \subseteq Scenario \X Candle /\ repeated \in BOOLEAN
  /\ callbacks \in 0..MaxCallback

\* A user watches one scenario at a time, whichever callbacks of theirs run at
\* once (models.py:218).
OneActive == Cardinality(Active) =< 1

\* No closed candle is evaluated twice for a scenario, though the stream may
\* repeat it and a task reads long before it writes (service.py:306, 348).
CandleOnce == ~repeated

\* Only its user makes a scenario active: an evaluation that began before it
\* was stopped does not bring it back (service.py:347).
NoRevival ==
  [][\A s \in Scenario :
       ~scenario[s].active /\ scenario'[s].active =>
         \E h \in Handler : handler[h].op = "activating" /\ handler[h].on = {s}
                              /\ handler'[h] = NoHandler]_scenarioVars

=============================================================================

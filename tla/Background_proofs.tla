--------------------------- MODULE Background_proofs ---------------------------
(***************************************************************************)
(* Proofs about the smaller components of MCBackground, for every value of *)
(* their constants.  Each component has an inductive invariant of its own, *)
(* which its own next-state relation preserves and which no step of the    *)
(* others can disturb; the theorems at the end put the parts together.     *)
(***************************************************************************)
EXTENDS MCBackground, FiniteSetTheorems, SequenceTheorems, WellFoundedInduction, TLAPS

-----------------------------------------------------------------------------
(* The scenarios.                                                          *)

\* What a task may have read.
Reads == UNION {[D -> Row] : D \in SUBSET Scenario}

JobRecord ==
  [phase: {"idle", "new", "read"}, candle: Candle, plan: Found, rows: Reads]

HandlerRecord ==
  [op: {"idle", "activate", "activating", "stop"}, on: SUBSET Scenario,
   goal: ScenarioStatus, same: BOOLEAN, active: BOOLEAN, swept: SUBSET Scenario]

ScenarioTypes ==
  /\ scenario \in [Scenario -> Row]
  /\ handler \in [Handler -> HandlerRecord]
  /\ job \in [1..2 -> JobRecord]
  /\ candle \in Candle
  /\ evaluated \subseteq Scenario \X Candle /\ repeated \in BOOLEAN
  /\ callbacks \in 0..MaxCallback

\* A row that somebody watches, or works on, has been made.
RowsExist ==
  /\ \A s \in Scenario : scenario[s].active => scenario[s].status # "NONE"
  /\ \A h \in Handler : handler[h].op # "idle" =>
       /\ handler[h].goal # "NONE"
       /\ \A s \in handler[h].on : scenario[s].status # "NONE"

\* One row at most is active.
Single == \A s, t \in Active : s = t

\* One task at most runs, on the latest candle its scenarios have seen, and what
\* it read of the last candle evaluated is still so.
JobsAgree ==
  /\ \A i, j \in 1..2 : job[i] # NoJob /\ job[j] # NoJob => i = j
  /\ \A s \in Scenario : scenario[s].last =< candle
  /\ \A j \in 1..2 : job[j].phase = "idle" => job[j] = NoJob
  /\ \A j \in 1..2 : job[j] # NoJob =>
       /\ job[j].candle =< candle
       /\ \A s \in Scenario : scenario[s].last =< job[j].candle
       /\ \A s \in DOMAIN job[j].rows :
            /\ job[j].rows[s].last = scenario[s].last
            /\ scenario[s].status # "NONE"

\* What was evaluated, the row of its scenario says.
Remembered ==
  /\ \A s \in Scenario, c \in Candle : <<s, c>> \in evaluated => c =< scenario[s].last
  /\ ~repeated

ScenarioInv == ScenarioTypes /\ RowsExist /\ Single /\ JobsAgree /\ Remembered

LEMMA RowsRead ==
  ASSUME NEW r \in Reads
  PROVE  /\ DOMAIN r \subseteq Scenario
         /\ \A s \in DOMAIN r : r[s] \in Row
BY DEF Reads

\* The rows a plan makes are rows, inactive, and exist.
LEMMA NewRows ==
  ASSUME NEW p \in Found
  PROVE  /\ NewRow(p) \in Row
         /\ ~NewRow(p).active /\ NewRow(p).status # "NONE" /\ NewRow(p).last = 0
<1>1. p \in Plan
  <2>1. NoPlan \in Plan
    BY DEF NoPlan, Plan, Setup
  <2> QED
    BY <2>1, PlansAssumption DEF Found
<1>2. 0 \in Candle
  BY CandleAssumption DEF Candle
<1> QED
  BY <1>1, <1>2 DEF NewRow, Blank, Row, ScenarioStatus, Plan

LEMMA Unmade ==
  /\ Blank \in Row /\ Blank.last = 0 /\ ~Blank.active /\ Blank.status = "NONE"
  /\ NoJob \in JobRecord /\ NoJob.phase = "idle" /\ NoJob.rows = <<>>
  /\ NoHandler \in HandlerRecord /\ NoHandler.op = "idle"
<1>1. 0 \in Candle
  BY CandleAssumption DEF Candle
<1>2. <<>> \in Reads
  <2>1. <<>> \in [{} -> Row]
    OBVIOUS
  <2> QED
    BY <2>1 DEF Reads
<1>3. NoPlan \in Found
  BY DEF Found
<1> QED
  BY <1>1, <1>2, <1>3
  DEF Blank, Row, ScenarioStatus, Setup, NoJob, JobRecord, NoHandler, HandlerRecord

LEMMA ScenarioInitHolds == ScenarioInit => ScenarioInv
<1> SUFFICES ASSUME ScenarioInit PROVE ScenarioInv
  OBVIOUS
<1>1. 0 \in Candle
  BY CandleAssumption DEF Candle
<1>2. ScenarioTypes
  <2>1. scenario \in [Scenario -> Row] /\ handler \in [Handler -> HandlerRecord]
    BY Unmade DEF ScenarioInit
  <2>2. job \in [1..2 -> JobRecord]
    BY Unmade DEF ScenarioInit
  <2>3. 0 \in 0..MaxCallback
    BY CandleAssumption
  <2> QED
    BY <1>1, <2>1, <2>2, <2>3 DEF ScenarioInit, ScenarioTypes
<1>3. RowsExist /\ Single
  BY Unmade DEF ScenarioInit, RowsExist, Single, Active
<1>4. JobsAgree
  BY Unmade DEF ScenarioInit, JobsAgree
<1>5. Remembered
  BY DEF ScenarioInit, Remembered
<1> QED
  BY <1>2, <1>3, <1>4, <1>5 DEF ScenarioInv

\* What the evaluation makes of a row is a row, active only if it was.
LEMMA Judgement ==
  ASSUME NEW r \in Row, NEW p \in Found, NEW f \in Facts
  PROVE  /\ Outcome(r, p, f) \in Row
         /\ Outcome(r, p, f).last = r.last
         /\ Outcome(r, p, f).active => r.active
         /\ Outcome(r, p, f).status = "NONE" => r.status = "NONE"
<1>1. CASE r.status = "SEARCHING" /\ p # NoPlan
  <2>1. Outcome(r, p, f) = [NewRow(p) EXCEPT !.last = r.last]
    BY <1>1 DEF Outcome
  <2> QED
    BY <2>1, NewRows DEF Row
<1>2. CASE r.status = "WAITING"
  <2>1. Outcome(r, p, f) = Judged(r, f)
    BY <1>2 DEF Outcome
  <2>2. Broke(r, f) \in BOOLEAN /\ Retested(r, f) \in BOOLEAN
    BY DEF Broke, Retested, Row, Facts
  <2>3. CASE f.beyond
    BY <2>1, <2>3 DEF Judged, Row, ScenarioStatus
  <2>4. CASE ~f.beyond
    <3> DEFINE seen == [r EXCEPT !.broke = Broke(r, f), !.retested = Retested(r, f)]
    <3>1. /\ seen \in Row /\ seen.last = r.last /\ seen.active = r.active
          /\ seen.status = r.status
      BY <2>2 DEF Row
    <3>2. Judged(r, f) \in {seen, [seen EXCEPT !.status = "CONFIRMED", !.active = FALSE]}
      BY <2>4 DEF Judged
    <3> HIDE DEF seen
    <3> QED
      BY <2>1, <3>1, <3>2 DEF Row, ScenarioStatus
  <2> QED
    BY <2>3, <2>4
<1>3. CASE ~(r.status = "SEARCHING" /\ p # NoPlan) /\ r.status # "WAITING"
  BY <1>3 DEF Outcome
<1> QED
  BY <1>1, <1>2, <1>3

\* A transaction writes what it changed.
LEMMA Writes ==
  ASSUME NEW now \in Row, NEW read \in Row, NEW new \in Row
  PROVE  LET w == Columns(now, read, new)
         IN /\ w \in Row
            /\ w.active = IF new.active = read.active THEN now.active ELSE new.active
            /\ w.status = IF new.status = read.status THEN now.status ELSE new.status
            /\ w.last = IF new.last = read.last THEN now.last ELSE new.last
<1> DEFINE w == Columns(now, read, new)
<1>1. DOMAIN now = {"status", "active", "setup", "last", "broke", "retested"}
  BY DEF Row
<1>2. w = [c \in {"status", "active", "setup", "last", "broke", "retested"} |->
             IF new[c] = read[c] THEN now[c] ELSE new[c]]
  BY <1>1 DEF Columns
<1>3. w = [status |-> w.status, active |-> w.active, setup |-> w.setup,
           last |-> w.last, broke |-> w.broke, retested |-> w.retested]
  BY <1>2
<1>4. /\ w.active = IF new.active = read.active THEN now.active ELSE new.active
      /\ w.status = IF new.status = read.status THEN now.status ELSE new.status
      /\ w.last = IF new.last = read.last THEN now.last ELSE new.last
      /\ w.setup = IF new.setup = read.setup THEN now.setup ELSE new.setup
      /\ w.broke = IF new.broke = read.broke THEN now.broke ELSE new.broke
      /\ w.retested = IF new.retested = read.retested THEN now.retested ELSE new.retested
  BY <1>2
<1> HIDE DEF w
<1>5. /\ w.active \in BOOLEAN /\ w.status \in ScenarioStatus /\ w.last \in Candle
      /\ w.setup \in Setup /\ w.broke \in BOOLEAN /\ w.retested \in BOOLEAN
  BY <1>4 DEF Row
<1>6. w \in Row
  BY <1>3, <1>5 DEF Row
<1> QED
  BY <1>4, <1>6 DEF w

\* The handlers leave the tasks and what they have done alone, and change neither
\* the last candle of a row nor, once it has one, that a row has a status.
LEMMA HandlersKeep ==
  ASSUME ScenarioInv,
         UNCHANGED <<job, candle, past>>,
         scenario' \in [Scenario -> Row],
         \A s \in Scenario : /\ scenario'[s].last = scenario[s].last
                             /\ scenario'[s].status = "NONE" => scenario[s].status = "NONE"
  PROVE  JobsAgree' /\ Remembered'
<1>1. Remembered'
  BY DEF ScenarioInv, Remembered, past
<1>2. \A j \in 1..2 : DOMAIN job[j].rows \subseteq Scenario
  BY RowsRead DEF ScenarioInv, ScenarioTypes, JobRecord
<1>3. JobsAgree'
  BY <1>2 DEF ScenarioInv, JobsAgree
<1> QED
  BY <1>1, <1>3

LEMMA AnalyzeKeeps ==
  ASSUME ScenarioInv, NEW s \in Scenario, Analyze(s)
  PROVE  ScenarioInv' /\ \A x \in Scenario : scenario'[x].active => scenario[x].active
<1> USE DEF ScenarioInv
<1>1. PICK p \in Found : scenario' = [scenario EXCEPT ![s] = NewRow(p)]
  BY DEF Analyze
<1>2. /\ scenario[s] = Blank
      /\ UNCHANGED <<handler, job, candle, evaluated, repeated, callbacks>>
  BY DEF Analyze, past
<1>3. \A x \in Scenario :
        /\ scenario'[x] \in Row
        /\ scenario'[x].active => scenario[x].active
        /\ scenario'[x].last = scenario[x].last
        /\ scenario'[x].status = "NONE" => scenario[x].status = "NONE"
        /\ x # s => scenario'[x] = scenario[x]
  BY <1>1, <1>2, NewRows, Unmade DEF ScenarioTypes
<1>4. ScenarioTypes'
  BY <1>1, <1>2, <1>3 DEF ScenarioTypes
<1>5. RowsExist'
  BY <1>1, <1>2, <1>3 DEF RowsExist, ScenarioTypes, HandlerRecord
<1>6. Single'
  BY <1>3 DEF Single, Active
<1>7. JobsAgree' /\ Remembered'
  BY <1>2, <1>3, <1>4, HandlersKeep DEF past, ScenarioTypes
<1> QED
  BY <1>3, <1>4, <1>5, <1>6, <1>7

LEMMA TakeKeeps ==
  ASSUME ScenarioInv, NEW h \in Handler, NEW op \in {"activate", "stop"},
         NEW s \in Scenario, Take(h, op, s)
  PROVE  ScenarioInv' /\ UNCHANGED scenario
<1> USE DEF ScenarioInv
<1> DEFINE goal == IF op = "stop" THEN "STOPPED"
                   ELSE IF scenario[s].setup = "NONE" THEN "SEARCHING" ELSE "WAITING"
<1>1. /\ goal \in ScenarioStatus /\ goal # "NONE"
      /\ handler' = [handler EXCEPT ![h] =
           [op |-> op, on |-> {s}, goal |-> goal, same |-> scenario[s].status = goal,
            active |-> scenario[s].active, swept |-> {}]]
  BY DEF Take, ScenarioStatus
<1> HIDE DEF goal
<1>2. /\ scenario[s].status # "NONE" /\ callbacks < MaxCallback
      /\ callbacks' = callbacks + 1
      /\ UNCHANGED <<scenario, job, candle, evaluated, repeated>>
  BY DEF Take, past
<1>3. ScenarioTypes'
  <2>1. callbacks' \in 0..MaxCallback
    BY <1>2, CandleAssumption DEF ScenarioTypes
  <2>2. scenario[s].active \in BOOLEAN
    BY DEF ScenarioTypes, Row
  <2>3. handler' \in [Handler -> HandlerRecord]
    BY <1>1, <2>2 DEF ScenarioTypes, HandlerRecord
  <2> QED
    BY <1>2, <2>1, <2>3 DEF ScenarioTypes
<1>4. RowsExist'
  BY <1>1, <1>2 DEF RowsExist, ScenarioTypes
<1>5. Single'
  BY <1>2 DEF Single, Active
<1>6. JobsAgree' /\ Remembered'
  BY <1>2 DEF JobsAgree, Remembered
<1> QED
  BY <1>2, <1>3, <1>4, <1>5, <1>6

LEMMA StopOthersKeeps ==
  ASSUME ScenarioInv, NEW h \in Handler, StopOthers(h)
  PROVE  ScenarioInv' /\ UNCHANGED scenario
<1> USE DEF ScenarioInv
<1>1. /\ handler[h].op = "activate"
      /\ handler' = [handler EXCEPT ![h].op = "activating", ![h].swept = Active]
      /\ UNCHANGED <<scenario, job, candle, evaluated, repeated, callbacks>>
  BY DEF StopOthers, past
<1>2. ScenarioTypes'
  <2>1. Active \subseteq Scenario
    BY DEF Active
  <2>2. [handler[h] EXCEPT !.op = "activating", !.swept = Active] \in HandlerRecord
    BY <2>1 DEF ScenarioTypes, HandlerRecord
  <2>3. handler' = [handler EXCEPT ![h] =
                      [handler[h] EXCEPT !.op = "activating", !.swept = Active]]
    BY <1>1 DEF ScenarioTypes
  <2>4. handler' \in [Handler -> HandlerRecord]
    BY <2>2, <2>3 DEF ScenarioTypes
  <2> QED
    BY <1>1, <2>4 DEF ScenarioTypes
<1>3. RowsExist'
  BY <1>1 DEF RowsExist, ScenarioTypes, HandlerRecord
<1>4. Single' /\ JobsAgree' /\ Remembered'
  BY <1>1 DEF Single, Active, JobsAgree, Remembered
<1> QED
  BY <1>1, <1>2, <1>3, <1>4

LEMMA ActivateKeeps ==
  ASSUME ScenarioInv, NEW h \in Handler, NEW s \in Scenario, Activate(h, s)
  PROVE  /\ ScenarioInv'
         /\ \A x \in Scenario : ~scenario[x].active /\ scenario'[x].active =>
              /\ handler[h].op = "activating" /\ handler[h].on = {x}
              /\ handler'[h] = NoHandler
<1> USE DEF ScenarioInv
<1> DEFINE t == handler[h]
           stopped == [x \in Scenario |-> IF x \in t.swept
                         THEN [scenario[x] EXCEPT !.active = FALSE, !.status = "STOPPED"]
                         ELSE scenario[x]]
<1>1. /\ t.op = "activating" /\ t.on = {s}
      /\ handler' = [handler EXCEPT ![h] = NoHandler]
      /\ scenario' =
           IF ~IndexAllows(h, s) THEN scenario
           ELSE [stopped EXCEPT ![s].active = TRUE,
                   ![s].status = IF ~t.active /\ t.same THEN @ ELSE t.goal]
      /\ UNCHANGED <<job, candle, evaluated, repeated, callbacks>>
  BY DEF Activate, past
<1>2. t \in HandlerRecord /\ t.goal # "NONE" /\ scenario[s].status # "NONE"
  BY <1>1 DEF ScenarioTypes, RowsExist
<1>3. \A x \in Scenario :
        /\ stopped[x] \in Row
        /\ stopped[x].last = scenario[x].last
        /\ stopped[x].active => scenario[x].active
        /\ stopped[x].active => x \notin t.swept
        /\ stopped[x].status = "NONE" => scenario[x].status = "NONE"
  BY DEF ScenarioTypes, Row, ScenarioStatus
<1>4. stopped \in [Scenario -> Row]
  BY <1>3
<1> HIDE DEF stopped
<1>5. \A x \in Scenario :
        /\ scenario'[x] \in Row
        /\ scenario'[x].last = scenario[x].last
        /\ scenario'[x].status = "NONE" => scenario[x].status = "NONE"
        /\ ~scenario[x].active /\ scenario'[x].active => x = s
        /\ scenario'[x].active => scenario'[x].status # "NONE"
  <2>1. CASE ~IndexAllows(h, s)
    BY <1>1, <2>1 DEF ScenarioTypes, RowsExist
  <2>2. CASE IndexAllows(h, s)
    <3> SUFFICES ASSUME NEW x \in Scenario
                 PROVE  /\ scenario'[x] \in Row
                        /\ scenario'[x].last = scenario[x].last
                        /\ scenario'[x].status = "NONE" => scenario[x].status = "NONE"
                        /\ ~scenario[x].active /\ scenario'[x].active => x = s
                        /\ scenario'[x].active => scenario'[x].status # "NONE"
      OBVIOUS
    <3>1. CASE x # s
      <4>1. scenario'[x] = stopped[x]
        BY <1>1, <1>4, <2>2, <3>1
      <4> QED
        BY <4>1, <1>3, <3>1 DEF RowsExist
    <3>2. CASE x = s
      <4>1. PICK st \in {stopped[s].status, t.goal} :
              scenario'[s] = [stopped[s] EXCEPT !.active = TRUE, !.status = st]
        BY <1>1, <1>4, <2>2
      <4>2. st \in ScenarioStatus /\ st # "NONE"
        BY <4>1, <1>2, <1>3 DEF HandlerRecord, Row
      <4> QED
        BY <4>1, <4>2, <1>2, <1>3, <3>2 DEF Row
    <3> QED
      BY <3>1, <3>2
  <2> QED
    BY <2>1, <2>2
<1>6. scenario' \in [Scenario -> Row]
  <2>1. DOMAIN scenario' = Scenario /\ scenario' = [x \in Scenario |-> scenario'[x]]
    BY <1>1, <1>4 DEF ScenarioTypes
  <2> QED
    BY <1>5, <2>1
<1>7. ScenarioTypes'
  BY <1>1, <1>6, Unmade DEF ScenarioTypes
<1>8. RowsExist'
  <2>1. handler'[h].op = "idle" /\ \A g \in Handler \ {h} : handler'[g] = handler[g]
    BY <1>1, Unmade DEF ScenarioTypes
  <2>2. \A g \in Handler : handler[g].on \subseteq Scenario
    BY DEF ScenarioTypes, HandlerRecord
  <2>3. \A g \in Handler : handler'[g].op # "idle" =>
          /\ handler'[g].goal # "NONE"
          /\ \A x \in handler'[g].on : scenario'[x].status # "NONE"
    BY <1>5, <2>1, <2>2 DEF RowsExist
  <2> QED
    BY <1>5, <2>3 DEF RowsExist
<1>9. Single'
  <2>1. CASE ~IndexAllows(h, s)
    BY <1>1, <2>1 DEF Single, Active
  <2>2. CASE IndexAllows(h, s)
    <3>1. \A x \in Scenario : scenario'[x].active => x = s
      <4> SUFFICES ASSUME NEW x \in Scenario, scenario'[x].active, x # s
                   PROVE  FALSE
        OBVIOUS
      <4>1. scenario'[x] = stopped[x]
        BY <1>1, <1>4, <2>2
      <4>2. x \in Active \ t.swept
        BY <4>1, <1>3 DEF Active
      <4> QED
        BY <4>2, <2>2 DEF IndexAllows
    <3> QED
      BY <3>1 DEF Single, Active
  <2> QED
    BY <2>1, <2>2
<1>10. JobsAgree' /\ Remembered'
  BY <1>1, <1>5, <1>6, HandlersKeep DEF past
<1>11. handler'[h] = NoHandler
  BY <1>1 DEF ScenarioTypes
<1> QED
  BY <1>1, <1>5, <1>7, <1>8, <1>9, <1>10, <1>11

LEMMA StopKeeps ==
  ASSUME ScenarioInv, NEW h \in Handler, NEW s \in Scenario, Stop(h, s)
  PROVE  ScenarioInv' /\ \A x \in Scenario : scenario'[x].active => scenario[x].active
<1> USE DEF ScenarioInv
<1> DEFINE t == handler[h]
<1>1. /\ t.op = "stop" /\ t.on = {s}
      /\ handler' = [handler EXCEPT ![h] = NoHandler]
      /\ UNCHANGED <<job, candle, evaluated, repeated, callbacks>>
  BY DEF Stop, past
<1>2. t \in HandlerRecord /\ t.goal # "NONE" /\ scenario[s].status # "NONE"
  BY <1>1 DEF ScenarioTypes, RowsExist
<1>3. PICK st \in {scenario[s].status, t.goal} :
        scenario' = [scenario EXCEPT ![s] =
          [scenario[s] EXCEPT !.status = st,
                              !.active = scenario[s].active /\ ~t.active]]
  BY DEF Stop, ScenarioTypes
<1>4. st \in ScenarioStatus /\ st # "NONE"
  BY <1>2, <1>3 DEF HandlerRecord, Row, ScenarioTypes
<1>5. \A x \in Scenario :
        /\ scenario'[x] \in Row
        /\ scenario'[x].active => scenario[x].active
        /\ scenario'[x].last = scenario[x].last
        /\ scenario'[x].status = "NONE" => scenario[x].status = "NONE"
        /\ scenario'[x].active => scenario'[x].status # "NONE"
  <2>1. scenario[s] \in Row /\ (scenario[s].active /\ ~t.active) \in BOOLEAN
    BY DEF ScenarioTypes
  <2>2. scenario'[s] = [scenario[s] EXCEPT !.status = st,
                                           !.active = scenario[s].active /\ ~t.active]
    BY <1>3 DEF ScenarioTypes
  <2>3. /\ scenario'[s] \in Row /\ scenario'[s].last = scenario[s].last
        /\ scenario'[s].status = st
        /\ scenario'[s].active = (scenario[s].active /\ ~t.active)
    BY <1>4, <2>1, <2>2 DEF Row
  <2>4. \A x \in Scenario \ {s} : scenario'[x] = scenario[x]
    BY <1>3 DEF ScenarioTypes
  <2> QED
    BY <1>4, <2>3, <2>4 DEF ScenarioTypes, RowsExist
<1>6. scenario' \in [Scenario -> Row]
  <2>1. scenario' = [x \in Scenario |-> scenario'[x]]
    BY <1>3 DEF ScenarioTypes
  <2> QED
    BY <1>5, <2>1
<1>7. ScenarioTypes'
  BY <1>1, <1>6, Unmade DEF ScenarioTypes
<1>8. RowsExist'
  <2>1. handler'[h].op = "idle" /\ \A g \in Handler \ {h} : handler'[g] = handler[g]
    BY <1>1, Unmade DEF ScenarioTypes
  <2>2. \A g \in Handler : handler[g].on \subseteq Scenario
    BY DEF ScenarioTypes, HandlerRecord
  <2>3. \A g \in Handler : handler'[g].op # "idle" =>
          /\ handler'[g].goal # "NONE"
          /\ \A x \in handler'[g].on : scenario'[x].status # "NONE"
    BY <1>5, <2>1, <2>2 DEF RowsExist
  <2> QED
    BY <1>5, <2>3 DEF RowsExist
<1>9. Single'
  BY <1>5 DEF Single, Active
<1>10. JobsAgree' /\ Remembered'
  BY <1>1, <1>5, <1>6, HandlersKeep DEF past
<1> QED
  BY <1>5, <1>7, <1>8, <1>9, <1>10

LEMMA ArriveKeeps ==
  ASSUME ScenarioInv, Arrive
  PROVE  ScenarioInv' /\ UNCHANGED scenario
<1> USE DEF ScenarioInv
<1>1. UNCHANGED <<scenario, handler, evaluated, repeated, callbacks>>
  BY DEF Arrive, past
<1>2. PICK n \in {candle, candle + 1} :
        /\ n \in 1..MaxCandle
        /\ candle' = n
        /\ \/ UNCHANGED job
           \/ /\ ~Busy
              /\ \E j \in DOMAIN job :
                   job' = [job EXCEPT ![j] = [NoJob EXCEPT !.phase = "new",
                                                           !.candle = n]]
  BY DEF Arrive
<1>3. candle \in Nat /\ candle =< n /\ n \in Candle /\ DOMAIN job = 1..2
  BY <1>2, CandleAssumption DEF ScenarioTypes, Candle
<1>4. \A s \in Scenario : scenario[s].last \in Nat
  BY DEF ScenarioTypes, Row, Candle
<1>5. \A s \in Scenario : scenario[s].last =< n
  BY <1>3, <1>4 DEF JobsAgree
<1>6. RowsExist' /\ Single' /\ Remembered'
  BY <1>1 DEF RowsExist, Single, Active, Remembered
<1>7. CASE UNCHANGED job
  <2>1. \A j \in 1..2 : job[j].candle \in Nat
    BY CandleAssumption DEF ScenarioTypes, JobRecord, Candle
  <2>2. JobsAgree'
    BY <1>1, <1>2, <1>3, <1>5, <1>7, <2>1 DEF JobsAgree
  <2> QED
    BY <1>1, <1>2, <1>3, <1>6, <1>7, <2>2 DEF ScenarioTypes
<1>8. CASE job' # job
  <2> DEFINE new == [NoJob EXCEPT !.phase = "new", !.candle = n]
  <2>1. PICK j \in 1..2 : job' = [job EXCEPT ![j] = new]
    BY <1>2, <1>3, <1>8
  <2>2. \A i \in 1..2 : job[i] = NoJob
    BY <1>2, <1>3, <1>8 DEF Busy
  <2>3. new \in JobRecord /\ new.phase = "new" /\ new.candle = n /\ new.rows = <<>>
    BY <1>3, Unmade DEF NoJob, JobRecord
  <2>4. job' \in [1..2 -> JobRecord]
    BY <2>1, <2>3 DEF ScenarioTypes
  <2>5. job'[j] = new /\ \A i \in 1..2 \ {j} : job'[i] = NoJob
    BY <2>1, <2>2 DEF ScenarioTypes
  <2> HIDE DEF new
  <2>6. JobsAgree'
    <3>1. \A i \in 1..2 : job'[i] # NoJob => i = j
      BY <2>5
    <3>2. \A i \in 1..2 : job'[i].phase = "idle" => job'[i] = NoJob
      BY <2>3, <2>5
    <3>3. DOMAIN new.rows = {}
      BY <2>3
    <3>4. \A i \in 1..2 : job'[i] # NoJob =>
            /\ job'[i].candle =< candle'
            /\ \A s \in Scenario : scenario'[s].last =< job'[i].candle
            /\ DOMAIN job'[i].rows = {}
      BY <1>1, <1>2, <1>3, <1>5, <2>3, <2>5, <3>1, <3>3
    <3> QED
      BY <1>1, <1>2, <1>5, <3>1, <3>2, <3>4 DEF JobsAgree
  <2> QED
    BY <1>1, <1>2, <1>3, <1>6, <2>4, <2>6 DEF ScenarioTypes
<1> QED
  BY <1>1, <1>7, <1>8

\* A task that ends, at any time, leaves all rows as they are.
LEMMA JobEnds ==
  ASSUME ScenarioInv, NEW j \in 1..2, job' = [job EXCEPT ![j] = NoJob],
         UNCHANGED <<scenario, handler, candle, past, callbacks>>
  PROVE  ScenarioInv' /\ UNCHANGED scenario
<1> USE DEF ScenarioInv
<1>1. job'[j] = NoJob /\ \A i \in 1..2 \ {j} : job'[i] = job[i]
  BY DEF ScenarioTypes
<1>2. job' \in [1..2 -> JobRecord]
  BY Unmade DEF ScenarioTypes
<1>3. JobsAgree'
  BY <1>1 DEF JobsAgree
<1> QED
  BY <1>2, <1>3 DEF ScenarioTypes, RowsExist, Single, Active, Remembered, past

LEMMA ReadActiveKeeps ==
  ASSUME ScenarioInv, NEW j \in 1..2, ReadActive(j)
  PROVE  ScenarioInv' /\ UNCHANGED scenario
<1> USE DEF ScenarioInv
<1>1. /\ job[j].phase = "new"
      /\ UNCHANGED <<scenario, handler, candle, past, callbacks>>
  BY DEF ReadActive
<1>2. CASE ~Pending(job[j].candle)
  BY <1>1, <1>2, JobEnds DEF ReadActive
<1>3. CASE Pending(job[j].candle)
  <2> DEFINE rows == [s \in Active |-> scenario[s]]
  <2>1. PICK p \in Found :
          job' = [job EXCEPT ![j] = [job[j] EXCEPT !.phase = "read", !.plan = p,
                                                   !.rows = rows]]
    BY <1>3 DEF ReadActive, ScenarioTypes
  <2>2. rows \in Reads
    <3>1. Active \subseteq Scenario /\ rows \in [Active -> Row]
      BY DEF Active, ScenarioTypes
    <3> QED
      BY <3>1 DEF Reads
  <2>3. DOMAIN rows = Active /\ \A s \in Active : rows[s] = scenario[s]
    OBVIOUS
  <2> HIDE DEF rows
  <2> DEFINE new == [job[j] EXCEPT !.phase = "read", !.plan = p, !.rows = rows]
  <2>4. /\ new \in JobRecord /\ new.phase = "read" /\ new.rows = rows
        /\ new.candle = job[j].candle
    BY <2>1, <2>2 DEF ScenarioTypes, JobRecord
  <2>5. job'[j] = new /\ \A i \in 1..2 \ {j} : job'[i] = job[i]
    BY <2>1 DEF ScenarioTypes
  <2>6. job' \in [1..2 -> JobRecord]
    BY <2>1, <2>4 DEF ScenarioTypes
  <2> HIDE DEF new
  <2>7. job[j] # NoJob
    BY <1>1, Unmade
  <2>8. \A s \in Active : s \in Scenario /\ scenario[s].status # "NONE"
    BY DEF Active, RowsExist
  <2>9. JobsAgree'
    <3>1. \A i, k \in 1..2 : job'[i] # NoJob /\ job'[k] # NoJob => i = k
      BY <2>5, <2>7 DEF JobsAgree
    <3>2. \A i \in 1..2 : job'[i].phase = "idle" => job'[i] = NoJob
      BY <2>4, <2>5 DEF JobsAgree
    <3>3. /\ job'[j].candle =< candle'
          /\ \A s \in Scenario : scenario'[s].last =< job'[j].candle
          /\ \A s \in DOMAIN job'[j].rows :
               /\ job'[j].rows[s].last = scenario'[s].last
               /\ scenario'[s].status # "NONE"
      BY <1>1, <2>3, <2>4, <2>5, <2>7, <2>8 DEF JobsAgree
    <3>4. \A i \in 1..2 : job'[i] # NoJob =>
            /\ job'[i].candle =< candle'
            /\ \A s \in Scenario : scenario'[s].last =< job'[i].candle
            /\ \A s \in DOMAIN job'[i].rows :
                 /\ job'[i].rows[s].last = scenario'[s].last
                 /\ scenario'[s].status # "NONE"
      BY <1>1, <2>5, <3>3 DEF JobsAgree
    <3>5. \A s \in Scenario : scenario'[s].last =< candle'
      BY <1>1 DEF JobsAgree
    <3> QED
      BY <3>1, <3>2, <3>4, <3>5 DEF JobsAgree
  <2>10. RowsExist' /\ Single' /\ Remembered'
    BY <1>1 DEF RowsExist, Single, Active, Remembered, past
  <2> QED
    BY <1>1, <2>6, <2>9, <2>10 DEF ScenarioTypes, past
<1> QED
  BY <1>2, <1>3

\* The commit of an evaluation: no row becomes active, every row that was due
\* now remembers the candle, and the others keep theirs.
LEMMA EvaluateWrites ==
  ASSUME ScenarioInv, NEW j \in 1..2, NEW f \in Facts, Evaluate(j, f)
  PROVE  LET t == job[j]
             due == {s \in DOMAIN t.rows : t.rows[s].last # t.candle}
         IN /\ scenario' \in [Scenario -> Row]
            /\ \A s \in Scenario :
                 /\ scenario'[s].active => scenario[s].active
                 /\ scenario'[s].status = "NONE" => scenario[s].status = "NONE"
                 /\ scenario'[s].last = IF s \in due THEN t.candle ELSE scenario[s].last
<1> USE DEF ScenarioInv
<1> DEFINE t == job[j]
           due == {s \in DOMAIN t.rows : t.rows[s].last # t.candle}
           after(s) == [Outcome(t.rows[s], t.plan, f) EXCEPT !.last = t.candle]
           written == [s \in Scenario |->
                         IF s \in due THEN Columns(scenario[s], t.rows[s], after(s))
                         ELSE scenario[s]]
<1>1. /\ t.phase = "read"
      /\ \/ scenario' = written
         \/ \E n \in Scenario : /\ scenario[n] = Blank
                                /\ scenario' = [written EXCEPT ![n] = NewRow(t.plan)]
  BY DEF Evaluate
<1>2. t \in JobRecord /\ t.rows \in Reads /\ t.plan \in Found /\ t.candle \in Candle
  BY DEF ScenarioTypes, JobRecord
<1>3. t # NoJob
  BY <1>1, Unmade
<1>4. \A s \in due :
        /\ s \in Scenario /\ t.rows[s] \in Row /\ t.rows[s].last # t.candle
        /\ scenario[s].status # "NONE"
  BY <1>2, <1>3, RowsRead DEF JobsAgree
<1>5. \A s \in due :
        /\ after(s) \in Row /\ after(s).last = t.candle
        /\ after(s).active => t.rows[s].active
        /\ after(s).status = "NONE" => t.rows[s].status = "NONE"
  BY <1>2, <1>4, Judgement DEF Row
<1> HIDE DEF after
<1>6. \A s \in Scenario :
        /\ written[s] \in Row
        /\ written[s].active => scenario[s].active
        /\ written[s].status = "NONE" => scenario[s].status = "NONE"
        /\ written[s].last = IF s \in due THEN t.candle ELSE scenario[s].last
  <2> SUFFICES ASSUME NEW s \in Scenario
               PROVE  /\ written[s] \in Row
                      /\ written[s].active => scenario[s].active
                      /\ written[s].status = "NONE" => scenario[s].status = "NONE"
                      /\ written[s].last = IF s \in due THEN t.candle
                                           ELSE scenario[s].last
    OBVIOUS
  <2>0. scenario[s] \in Row
    BY DEF ScenarioTypes
  <2>1. CASE s \in due
    <3>1. written[s] = Columns(scenario[s], t.rows[s], after(s))
      BY <2>1
    <3>2. /\ t.rows[s] \in Row /\ t.rows[s].last # t.candle
          /\ after(s) \in Row /\ after(s).last = t.candle
          /\ after(s).active => t.rows[s].active
          /\ after(s).status = "NONE" => t.rows[s].status = "NONE"
      BY <1>4, <1>5, <2>1
    <3> DEFINE w == Columns(scenario[s], t.rows[s], after(s))
    <3>3. /\ w \in Row
          /\ w.active = IF after(s).active = t.rows[s].active THEN scenario[s].active
                        ELSE after(s).active
          /\ w.status = IF after(s).status = t.rows[s].status THEN scenario[s].status
                        ELSE after(s).status
          /\ w.last = IF after(s).last = t.rows[s].last THEN scenario[s].last
                      ELSE after(s).last
      BY <2>0, <3>2, Writes
    <3> HIDE DEF w, due, written
    <3>4. w.active => scenario[s].active
      <4>1. /\ after(s).active \in BOOLEAN /\ t.rows[s].active \in BOOLEAN
        BY <3>2 DEF Row
      <4> QED
        BY <3>2, <3>3, <4>1
    <3>5. w.status = "NONE" => scenario[s].status = "NONE"
      BY <3>2, <3>3
    <3>6. w.last = t.candle
      BY <3>2, <3>3
    <3>7. written[s] = w
      BY <3>1 DEF w
    <3> QED
      BY <2>1, <3>3, <3>4, <3>5, <3>6, <3>7
  <2>2. CASE s \notin due
    BY <2>0, <2>2
  <2> QED
    BY <2>1, <2>2
<1>7. written \in [Scenario -> Row]
  BY <1>6
<1> HIDE DEF written
<1>8. CASE scenario' = written
  BY <1>6, <1>7, <1>8
<1>9. CASE scenario' # written
  <2>1. PICK n \in Scenario : /\ scenario[n] = Blank
                              /\ scenario' = [written EXCEPT ![n] = NewRow(t.plan)]
    BY <1>1, <1>9
  <2>2. n \notin due
    BY <1>4, <2>1, Unmade
  <2>3. scenario' \in [Scenario -> Row]
    BY <1>2, <1>7, <2>1, NewRows
  <2>4. \A s \in Scenario \ {n} : scenario'[s] = written[s]
    BY <1>7, <2>1
  <2>5. scenario'[n] = NewRow(t.plan)
    BY <1>7, <2>1
  <2>6. /\ ~scenario'[n].active /\ scenario'[n].status # "NONE"
        /\ scenario'[n].last = scenario[n].last
    BY <1>2, <2>1, <2>5, NewRows, Unmade
  <2> QED
    BY <1>6, <2>2, <2>3, <2>4, <2>6
<1> QED
  BY <1>8, <1>9

LEMMA EvaluateKeeps ==
  ASSUME ScenarioInv, NEW j \in 1..2, NEW f \in Facts, Evaluate(j, f)
  PROVE  ScenarioInv' /\ \A x \in Scenario : scenario'[x].active => scenario[x].active
<1> USE DEF ScenarioInv
<1> DEFINE t == job[j]
           due == {s \in DOMAIN t.rows : t.rows[s].last # t.candle}
<1>1. /\ t.phase = "read"
      /\ job' = [job EXCEPT ![j] = NoJob]
      /\ evaluated' = evaluated \cup (due \X {t.candle})
      /\ repeated' = (repeated \/ due \X {t.candle} \cap evaluated # {})
      /\ UNCHANGED <<handler, candle, callbacks>>
  BY DEF Evaluate
<1>2. /\ scenario' \in [Scenario -> Row]
      /\ \A s \in Scenario :
           /\ scenario'[s].active => scenario[s].active
           /\ scenario'[s].status = "NONE" => scenario[s].status = "NONE"
           /\ scenario'[s].last = IF s \in due THEN t.candle ELSE scenario[s].last
  BY EvaluateWrites
<1>3. t # NoJob /\ t \in JobRecord
  BY <1>1, Unmade DEF ScenarioTypes
<1>4. /\ t.candle \in Candle /\ t.candle =< candle /\ due \subseteq Scenario
      /\ \A s \in Scenario : scenario[s].last =< t.candle
      /\ \A s \in due : scenario[s].last # t.candle
  <2>1. t.candle \in Candle /\ DOMAIN t.rows \subseteq Scenario
    BY <1>3, RowsRead DEF JobRecord
  <2> QED
    BY <1>3, <2>1 DEF JobsAgree
<1>5. /\ job'[j] = NoJob /\ \A i \in 1..2 : job'[i] = NoJob
      /\ job' \in [1..2 -> JobRecord]
  BY <1>1, <1>3, Unmade DEF JobsAgree, ScenarioTypes
<1> HIDE DEF due
<1>6. due \X {t.candle} \cap evaluated = {}
  <2> SUFFICES ASSUME NEW s \in due, <<s, t.candle>> \in evaluated
               PROVE  FALSE
    OBVIOUS
  <2>1. t.candle =< scenario[s].last /\ scenario[s].last =< t.candle
    BY <1>4 DEF Remembered
  <2>2. t.candle \in Nat /\ scenario[s].last \in Nat
    BY <1>4, CandleAssumption DEF ScenarioTypes, Row, Candle
  <2> QED
    BY <1>4, <2>1, <2>2
<1>7. ScenarioTypes'
  <2>1. evaluated' \subseteq Scenario \X Candle
    BY <1>1, <1>4 DEF ScenarioTypes
  <2>2. repeated' \in BOOLEAN
    BY <1>1
  <2> QED
    BY <1>1, <1>2, <1>5, <2>1, <2>2 DEF ScenarioTypes
<1>8. RowsExist'
  <2>1. \A h \in Handler : handler[h].on \subseteq Scenario
    BY DEF ScenarioTypes, HandlerRecord
  <2> QED
    BY <1>1, <1>2, <2>1 DEF RowsExist
<1>9. Single'
  BY <1>2 DEF Single, Active
<1>10. JobsAgree'
  <2>1. \A s \in Scenario : scenario'[s].last =< candle'
    BY <1>1, <1>2, <1>4 DEF JobsAgree
  <2> QED
    BY <1>5, <2>1 DEF JobsAgree
<1>11. Remembered'
  <2>1. ~repeated'
    BY <1>1, <1>6 DEF Remembered
  <2> SUFFICES ASSUME NEW s \in Scenario, NEW c \in Candle, <<s, c>> \in evaluated'
               PROVE  c =< scenario'[s].last
    BY <2>1 DEF Remembered
  <2>2. /\ c \in Nat /\ t.candle \in Nat /\ scenario[s].last \in Nat
        /\ scenario[s].last =< t.candle
    BY <1>4, CandleAssumption DEF ScenarioTypes, Row, Candle
  <2>3. CASE <<s, c>> \in evaluated
    <3>1. c =< scenario[s].last
      BY <2>3 DEF Remembered
    <3> QED
      BY <1>2, <2>2, <3>1
  <2>4. CASE <<s, c>> \notin evaluated
    <3>1. s \in due /\ c = t.candle
      BY <1>1, <2>4
    <3> QED
      BY <1>2, <2>2, <3>1
  <2> QED
    BY <2>3, <2>4
<1> QED
  BY <1>2, <1>7, <1>8, <1>9, <1>10, <1>11

\* Any step of the handlers and the tasks.
LEMMA ScenarioKeeps ==
  ASSUME ScenarioInv, ScenarioNext
  PROVE  /\ ScenarioInv'
         /\ \A s \in Scenario :
              ~scenario[s].active /\ scenario'[s].active =>
                \E h \in Handler : /\ handler[h].op = "activating" /\ handler[h].on = {s}
                                   /\ handler'[h] = NoHandler
<1>1. DOMAIN job = 1..2
  BY DEF ScenarioInv, ScenarioTypes
<1>2. ASSUME NEW s \in Scenario, Analyze(s)
      PROVE  ScenarioInv' /\ \A x \in Scenario : scenario'[x].active => scenario[x].active
  BY <1>2, AnalyzeKeeps
<1>3. ASSUME NEW h \in Handler, NEW s \in Scenario, NEW op \in {"activate", "stop"},
             Take(h, op, s)
      PROVE  ScenarioInv' /\ UNCHANGED scenario
  BY <1>3, TakeKeeps
<1>4. ASSUME NEW h \in Handler, NEW s \in Scenario, Activate(h, s)
      PROVE  /\ ScenarioInv'
             /\ \A x \in Scenario : ~scenario[x].active /\ scenario'[x].active =>
                  /\ handler[h].op = "activating" /\ handler[h].on = {x}
                  /\ handler'[h] = NoHandler
  BY <1>4, ActivateKeeps
<1>5. ASSUME NEW h \in Handler, NEW s \in Scenario, Stop(h, s)
      PROVE  ScenarioInv' /\ \A x \in Scenario : scenario'[x].active => scenario[x].active
  BY <1>5, StopKeeps
<1>6. ASSUME NEW h \in Handler, StopOthers(h)
      PROVE  ScenarioInv' /\ UNCHANGED scenario
  BY <1>6, StopOthersKeeps
<1>7. ASSUME Arrive
      PROVE  ScenarioInv' /\ UNCHANGED scenario
  BY <1>7, ArriveKeeps
<1>8. ASSUME NEW j \in 1..2, ReadActive(j)
      PROVE  ScenarioInv' /\ UNCHANGED scenario
  BY <1>8, ReadActiveKeeps
<1>9. ASSUME NEW j \in 1..2, Abandon(j)
      PROVE  ScenarioInv' /\ UNCHANGED scenario
  BY <1>9, JobEnds DEF Abandon
<1>10. ASSUME NEW j \in 1..2, NEW f \in Facts, Evaluate(j, f)
       PROVE  ScenarioInv' /\ \A x \in Scenario : scenario'[x].active => scenario[x].active
  BY <1>10, EvaluateKeeps
<1> QED
  BY <1>1, <1>2, <1>3, <1>4, <1>5, <1>6, <1>7, <1>8, <1>9, <1>10 DEF ScenarioNext

LEMMA ScenarioStays ==
  ScenarioInv /\ UNCHANGED scenarioVars => ScenarioInv'
BY DEF ScenarioInv, ScenarioTypes, RowsExist, Single, Active, JobsAgree, Remembered,
       scenarioVars, past

LEMMA ScenarioShows ==
  ScenarioInv => OneActive /\ CandleOnce /\ ScenarioTypeOK
<1> SUFFICES ASSUME ScenarioInv PROVE OneActive /\ CandleOnce /\ ScenarioTypeOK
  OBVIOUS
<1>1. OneActive
  <2>1. CASE Active = {}
    BY <2>1, FS_EmptySet DEF OneActive
  <2>2. CASE Active # {}
    <3>1. PICK s \in Active : Active = {s}
      BY <2>2 DEF ScenarioInv, Single
    <3> QED
      BY <3>1, FS_Singleton DEF OneActive
  <2> QED
    BY <2>1, <2>2
<1>2. CandleOnce
  BY DEF ScenarioInv, Remembered, CandleOnce
<1>3. ScenarioTypeOK
  <2>1. \A j \in 1..2 : job[j].rows \in Reads
    BY DEF ScenarioInv, ScenarioTypes, JobRecord
  <2>2. \A j \in 1..2 : /\ DOMAIN job[j].rows \subseteq Scenario
                        /\ \A s \in DOMAIN job[j].rows : job[j].rows[s] \in Row
    BY <2>1, RowsRead
  <2> QED
    BY <2>2 DEF ScenarioInv, ScenarioTypes, ScenarioTypeOK, JobRecord, HandlerRecord
<1> QED
  BY <1>1, <1>2, <1>3

-----------------------------------------------------------------------------
(* Invites and links.                                                      *)

VisitRecord ==
  [phase: {"idle", "redeem", "register"}, who: SUBSET Person, used: 0..MaxUses]

LinkRecord == [state: {"none", "live", "used", "gone"}, of: SUBSET Person]

PostRecord == [phase: {"idle", "verify", "store"}, through: SUBSET Link]

OnboardingTypes ==
  /\ invite \in [used: 0..MaxUses, ended: BOOLEAN]
  /\ guests \subseteq member /\ member \subseteq Person
  /\ visit \in [Visit -> VisitRecord]
  /\ link \in [Link -> LinkRecord]
  /\ post \in [Post -> PostRecord]
  /\ connects \in [Link -> Nat] /\ restarts \in 0..MaxRestart

\* The handler holds the row of the code.
Holds(v) == visit[v].phase = "register" /\ ~(visit[v].who \subseteq Admin)

\* One handler at most holds the row; it serves one person, and is about to
\* write one use more than the row says.
VisitsAgree ==
  /\ \A v \in Visit : \A p, q \in visit[v].who : p = q
  /\ \A v, w \in Visit : Holds(v) /\ Holds(w) => v = w
  /\ \A v \in Visit : Holds(v) => visit[v].used = invite.used + 1

Counted == Cardinality(guests) =< invite.used

Storing(r, k) == post[r].phase = "store" /\ k \in post[r].through

\* A request stores through a link that is used up, which none has stored
\* through, and is the only one to do so.
PostsAgree ==
  /\ \A r \in Post : \A k, l \in post[r].through : k = l
  /\ \A r \in Post, k \in Link : Storing(r, k) => connects[k] = 0
  /\ \A r, q \in Post, k \in Link : Storing(r, k) /\ Storing(q, k) => r = q
  /\ \A k \in Link : connects[k] # 0 \/ (\E r \in Post : Storing(r, k)) =>
       link[k].state \in {"used", "gone"}
  /\ OneConnectPerLink

OnboardingInv == OnboardingTypes /\ VisitsAgree /\ Counted /\ PostsAgree

onboardingRest == <<invite, member, guests, visit>>
linkRest == <<link, post, connects>>

LEMMA OnboardingInitHolds == OnboardingInit => OnboardingInv
<1> SUFFICES ASSUME OnboardingInit PROVE OnboardingInv
  OBVIOUS
<1>1. 0 \in 0..MaxUses /\ 0 \in 0..MaxRestart
  BY UsesAssumption
<1>2. OnboardingTypes
  BY <1>1 DEF OnboardingInit, OnboardingTypes, VisitRecord, LinkRecord, PostRecord,
              NoVisit, NoPost
<1>3. VisitsAgree
  BY DEF OnboardingInit, VisitsAgree, Holds, NoVisit
<1>4. Counted
  BY FS_EmptySet DEF OnboardingInit, Counted
<1>5. PostsAgree
  BY DEF OnboardingInit, PostsAgree, Storing, NoPost, OneConnectPerLink
<1> QED
  BY <1>2, <1>3, <1>4, <1>5 DEF OnboardingInv

\* The handlers of /start and the requests of the Mini App do not meet in what
\* they change.
LEMMA LinksUndisturbed ==
  PostsAgree /\ UNCHANGED linkRest => PostsAgree'
BY DEF PostsAgree, Storing, OneConnectPerLink, linkRest

LEMMA VisitsUndisturbed ==
  VisitsAgree /\ Counted /\ UNCHANGED onboardingRest => VisitsAgree' /\ Counted'
BY DEF VisitsAgree, Counted, Holds, onboardingRest

LEMMA Unvisited == NoVisit \in VisitRecord /\ NoVisit.phase = "idle" /\ NoVisit.who = {}
<1>1. 0 \in 0..MaxUses
  BY UsesAssumption
<1> QED
  BY <1>1 DEF NoVisit, VisitRecord

LEMMA Unposted == NoPost \in PostRecord /\ NoPost.phase = "idle" /\ NoPost.through = {}
BY DEF NoPost, PostRecord

\* One element more.
LEMMA OneMore ==
  ASSUME NEW S, IsFiniteSet(S), NEW p
  PROVE  IsFiniteSet(S \cup {p}) /\ Cardinality(S \cup {p}) =< Cardinality(S) + 1
<1>1. Cardinality(S) \in Nat
  BY FS_CardinalityType
<1>2. CASE p \in S
  <2>1. S \cup {p} = S
    BY <1>2
  <2> QED
    BY <1>1, <2>1
<1>3. CASE p \notin S
  <2>1. IsFiniteSet(S \cup {p})
    BY FS_AddElement
  <2>2. Cardinality(S \cup {p}) = IF p \in S THEN Cardinality(S) ELSE Cardinality(S) + 1
    BY FS_AddElement
  <2> QED
    BY <1>1, <1>3, <2>1, <2>2
<1> QED
  BY <1>2, <1>3

LEMMA ArrivesKeeps ==
  ASSUME OnboardingInv, NEW v \in Visit, NEW p \in Person, Arrives(v, p)
  PROVE  OnboardingInv'
<1> USE DEF OnboardingInv
<1> DEFINE new == [NoVisit EXCEPT !.phase = IF p \in Admin THEN "register" ELSE "redeem",
                                  !.who = {p}]
<1>1. /\ visit' = [visit EXCEPT ![v] = new]
      /\ UNCHANGED <<invite, member, guests, link, post, connects, restarts>>
  BY DEF Arrives
<1>2. /\ new \in VisitRecord /\ new.who = {p}
      /\ new.phase = "register" => p \in Admin
  BY Unvisited DEF VisitRecord
<1> HIDE DEF new
<1>3. visit'[v] = new /\ \A w \in Visit \ {v} : visit'[w] = visit[w]
  BY <1>1 DEF OnboardingTypes
<1>4. OnboardingTypes'
  BY <1>1, <1>2 DEF OnboardingTypes
<1>5. VisitsAgree'
  <2>1. ~Holds(v)'
    BY <1>2, <1>3 DEF Holds
  <2>2. \A w \in Visit \ {v} : Holds(w)' <=> Holds(w)
    BY <1>3 DEF Holds
  <2>3. \A w \in Visit : \A q, r \in visit'[w].who : q = r
    BY <1>2, <1>3 DEF VisitsAgree
  <2> QED
    BY <1>1, <1>3, <2>1, <2>2, <2>3 DEF VisitsAgree
<1>6. Counted' /\ PostsAgree'
  BY <1>1, LinksUndisturbed DEF Counted, linkRest
<1> QED
  BY <1>4, <1>5, <1>6

LEMMA RedeemKeeps ==
  ASSUME OnboardingInv, NEW v \in Visit, Redeem(v)
  PROVE  OnboardingInv'
<1> USE DEF OnboardingInv
<1>1. /\ visit[v].phase = "redeem" /\ RowUnlocked
      /\ visit' = [visit EXCEPT ![v] =
           IF invite.ended \/ invite.used >= MaxUses THEN NoVisit
           ELSE [visit[v] EXCEPT !.phase = "register", !.used = invite.used + 1]]
      /\ UNCHANGED <<invite, member, guests, link, post, connects, restarts>>
  BY DEF Redeem
<1>2. \A w \in Visit : ~Holds(w)
  BY <1>1 DEF RowUnlocked, Holds
<1>3. \A w \in Visit \ {v} : visit'[w] = visit[w]
  BY <1>1 DEF OnboardingTypes
<1>4. /\ visit'[v] \in VisitRecord
      /\ visit'[v].who \subseteq visit[v].who
      /\ visit'[v].phase = "register" => visit'[v].used = invite.used + 1
  <2>1. CASE invite.ended \/ invite.used >= MaxUses
    <3>1. visit'[v] = NoVisit
      BY <1>1, <2>1 DEF OnboardingTypes
    <3>2. NoVisit \in VisitRecord /\ NoVisit.phase # "register" /\ NoVisit.who = {}
      BY Unvisited
    <3> QED
      BY <3>1, <3>2
  <2>2. CASE ~(invite.ended \/ invite.used >= MaxUses)
    <3>1. invite.used + 1 \in 0..MaxUses
      BY <2>2, UsesAssumption DEF OnboardingTypes
    <3>2. visit'[v] = [visit[v] EXCEPT !.phase = "register", !.used = invite.used + 1]
      BY <1>1, <2>2 DEF OnboardingTypes
    <3>3. visit[v] \in VisitRecord
      BY DEF OnboardingTypes
    <3>4. PICK u \in 0..MaxUses : u = invite.used + 1
      BY <3>1
    <3>5. [visit[v] EXCEPT !.phase = "register", !.used = u] \in VisitRecord
      BY <3>3 DEF VisitRecord
    <3>6. /\ visit'[v].who = visit[v].who /\ visit'[v].used = u
      BY <3>2, <3>3, <3>4 DEF VisitRecord
    <3> QED
      BY <3>2, <3>4, <3>5, <3>6
  <2> QED
    BY <2>1, <2>2
<1>5. visit' \in [Visit -> VisitRecord]
  <2>1. visit' = [w \in Visit |-> visit'[w]]
    BY <1>1 DEF OnboardingTypes
  <2> QED
    BY <1>3, <1>4, <2>1 DEF OnboardingTypes
<1>6. OnboardingTypes'
  BY <1>1, <1>5 DEF OnboardingTypes
<1>7. VisitsAgree'
  <2>1. \A w \in Visit \ {v} : ~Holds(w)'
    BY <1>2, <1>3 DEF Holds
  <2>2. Holds(v)' => visit'[v].used = invite'.used + 1
    BY <1>1, <1>4 DEF Holds
  <2>3. \A w \in Visit : \A q, r \in visit'[w].who : q = r
    BY <1>3, <1>4 DEF VisitsAgree
  <2> QED
    BY <2>1, <2>2, <2>3 DEF VisitsAgree
<1>8. Counted' /\ PostsAgree'
  BY <1>1, LinksUndisturbed DEF Counted, linkRest
<1> QED
  BY <1>6, <1>7, <1>8

LEMMA RegisterKeeps ==
  ASSUME OnboardingInv, NEW v \in Visit, Register(v)
  PROVE  OnboardingInv'
<1> USE DEF OnboardingInv
<1> DEFINE t == visit[v]
           guest == t.who \ Admin
<1>1. /\ t.phase = "register"
      /\ visit' = [visit EXCEPT ![v] = NoVisit]
      /\ member' = member \cup t.who
      /\ guests' = guests \cup (guest \ member)
      /\ invite' = IF guest = {} THEN invite ELSE [invite EXCEPT !.used = t.used]
      /\ UNCHANGED <<link, post, connects, restarts>>
  BY DEF Register
<1>2. t \in VisitRecord
  BY DEF OnboardingTypes
<1>3. visit'[v] = NoVisit /\ \A w \in Visit \ {v} : visit'[w] = visit[w]
  BY <1>1 DEF OnboardingTypes
<1>4. OnboardingTypes'
  <2>1. visit' \in [Visit -> VisitRecord]
    BY <1>1, Unvisited DEF OnboardingTypes
  <2>2. guests' \subseteq member' /\ member' \subseteq Person
    BY <1>1, <1>2 DEF OnboardingTypes, VisitRecord
  <2>3. invite' \in [used: 0..MaxUses, ended: BOOLEAN]
    BY <1>1, <1>2 DEF OnboardingTypes, VisitRecord
  <2> QED
    BY <1>1, <2>1, <2>2, <2>3 DEF OnboardingTypes
<1>5. ~Holds(v)' /\ \A w \in Visit \ {v} : Holds(w)' <=> Holds(w)
  BY <1>3, Unvisited DEF Holds
<1>6. \A w \in Visit : \A q, r \in visit'[w].who : q = r
  BY <1>3, Unvisited DEF VisitsAgree
<1>7. IsFiniteSet(guests) /\ Cardinality(guests) \in Nat
  BY PersonAssumption, FS_Subset, FS_CardinalityType DEF OnboardingTypes
<1>8. CASE guest = {}
  <2>1. UNCHANGED <<invite, guests>>
    BY <1>1, <1>8
  <2>2. VisitsAgree'
    BY <1>3, <1>5, <1>6, <2>1 DEF VisitsAgree
  <2> QED
    BY <1>1, <1>4, <2>1, <2>2, LinksUndisturbed DEF Counted, linkRest
<1>9. CASE guest # {}
  <2>1. Holds(v)
    BY <1>1, <1>9 DEF Holds
  <2>2. invite'.used = invite.used + 1
    BY <1>1, <1>9, <2>1 DEF VisitsAgree, OnboardingTypes
  <2>3. VisitsAgree'
    <3>1. \A w \in Visit : ~Holds(w)'
      BY <1>5, <2>1 DEF VisitsAgree
    <3> QED
      BY <1>6, <3>1 DEF VisitsAgree
  <2>4. PICK p \in Person : guest = {p}
    <3>1. PICK p \in guest : TRUE
      BY <1>9
    <3>2. guest = {p} /\ p \in Person
      BY <1>2, <3>1 DEF VisitsAgree, VisitRecord
    <3> QED
      BY <3>2
  <2>5. guests' \subseteq guests \cup {p}
    BY <1>1, <2>4
  <2>6. /\ IsFiniteSet(guests \cup {p})
        /\ Cardinality(guests \cup {p}) =< Cardinality(guests) + 1
    BY <1>7, OneMore
  <2>7. Cardinality(guests') =< Cardinality(guests \cup {p})
    BY <2>5, <2>6, FS_Subset
  <2>8. Counted'
    <3>1. /\ Cardinality(guests') \in Nat /\ Cardinality(guests \cup {p}) \in Nat
      BY <2>5, <2>6, FS_Subset, FS_CardinalityType
    <3>2. invite.used \in Nat
      BY UsesAssumption DEF OnboardingTypes
    <3> QED
      BY <1>7, <2>2, <2>6, <2>7, <3>1, <3>2 DEF Counted
  <2> QED
    BY <1>1, <1>4, <2>3, <2>8, LinksUndisturbed DEF linkRest
<1> QED
  BY <1>8, <1>9

LEMMA InviteEndsKeeps ==
  ASSUME OnboardingInv, InviteEnds
  PROVE  OnboardingInv'
<1> USE DEF OnboardingInv
<1>1. /\ invite' = [invite EXCEPT !.ended = TRUE]
      /\ UNCHANGED <<member, guests, visit, link, post, connects, restarts>>
  BY DEF InviteEnds
<1>2. invite' \in [used: 0..MaxUses, ended: BOOLEAN] /\ invite'.used = invite.used
  BY <1>1 DEF OnboardingTypes
<1> QED
  BY <1>1, <1>2, LinksUndisturbed
  DEF OnboardingTypes, VisitsAgree, Holds, Counted, linkRest

LEMMA OfferKeeps ==
  ASSUME OnboardingInv, NEW k \in Link, NEW p \in Person, Offer(k, p)
  PROVE  OnboardingInv'
<1> USE DEF OnboardingInv
<1>1. /\ link[k].state = "none"
      /\ link' = [link EXCEPT ![k] = [state |-> "live", of |-> {p}]]
      /\ UNCHANGED <<invite, member, guests, visit, post, connects, restarts>>
  BY DEF Offer
<1>2. OnboardingTypes'
  BY <1>1 DEF OnboardingTypes, LinkRecord
<1>3. PostsAgree'
  BY <1>1 DEF OnboardingTypes, PostsAgree, Storing, OneConnectPerLink
<1> QED
  BY <1>1, <1>2, <1>3, VisitsUndisturbed DEF onboardingRest

LEMMA ExpireKeeps ==
  ASSUME OnboardingInv, NEW k \in Link, Expire(k)
  PROVE  OnboardingInv'
<1> USE DEF OnboardingInv
<1>1. /\ link' = [link EXCEPT ![k].state = "gone"]
      /\ UNCHANGED <<invite, member, guests, visit, post, connects, restarts>>
  BY DEF Expire
<1>2. OnboardingTypes'
  BY <1>1 DEF OnboardingTypes, LinkRecord
<1>3. PostsAgree'
  BY <1>1 DEF OnboardingTypes, PostsAgree, Storing, OneConnectPerLink
<1> QED
  BY <1>1, <1>2, <1>3, VisitsUndisturbed DEF onboardingRest

LEMMA SubmitKeeps ==
  ASSUME OnboardingInv, NEW r \in Post, NEW k \in Link, Submit(r, k)
  PROVE  OnboardingInv'
<1> USE DEF OnboardingInv
<1>1. /\ post' = [post EXCEPT ![r] = [phase |-> "verify", through |-> {k}]]
      /\ UNCHANGED <<invite, member, guests, visit, link, connects, restarts>>
  BY DEF Submit
<1>2. OnboardingTypes'
  BY <1>1 DEF OnboardingTypes, PostRecord
<1>3. PostsAgree'
  BY <1>1 DEF OnboardingTypes, PostsAgree, Storing, OneConnectPerLink
<1> QED
  BY <1>1, <1>2, <1>3, VisitsUndisturbed DEF onboardingRest

\* A request that ends leaves the others, and the links, as they are.
LEMMA PostEnds ==
  ASSUME OnboardingInv, NEW r \in Post, post' = [post EXCEPT ![r] = NoPost],
         UNCHANGED <<invite, member, guests, visit, link, connects, restarts>>
  PROVE  OnboardingInv'
<1> USE DEF OnboardingInv
<1>1. OnboardingTypes'
  BY Unposted DEF OnboardingTypes
<1>2. PostsAgree'
  BY Unposted DEF OnboardingTypes, PostsAgree, Storing, OneConnectPerLink
<1> QED
  BY <1>1, <1>2, VisitsUndisturbed DEF onboardingRest

LEMMA ConsumeKeeps ==
  ASSUME OnboardingInv, NEW r \in Post, NEW k \in Link, Consume(r, k)
  PROVE  OnboardingInv'
<1> USE DEF OnboardingInv
<1>1. /\ post[r] = [phase |-> "verify", through |-> {k}]
      /\ UNCHANGED <<invite, member, guests, visit, connects, restarts>>
  BY DEF Consume
<1>2. CASE ~Usable(k)
  BY <1>1, <1>2, PostEnds DEF Consume
<1>3. CASE Usable(k)
  <2>1. /\ link' = [link EXCEPT ![k].state = "used"]
        /\ post' = [post EXCEPT ![r].phase = "store"]
    BY <1>3 DEF Consume
  <2>2. connects[k] = 0 /\ \A q \in Post : ~Storing(q, k)
    BY <1>3 DEF Usable, PostsAgree
  <2>3. OnboardingTypes'
    BY <1>1, <2>1 DEF OnboardingTypes, LinkRecord, PostRecord
  <2>4. /\ \A l \in Link : Storing(r, l)' <=> l = k
        /\ \A q \in Post \ {r}, l \in Link : Storing(q, l)' <=> Storing(q, l)
    BY <1>1, <2>1 DEF OnboardingTypes, PostRecord, Storing
  <2>5. PostsAgree'
    <3>1. \A q \in Post : \A l, m \in post'[q].through : l = m
      BY <2>1 DEF OnboardingTypes, PostRecord, PostsAgree
    <3>2. /\ \A q \in Post, l \in Link : Storing(q, l)' => connects'[l] = 0
          /\ \A q, s \in Post, l \in Link : Storing(q, l)' /\ Storing(s, l)' => q = s
          /\ OneConnectPerLink'
      BY <1>1, <2>2, <2>4 DEF PostsAgree, OneConnectPerLink
    <3>3. \A l \in Link : connects'[l] # 0 \/ (\E q \in Post : Storing(q, l)') =>
            link'[l].state \in {"used", "gone"}
      BY <1>1, <2>1, <2>4 DEF OnboardingTypes, PostsAgree, LinkRecord
    <3> QED
      BY <3>1, <3>2, <3>3 DEF PostsAgree
  <2> QED
    BY <1>1, <2>3, <2>5, VisitsUndisturbed DEF onboardingRest
<1> QED
  BY <1>2, <1>3

LEMMA StoreAccountKeeps ==
  ASSUME OnboardingInv, NEW r \in Post, NEW k \in Link, StoreAccount(r, k)
  PROVE  OnboardingInv'
<1> USE DEF OnboardingInv
<1>1. /\ post[r] = [phase |-> "store", through |-> {k}]
      /\ post' = [post EXCEPT ![r] = NoPost]
      /\ UNCHANGED <<invite, member, guests, visit, link, restarts>>
  BY DEF StoreAccount
<1>2. CASE UNCHANGED connects
  BY <1>1, <1>2, PostEnds
<1>3. CASE connects' = [connects EXCEPT ![k] = connects[k] + 1]
  <2>1. Storing(r, k) /\ connects[k] = 0 /\ link[k].state \in {"used", "gone"}
    BY <1>1 DEF Storing, PostsAgree
  <2>2. /\ connects' \in [Link -> Nat] /\ connects'[k] = 1
        /\ \A l \in Link \ {k} : connects'[l] = connects[l]
    BY <1>3, <2>1 DEF OnboardingTypes
  <2>3. OnboardingTypes'
    BY <1>1, <2>2, Unposted DEF OnboardingTypes
  <2>4. /\ \A l \in Link : ~Storing(r, l)'
        /\ \A q \in Post \ {r}, l \in Link : Storing(q, l)' <=> Storing(q, l)
    BY <1>1, Unposted DEF OnboardingTypes, Storing
  <2>5. \A q \in Post : ~Storing(q, k)'
    BY <2>1, <2>4 DEF PostsAgree
  <2>6. PostsAgree'
    <3>1. \A q \in Post : \A l, m \in post'[q].through : l = m
      BY <1>1, Unposted DEF OnboardingTypes, PostsAgree
    <3>2. /\ \A q \in Post, l \in Link : Storing(q, l)' => connects'[l] = 0
          /\ \A q, s \in Post, l \in Link : Storing(q, l)' /\ Storing(s, l)' => q = s
      BY <2>2, <2>4, <2>5 DEF PostsAgree
    <3>3. OneConnectPerLink'
      BY <2>2 DEF PostsAgree, OneConnectPerLink
    <3>4. \A l \in Link : connects'[l] # 0 \/ (\E q \in Post : Storing(q, l)') =>
            link'[l].state \in {"used", "gone"}
      BY <1>1, <2>1, <2>2, <2>4 DEF PostsAgree
    <3> QED
      BY <3>1, <3>2, <3>3, <3>4 DEF PostsAgree
  <2> QED
    BY <1>1, <2>3, <2>6, VisitsUndisturbed DEF onboardingRest
<1> QED
  BY <1>2, <1>3 DEF StoreAccount

LEMMA LinksLostKeeps ==
  ASSUME OnboardingInv, LinksLost
  PROVE  OnboardingInv'
<1> USE DEF OnboardingInv
<1>1. /\ restarts < MaxRestart /\ restarts' = restarts + 1
      /\ link' = [k \in Link |->
                    IF link[k].state = "none" THEN link[k]
                    ELSE [link[k] EXCEPT !.state = "gone"]]
      /\ post' = [r \in Post |-> NoPost]
      /\ visit' = [v \in Visit |-> NoVisit]
      /\ UNCHANGED <<invite, member, guests, connects>>
  BY DEF LinksLost
<1>2. OnboardingTypes'
  <2>1. restarts' \in 0..MaxRestart
    BY <1>1, UsesAssumption DEF OnboardingTypes
  <2>2. link' \in [Link -> LinkRecord]
    BY <1>1 DEF OnboardingTypes, LinkRecord
  <2> QED
    BY <1>1, <2>1, <2>2, Unposted, Unvisited DEF OnboardingTypes
<1>3. VisitsAgree' /\ Counted'
  BY <1>1, Unvisited DEF VisitsAgree, Holds, Counted
<1>4. PostsAgree'
  <2>1. \A r \in Post, k \in Link : ~Storing(r, k)'
    BY <1>1, Unposted DEF Storing
  <2>2. \A k \in Link : connects'[k] # 0 => link'[k].state = "gone"
    BY <1>1 DEF PostsAgree, OnboardingTypes, LinkRecord
  <2> QED
    BY <1>1, <2>1, <2>2, Unposted DEF PostsAgree, OneConnectPerLink
<1> QED
  BY <1>2, <1>3, <1>4

LEMMA OnboardingKeeps == OnboardingInv /\ OnboardingNext => OnboardingInv'
<1> SUFFICES ASSUME OnboardingInv, OnboardingNext PROVE OnboardingInv'
  OBVIOUS
<1>1. ASSUME NEW r \in Post, Refuse(r) PROVE OnboardingInv'
  BY <1>1, PostEnds DEF Refuse
<1> QED
  BY <1>1, ArrivesKeeps, RedeemKeeps, RegisterKeeps, InviteEndsKeeps, OfferKeeps,
     ExpireKeeps, SubmitKeeps, ConsumeKeeps, StoreAccountKeeps, LinksLostKeeps
  DEF OnboardingNext

LEMMA OnboardingStays == OnboardingInv /\ UNCHANGED onboardingVars => OnboardingInv'
BY LinksUndisturbed, VisitsUndisturbed
DEF OnboardingInv, OnboardingTypes, onboardingVars, linkRest, onboardingRest

LEMMA OnboardingShows ==
  OnboardingInv => InviteCounted /\ OneConnectPerLink /\ OnboardingTypeOK
<1> SUFFICES ASSUME OnboardingInv
             PROVE  InviteCounted /\ OneConnectPerLink /\ OnboardingTypeOK
  OBVIOUS
<1>1. InviteCounted
  BY UsesAssumption DEF OnboardingInv, OnboardingTypes, Counted, InviteCounted
<1>2. OnboardingTypeOK
  BY DEF OnboardingInv, OnboardingTypes, OnboardingTypeOK, VisitRecord, LinkRecord,
         PostRecord
<1> QED
  BY <1>1, <1>2 DEF OnboardingInv, PostsAgree

-----------------------------------------------------------------------------
(* The bucket.                                                             *)

RequestRecord ==
  [phase: {"idle", "acquire", "asleep", "sent"}, weight: Weights \cup {0},
   made: 0..(Attempts - 1)]

\* What was spent in excess of the rate and what may be spent at once are never
\* more than the bucket holds.
LimiterInv ==
  /\ tokens \in 0..Capacity /\ burst \in Nat
  /\ unseen \in Nat /\ unseen * Rate \in Nat /\ unseen * Rate =< Capacity + Rate
  /\ request \in [Request -> RequestRecord]
  /\ burst + Refilled =< Capacity

LEMMA LimiterInitHolds == LimiterInit => LimiterInv
<1> SUFFICES ASSUME LimiterInit PROVE LimiterInv
  OBVIOUS
<1>1. request \in [Request -> RequestRecord]
  BY AttemptsAssumption DEF LimiterInit, NoRequest, RequestRecord
<1>2. unseen * Rate = 0
  BY BucketAssumption DEF LimiterInit
<1>3. Refilled = Capacity
  BY <1>2, BucketAssumption DEF LimiterInit, Refilled
<1> QED
  BY <1>1, <1>2, <1>3, BucketAssumption DEF LimiterInit, LimiterInv

LEMMA TickKeeps == LimiterInv /\ Tick => LimiterInv'
<1> SUFFICES ASSUME LimiterInv, Tick PROVE LimiterInv'
  OBVIOUS
<1>1. /\ unseen' = IF unseen * Rate > Capacity THEN unseen ELSE unseen + 1
      /\ burst' = IF burst > Rate THEN burst - Rate ELSE 0
      /\ UNCHANGED <<tokens, request>>
  BY DEF Tick
<1>2. /\ Capacity \in Nat /\ Rate \in Nat /\ tokens \in 0..Capacity /\ burst \in Nat
      /\ unseen \in Nat /\ unseen * Rate \in Nat
      /\ unseen * Rate =< Capacity + Rate
      /\ burst + Refilled =< Capacity
  BY BucketAssumption DEF LimiterInv
<1>3. (unseen + 1) * Rate = unseen * Rate + Rate
  BY <1>2
<1>4. /\ unseen' \in Nat /\ unseen' * Rate \in Nat
      /\ unseen' * Rate =< Capacity + Rate
      /\ unseen' * Rate =< unseen * Rate + Rate
      /\ unseen' * Rate = unseen * Rate \/ unseen' * Rate = unseen * Rate + Rate
  <2>1. CASE unseen * Rate > Capacity
    BY <1>1, <1>2, <2>1
  <2>2. CASE ~(unseen * Rate > Capacity)
    <3>1. unseen' * Rate = unseen * Rate + Rate
      BY <1>1, <1>3, <2>2
    <3> QED
      BY <1>1, <1>2, <2>2, <3>1
  <2> QED
    BY <2>1, <2>2
<1>5. burst' \in Nat
  BY <1>1, <1>2
<1>6. burst' + Refilled' =< Capacity
  <2> DEFINE old == unseen * Rate
             new == unseen' * Rate
  <2>1. /\ Refilled = IF tokens + old > Capacity THEN Capacity ELSE tokens + old
        /\ Refilled' = IF tokens + new > Capacity THEN Capacity ELSE tokens + new
    BY <1>1 DEF Refilled
  <2>2. old \in Nat /\ new \in Nat /\ new =< old + Rate
    BY <1>2, <1>4
  <2> HIDE DEF old, new
  <2> QED
    BY <1>1, <1>2, <2>1, <2>2
<1> QED
  BY <1>1, <1>2, <1>4, <1>5, <1>6 DEF LimiterInv

LEMMA AcquireKeeps ==
  ASSUME LimiterInv, NEW r \in Request, Acquire(r)
  PROVE  LimiterInv'
<1> DEFINE w == request[r].weight
           enough == Refilled >= w
<1>1. /\ unseen' = 0
      /\ tokens' = IF enough THEN Refilled - w ELSE Refilled
      /\ burst' = IF enough THEN burst + w ELSE burst
      /\ request' = [request EXCEPT ![r].phase = IF enough THEN "sent" ELSE "asleep"]
  BY DEF Acquire
<1>2. /\ Capacity \in Nat /\ Rate \in Nat /\ tokens \in 0..Capacity /\ burst \in Nat
      /\ unseen * Rate \in Nat
      /\ burst + Refilled =< Capacity
  BY BucketAssumption DEF LimiterInv
<1>3. w \in Nat
  <2>1. request[r] \in RequestRecord
    BY DEF LimiterInv
  <2>2. Weights \cup {0} \subseteq Nat
    BY BucketAssumption
  <2> QED
    BY <2>1, <2>2 DEF RequestRecord
<1>4. Refilled \in 0..Capacity
  <2> DEFINE n == unseen * Rate
  <2>1. Refilled = IF tokens + n > Capacity THEN Capacity ELSE tokens + n
    BY DEF Refilled
  <2>2. n \in Nat
    BY <1>2
  <2> HIDE DEF n
  <2> QED
    BY <1>2, <2>1, <2>2
<1>5. request' \in [Request -> RequestRecord]
  BY <1>1 DEF LimiterInv, RequestRecord
<1> HIDE DEF w
<1>6. tokens' \in 0..Capacity /\ burst' \in Nat /\ burst' + tokens' =< Capacity
  BY <1>1, <1>2, <1>3, <1>4
<1>7. unseen' * Rate = 0
  BY <1>1, <1>2
<1>8. Refilled' = tokens'
  BY <1>2, <1>6, <1>7 DEF Refilled
<1> QED
  BY <1>1, <1>2, <1>5, <1>6, <1>7, <1>8 DEF LimiterInv

LEMMA LimiterKeeps == LimiterInv /\ LimiterNext => LimiterInv'
<1> SUFFICES ASSUME LimiterInv, LimiterNext PROVE LimiterInv'
  OBVIOUS
<1>1. NoRequest \in RequestRecord
  BY AttemptsAssumption DEF NoRequest, RequestRecord
<1>2. ASSUME NEW r \in Request, NEW x \in RequestRecord,
             request' = [request EXCEPT ![r] = x], UNCHANGED <<tokens, unseen, burst>>
      PROVE  LimiterInv'
  BY <1>2 DEF LimiterInv, Refilled
<1>3. ASSUME NEW r \in Request, NEW w \in Weights, Call(r, w) PROVE LimiterInv'
  <2>1. [phase |-> "acquire", weight |-> w, made |-> 0] \in RequestRecord
    BY AttemptsAssumption DEF RequestRecord
  <2> QED
    BY <1>2, <1>3, <2>1 DEF Call
<1>4. ASSUME NEW r \in Request, WakeUp(r) PROVE LimiterInv'
  <2>1. [request[r] EXCEPT !.phase = "acquire"] \in RequestRecord
    BY DEF LimiterInv, RequestRecord
  <2>2. request' = [request EXCEPT ![r] = [request[r] EXCEPT !.phase = "acquire"]]
    BY <1>4 DEF WakeUp, LimiterInv
  <2> QED
    BY <1>2, <1>4, <2>1, <2>2 DEF WakeUp
<1>5. ASSUME NEW r \in Request, Succeed(r) PROVE LimiterInv'
  BY <1>1, <1>2, <1>5 DEF Succeed
<1>6. ASSUME NEW r \in Request, Again(r) PROVE LimiterInv'
  <2>1. CASE request[r].made + 1 < Attempts
    <3> DEFINE x == [request[r] EXCEPT !.phase = "acquire", !.made = request[r].made + 1]
    <3>1. request[r].made + 1 \in 0..(Attempts - 1)
      BY <2>1, AttemptsAssumption DEF LimiterInv, RequestRecord
    <3>2. request[r] \in RequestRecord
      BY DEF LimiterInv
    <3>3. x \in RequestRecord
      BY <3>1, <3>2 DEF RequestRecord
    <3>4. request' = [request EXCEPT ![r] = x]
      BY <1>6, <2>1 DEF Again
    <3> QED
      BY <1>2, <1>6, <3>3, <3>4 DEF Again
  <2>2. CASE ~(request[r].made + 1 < Attempts)
    BY <1>1, <1>2, <1>6, <2>2 DEF Again
  <2> QED
    BY <2>1, <2>2
<1> QED
  BY <1>3, <1>4, <1>5, <1>6, TickKeeps, AcquireKeeps DEF LimiterNext

LEMMA LimiterStays == LimiterInv /\ UNCHANGED limiterVars => LimiterInv'
BY DEF LimiterInv, Refilled, limiterVars

LEMMA LimiterShows == LimiterInv => BudgetKept /\ LimiterTypeOK
<1> SUFFICES ASSUME LimiterInv PROVE BudgetKept /\ LimiterTypeOK
  OBVIOUS
<1>1. BudgetKept
  <2> DEFINE n == unseen * Rate
  <2>1. Refilled = IF tokens + n > Capacity THEN Capacity ELSE tokens + n
    BY DEF Refilled
  <2>2. n \in Nat /\ tokens \in Nat /\ Capacity \in Nat /\ burst \in Nat
    BY BucketAssumption DEF LimiterInv
  <2>3. Refilled \in Nat
    BY <2>1, <2>2
  <2> QED
    BY <2>2, <2>3 DEF LimiterInv, BudgetKept
<1>2. LimiterTypeOK
  BY DEF LimiterInv, LimiterTypeOK, RequestRecord
<1> QED
  BY <1>1, <1>2

-----------------------------------------------------------------------------
(* The panels.                                                             *)

ScreenRecord ==
  [phase: {"idle", "anchor", "saveAnchor", "clean", "move", "edit", "send", "savePanel"},
   old: Message \cup {0}, new: Message \cup {0}]

PanelTypes ==
  /\ anchors \cup panels \subseteq 1..sent /\ anchors \cap panels = {}
  /\ sent \in 0..MaxMessage
  /\ stored \in [anchor: Message \cup {0}, panel: Message \cup {0}]
  /\ screen \in [Screen -> ScreenRecord]

\* An anchor at least as new as n is in the chat.
Standing(n) == \E a \in anchors : a >= n

\* What is stored has such an anchor behind it, what is about to be stored as
\* well, and what is about to be cleaned up a newer one.
AnchorsStand ==
  /\ stored.anchor =< sent
  /\ stored.anchor # 0 => Standing(stored.anchor)
  /\ \A h \in Screen :
       /\ screen[h].phase = "anchor" => screen[h].old =< sent
       /\ screen[h].phase = "saveAnchor" => /\ screen[h].new =< sent
                                            /\ Standing(screen[h].new)
       /\ screen[h].phase \in {"saveAnchor", "clean"} => Standing(screen[h].old + 1)

PanelInv == PanelTypes /\ AnchorsStand

LEMMA PanelInitHolds == PanelInit => PanelInv
<1> SUFFICES ASSUME PanelInit PROVE PanelInv
  OBVIOUS
<1>1. 0 \in 0..MaxMessage
  BY ScreenAssumption
<1>2. PanelTypes
  BY <1>1 DEF PanelInit, PanelTypes, NoScreen, ScreenRecord
<1>3. AnchorsStand
  BY DEF PanelInit, AnchorsStand, NoScreen
<1> QED
  BY <1>2, <1>3 DEF PanelInv

LEMMA Screens ==
  /\ NoScreen \in ScreenRecord /\ NoScreen.phase = "idle"
  /\ Message \subseteq Nat /\ MaxMessage \in Nat
BY ScreenAssumption DEF NoScreen, ScreenRecord, Message

LEMMA PanelNumbers ==
  ASSUME PanelTypes
  PROVE  /\ sent \in Nat /\ stored.anchor \in Nat
         /\ \A h \in Screen : screen[h].old \in Nat /\ screen[h].new \in Nat
         /\ \A a \in anchors \cup panels : a \in Nat
<1>1. Message \cup {0} \subseteq Nat
  BY Screens
<1>2. sent \in Nat
  BY Screens DEF PanelTypes
<1>3. stored.anchor \in Message \cup {0}
  BY DEF PanelTypes
<1>4. \A h \in Screen : screen[h].old \in Message \cup {0} /\ screen[h].new \in Message \cup {0}
  BY DEF PanelTypes, ScreenRecord
<1>5. \A a \in anchors \cup panels : a \in Nat
  BY <1>2 DEF PanelTypes
<1> QED
  BY <1>1, <1>2, <1>3, <1>4, <1>5

\* One handler moves on, and every anchor that was taken away has a newer one
\* behind it.
LEMMA ScreenMoves ==
  ASSUME PanelInv, PanelTypes',
         NEW h \in Screen, NEW x \in ScreenRecord, screen' = [screen EXCEPT ![h] = x],
         sent =< sent', \A n \in Nat : Standing(n) => Standing(n)',
         /\ stored'.anchor =< sent'
         /\ stored'.anchor # 0 => \E a \in anchors' : a >= stored'.anchor,
         /\ x.phase = "anchor" => x.old =< sent'
         /\ x.phase = "saveAnchor" => x.new =< sent' /\ \E a \in anchors' : a >= x.new
         /\ x.phase \in {"saveAnchor", "clean"} => \E a \in anchors' : a >= x.old + 1
  PROVE  PanelInv'
<1>1. sent \in Nat /\ sent' \in Nat
  BY Screens DEF PanelInv, PanelTypes
<1>2. screen'[h] = x /\ \A g \in Screen \ {h} : screen'[g] = screen[g]
  BY DEF PanelInv, PanelTypes
<1>3. \A g \in Screen : /\ screen[g].old \in Nat /\ screen[g].new \in Nat
                        /\ screen[g].old + 1 \in Nat
  <2>1. \A g \in Screen : screen[g] \in ScreenRecord
    BY DEF PanelInv, PanelTypes
  <2>2. Message \cup {0} \subseteq Nat
    BY Screens
  <2>3. \A g \in Screen : screen[g].old \in Nat /\ screen[g].new \in Nat
    BY <2>1, <2>2 DEF ScreenRecord
  <2> QED
    BY <2>3
<1>4. ASSUME NEW g \in Screen
      PROVE  /\ screen'[g].phase = "anchor" => screen'[g].old =< sent'
             /\ screen'[g].phase = "saveAnchor" =>
                  /\ screen'[g].new =< sent'
                  /\ \E a \in anchors' : a >= screen'[g].new
             /\ screen'[g].phase \in {"saveAnchor", "clean"} =>
                  \E a \in anchors' : a >= screen'[g].old + 1
  <2>1. CASE g = h
    BY <1>2, <2>1
  <2>2. CASE g # h
    <3>1. screen'[g] = screen[g]
      BY <1>2, <2>2
    <3>2. \A n \in Nat : Standing(n) => \E a \in anchors' : a >= n
      BY DEF Standing
    <3>3. /\ screen[g].phase = "anchor" => screen[g].old =< sent
          /\ screen[g].phase = "saveAnchor" =>
               screen[g].new =< sent /\ Standing(screen[g].new)
          /\ screen[g].phase \in {"saveAnchor", "clean"} => Standing(screen[g].old + 1)
      BY DEF PanelInv, AnchorsStand
    <3> QED
      BY <1>1, <1>3, <3>1, <3>2, <3>3
  <2> QED
    BY <2>1, <2>2
<1>5. AnchorsStand'
  BY <1>4 DEF AnchorsStand, Standing
<1> QED
  BY <1>5 DEF PanelInv

\* A handler that reads, is refused, or talks to Telegram about a panel.
LEMMA PanelsAside ==
  ASSUME PanelInv, NEW h \in Screen, NEW x \in ScreenRecord,
         screen' = [screen EXCEPT ![h] = x],
         UNCHANGED anchors,
         panels' \subseteq panels \cup (sent'..sent') \/ panels' \subseteq panels,
         sent' = sent \/ (sent' = sent + 1 /\ sent < MaxMessage),
         panels' \subseteq panels \/ sent' = sent + 1,
         stored' \in [anchor: Message \cup {0}, panel: Message \cup {0}],
         stored'.anchor = stored.anchor,
         x.phase \notin {"saveAnchor", "clean"},
         x.phase = "anchor" => x.old =< sent
  PROVE  PanelInv'
<1>1. sent \in Nat /\ sent' \in 0..MaxMessage /\ sent =< sent'
  BY Screens DEF PanelInv, PanelTypes
<1>2. \A a \in anchors \cup panels : a \in Nat /\ 1 =< a /\ a =< sent
  BY <1>1 DEF PanelInv, PanelTypes
<1>3. panels' \subseteq panels \cup {sent'} /\ (panels' \subseteq panels \/ sent' = sent + 1)
  BY <1>1
<1>4. \A a \in anchors \cup panels' : a \in 1..sent'
  BY <1>1, <1>2, <1>3
<1>5. anchors \cap panels' = {}
  BY <1>1, <1>2, <1>3 DEF PanelInv, PanelTypes
<1>6. PanelTypes'
  BY <1>1, <1>4, <1>5 DEF PanelInv, PanelTypes
<1>7. \A n \in Nat : Standing(n) => Standing(n)'
  BY DEF Standing
<1>8. stored.anchor \in Nat /\ x.old \in Nat
  <2>1. x.old \in Message \cup {0} /\ Message \cup {0} \subseteq Nat
    BY Screens DEF ScreenRecord
  <2> QED
    BY <2>1, PanelNumbers DEF PanelInv
<1>9. /\ stored'.anchor =< sent'
      /\ stored'.anchor # 0 => \E a \in anchors' : a >= stored'.anchor
  BY <1>1, <1>8 DEF PanelInv, AnchorsStand, Standing
<1>10. x.phase = "anchor" => x.old =< sent'
  BY <1>1, <1>8
<1>11. x.phase # "saveAnchor" /\ x.phase # "clean"
  OBVIOUS
<1> QED
  BY <1>1, <1>6, <1>7, <1>9, <1>10, <1>11, ScreenMoves

LEMMA ReadAnchorKeeps ==
  ASSUME PanelInv, NEW h \in Screen, ReadAnchor(h)
  PROVE  PanelInv'
<1> DEFINE x == [screen[h] EXCEPT !.phase = "anchor", !.old = stored.anchor]
<1>1. screen' = [screen EXCEPT ![h] = x] /\ UNCHANGED <<anchors, panels, sent, stored>>
  BY DEF ReadAnchor, PanelInv, PanelTypes
<1>2. x \in ScreenRecord /\ x.phase = "anchor" /\ x.old = stored.anchor
  BY DEF PanelInv, PanelTypes, ScreenRecord
<1>3. stored.anchor =< sent /\ stored \in [anchor: Message \cup {0}, panel: Message \cup {0}]
  BY DEF PanelInv, PanelTypes, AnchorsStand
<1> HIDE DEF x
<1> QED
  BY <1>1, <1>2, <1>3, PanelsAside

LEMMA SendAnchorKeeps ==
  ASSUME PanelInv, NEW h \in Screen, SendAnchor(h)
  PROVE  PanelInv'
<1> DEFINE n == sent + 1
           x == [screen[h] EXCEPT !.phase = "saveAnchor", !.new = n]
<1>1. /\ screen[h].phase = "anchor" /\ sent < MaxMessage
      /\ sent' = n /\ anchors' = anchors \cup {n}
      /\ screen' = [screen EXCEPT ![h] = x]
      /\ UNCHANGED <<panels, stored>>
  BY DEF SendAnchor, PanelInv, PanelTypes
<1>2. sent \in Nat /\ n \in Message /\ n \in 0..MaxMessage /\ sent =< n
  BY <1>1, Screens DEF PanelInv, PanelTypes, Message
<1>3. screen[h] \in ScreenRecord /\ screen[h].old =< sent /\ screen[h].old \in Nat
  BY <1>1, Screens DEF PanelInv, PanelTypes, AnchorsStand, ScreenRecord
<1>4. x \in ScreenRecord /\ x.phase = "saveAnchor" /\ x.new = n /\ x.old = screen[h].old
  BY <1>2, <1>3 DEF ScreenRecord
<1>5. \A a \in anchors \cup panels : a \in Nat /\ 1 =< a /\ a =< sent
  BY <1>2 DEF PanelInv, PanelTypes
<1> HIDE DEF x
<1>6. PanelTypes'
  <2>1. anchors' \cup panels' \subseteq 1..sent' /\ anchors' \cap panels' = {}
    BY <1>1, <1>2, <1>5 DEF PanelInv, PanelTypes
  <2> QED
    BY <1>1, <1>2, <1>4, <2>1 DEF PanelInv, PanelTypes
<1>7. \A m \in Nat : Standing(m) => Standing(m)'
  BY <1>1 DEF Standing
<1>8. stored.anchor \in Nat /\ stored.anchor =< sent
  BY PanelNumbers DEF PanelInv, AnchorsStand
<1>9. /\ stored'.anchor =< sent'
      /\ stored'.anchor # 0 => \E a \in anchors' : a >= stored'.anchor
  BY <1>1, <1>2, <1>8
<1>10. n \in anchors' /\ n >= x.new /\ n >= x.old + 1 /\ x.new =< sent'
  BY <1>1, <1>2, <1>3, <1>4
<1> QED
  BY <1>1, <1>2, <1>4, <1>6, <1>7, <1>9, <1>10, ScreenMoves

LEMMA SaveAnchorKeeps ==
  ASSUME PanelInv, NEW h \in Screen, SaveAnchor(h)
  PROVE  PanelInv'
<1> DEFINE x == [screen[h] EXCEPT !.phase = "clean"]
<1>1. /\ screen[h].phase = "saveAnchor"
      /\ stored' = [stored EXCEPT !.anchor = screen[h].new]
      /\ screen' = [screen EXCEPT ![h] = x]
      /\ UNCHANGED <<anchors, panels, sent>>
  BY DEF SaveAnchor, Goes, PanelInv, PanelTypes
<1>2. /\ screen[h] \in ScreenRecord
      /\ screen[h].new =< sent /\ Standing(screen[h].new) /\ Standing(screen[h].old + 1)
  BY <1>1 DEF PanelInv, PanelTypes, AnchorsStand
<1>3. x \in ScreenRecord /\ x.phase = "clean" /\ x.old = screen[h].old
  BY <1>2 DEF ScreenRecord
<1>4. /\ stored' \in [anchor: Message \cup {0}, panel: Message \cup {0}]
      /\ stored'.anchor = screen[h].new
  BY <1>1, <1>2 DEF PanelInv, PanelTypes, ScreenRecord
<1> HIDE DEF x
<1>5. PanelTypes'
  BY <1>1, <1>3, <1>4 DEF PanelInv, PanelTypes
<1>6. /\ \A n \in Nat : Standing(n) => Standing(n)'
      /\ \E a \in anchors' : a >= stored'.anchor
      /\ \E a \in anchors' : a >= x.old + 1
  BY <1>1, <1>2, <1>3, <1>4 DEF Standing
<1>7. sent =< sent' /\ stored'.anchor =< sent'
  BY <1>1, <1>2, <1>4 DEF PanelInv, PanelTypes
<1> QED
  BY <1>1, <1>3, <1>5, <1>6, <1>7, ScreenMoves

LEMMA CleanAnchorKeeps ==
  ASSUME PanelInv, NEW h \in Screen, CleanAnchor(h)
  PROVE  PanelInv'
<1> DEFINE old == screen[h].old
<1>1. /\ screen[h].phase = "clean"
      /\ anchors' \in {anchors, anchors \ {old}}
      /\ screen' = [screen EXCEPT ![h] = NoScreen]
      /\ UNCHANGED <<panels, sent, stored>>
  BY DEF CleanAnchor, Old
<1>2. old \in Nat /\ sent \in Nat /\ stored.anchor \in Nat
  BY PanelNumbers DEF PanelInv
<1>3. PICK b \in anchors : b >= old + 1
  BY <1>1 DEF PanelInv, AnchorsStand, Standing
<1>4. \A a \in anchors : a \in Nat
  BY <1>2 DEF PanelInv, PanelTypes
<1>5. b \in anchors' /\ anchors' \subseteq anchors
  BY <1>1, <1>2, <1>3, <1>4
<1> HIDE DEF old
<1>6. ASSUME NEW n \in Nat, Standing(n) PROVE \E a \in anchors' : a >= n
  <2>1. PICK a \in anchors : a >= n
    BY <1>6 DEF Standing
  <2>2. CASE a = old
    <3>1. b >= n
      BY <1>2, <1>3, <1>4, <2>1, <2>2
    <3> QED
      BY <1>5, <3>1
  <2>3. CASE a # old
    BY <1>1, <2>1, <2>3
  <2> QED
    BY <2>2, <2>3
<1>7. PanelTypes'
  BY <1>1, <1>5, Screens DEF PanelInv, PanelTypes
<1>8. \A n \in Nat : Standing(n) => Standing(n)'
  BY <1>6 DEF Standing
<1>9. /\ stored'.anchor =< sent'
      /\ stored'.anchor # 0 => \E a \in anchors' : a >= stored'.anchor
  <2>1. stored.anchor =< sent /\ (stored.anchor # 0 => Standing(stored.anchor))
    BY DEF PanelInv, AnchorsStand
  <2> QED
    BY <1>1, <1>2, <1>6, <2>1
<1>10. sent =< sent'
  BY <1>1, <1>2
<1>11. /\ NoScreen \in ScreenRecord /\ NoScreen.phase # "anchor"
       /\ NoScreen.phase # "saveAnchor" /\ NoScreen.phase # "clean"
  BY Screens
<1> QED
  BY <1>1, <1>7, <1>8, <1>9, <1>10, <1>11, ScreenMoves

LEMMA ReadPanelKeeps ==
  ASSUME PanelInv, NEW h \in Screen, NEW force \in BOOLEAN, ReadPanel(h, force)
  PROVE  PanelInv'
<1>1. PICK target \in panels \cup {stored.panel} :
        screen' = [screen EXCEPT ![h].phase = IF target = 0 THEN "send"
                                              ELSE IF force THEN "move" ELSE "edit",
                                 ![h].old = target]
  BY DEF ReadPanel
<1>2. UNCHANGED <<anchors, panels, sent, stored>>
  BY DEF ReadPanel
<1>3. target \in Message \cup {0}
  <2>1. sent \in 0..MaxMessage /\ panels \subseteq 1..sent
    BY DEF PanelInv, PanelTypes
  <2>2. panels \subseteq Message
    BY <2>1, Screens DEF Message
  <2> QED
    BY <2>2 DEF PanelInv, PanelTypes
<1>4. PICK ph \in {"send", "move", "edit"} :
        screen' = [screen EXCEPT ![h] = [screen[h] EXCEPT !.phase = ph, !.old = target]]
  BY <1>1 DEF PanelInv, PanelTypes
<1> DEFINE x == [screen[h] EXCEPT !.phase = ph, !.old = target]
<1>5. x \in ScreenRecord /\ x.phase = ph
  BY <1>3, <1>4 DEF PanelInv, PanelTypes, ScreenRecord
<1> HIDE DEF x
<1>6. screen' = [screen EXCEPT ![h] = x]
  BY <1>4 DEF x
<1>7. stored \in [anchor: Message \cup {0}, panel: Message \cup {0}]
  BY DEF PanelInv, PanelTypes
<1> QED
  BY <1>2, <1>4, <1>5, <1>6, <1>7, PanelsAside

\* A step of a handler that shows the panel: it goes to the phase ph, having
\* been given the message new.
LEMMA PanelPhase ==
  ASSUME PanelInv, NEW h \in Screen, NEW ph \in {"send", "savePanel"},
         NEW new \in Message \cup {0},
         screen' = [screen EXCEPT ![h].phase = ph, ![h].new = new],
         UNCHANGED <<anchors, stored>>,
         panels' \subseteq panels \cup (sent'..sent') \/ panels' \subseteq panels,
         sent' = sent \/ (sent' = sent + 1 /\ sent < MaxMessage),
         panels' \subseteq panels \/ sent' = sent + 1
  PROVE  PanelInv'
<1> DEFINE x == [screen[h] EXCEPT !.phase = ph, !.new = new]
<1>1. screen' = [screen EXCEPT ![h] = x]
  BY DEF PanelInv, PanelTypes
<1>2. x \in ScreenRecord /\ x.phase = ph
  BY DEF PanelInv, PanelTypes, ScreenRecord
<1>3. stored \in [anchor: Message \cup {0}, panel: Message \cup {0}]
  BY DEF PanelInv, PanelTypes
<1> HIDE DEF x
<1>4. x.phase \notin {"saveAnchor", "clean"} /\ x.phase # "anchor"
  BY <1>2
<1> QED
  BY <1>1, <1>2, <1>3, <1>4, PanelsAside

LEMMA PanelKeeps == PanelInv /\ PanelNext => PanelInv'
<1> SUFFICES ASSUME PanelInv, NEW h \in Screen,
                    \/ ReadAnchor(h) \/ SendAnchor(h) \/ SaveAnchor(h) \/ CleanAnchor(h)
                    \/ \E force \in BOOLEAN : ReadPanel(h, force)
                    \/ DeletePanel(h) \/ EditPanel(h) \/ SendPanel(h) \/ SavePanel(h)
                    \/ Refused(h)
             PROVE  PanelInv'
  BY DEF PanelNext
<1>1. /\ screen[h] \in ScreenRecord /\ sent \in 0..MaxMessage
      /\ stored \in [anchor: Message \cup {0}, panel: Message \cup {0}]
      /\ panels \subseteq 1..sent
  BY DEF PanelInv, PanelTypes
<1>2. screen[h].old \in Message \cup {0} /\ screen[h].new \in Message \cup {0}
  BY <1>1 DEF ScreenRecord
<1>3. ASSUME NEW ph \in {"send", "savePanel"}, screen' = [screen EXCEPT ![h].phase = ph]
      PROVE  screen' = [screen EXCEPT ![h].phase = ph, ![h].new = screen[h].new]
  BY <1>1, <1>3 DEF ScreenRecord, PanelInv, PanelTypes
<1>4. CASE DeletePanel(h)
  <2>1. /\ screen' = [screen EXCEPT ![h].phase = "send"]
        /\ panels' \subseteq panels /\ UNCHANGED <<anchors, sent, stored>>
    BY <1>4 DEF DeletePanel, Goes
  <2> QED
    BY <1>2, <1>3, <2>1, PanelPhase
<1>5. CASE EditPanel(h)
  <2>1. UNCHANGED <<anchors, panels, sent, stored>>
    BY <1>5 DEF EditPanel
  <2>2. \/ screen' = [screen EXCEPT ![h].phase = "savePanel", ![h].new = screen[h].old]
        \/ screen' = [screen EXCEPT ![h].phase = "send"]
    BY <1>5 DEF EditPanel, Goes, Old
  <2> QED
    BY <1>2, <1>3, <2>1, <2>2, PanelPhase
<1>6. CASE SendPanel(h)
  <2>1. /\ sent < MaxMessage /\ sent' = sent + 1 /\ panels' = panels \cup {sent'}
        /\ screen' = [screen EXCEPT ![h].phase = "savePanel", ![h].new = sent + 1]
        /\ UNCHANGED <<anchors, stored>>
    BY <1>6 DEF SendPanel
  <2>2. sent + 1 \in Message
    BY <1>1, <2>1, Screens DEF Message
  <2>3. panels' \subseteq panels \cup (sent'..sent')
    BY <1>1, <2>1
  <2> QED
    BY <2>1, <2>2, <2>3, PanelPhase
<1>7. ASSUME screen' = [screen EXCEPT ![h] = NoScreen],
             UNCHANGED <<anchors, panels, sent>>,
             stored' \in [anchor: Message \cup {0}, panel: Message \cup {0}],
             stored'.anchor = stored.anchor
      PROVE  PanelInv'
  BY <1>7, Screens, PanelsAside
<1>8. CASE SavePanel(h)
  <2>1. /\ stored' = [stored EXCEPT !.panel = screen[h].new]
        /\ screen' = [screen EXCEPT ![h] = NoScreen]
        /\ UNCHANGED <<anchors, panels, sent>>
    BY <1>8 DEF SavePanel
  <2> QED
    BY <1>1, <1>2, <1>7, <2>1
<1>9. CASE Refused(h)
  BY <1>1, <1>7, <1>9 DEF Refused
<1> QED
  BY <1>4, <1>5, <1>6, <1>8, <1>9, ReadAnchorKeeps, SendAnchorKeeps, SaveAnchorKeeps,
     CleanAnchorKeeps, ReadPanelKeeps

LEMMA PanelStays == PanelInv /\ UNCHANGED panelVars => PanelInv'
BY DEF PanelInv, PanelTypes, AnchorsStand, Standing, panelVars

\* A set of numbers up to a bound has a greatest one.
LEMMA GreatestExists ==
  ASSUME NEW n \in Nat, NEW S \in SUBSET (1..n), S # {}
  PROVE  Max(S) \in S /\ \A y \in S : Max(S) >= y
<1> DEFINE T == {n - x : x \in S}
<1>1. T \subseteq Nat /\ T # {}
  <2>1. \A x \in S : n - x \in Nat
    OBVIOUS
  <2>2. PICK x \in S : TRUE
    OBVIOUS
  <2>3. n - x \in T
    OBVIOUS
  <2> QED
    BY <2>1, <2>3
<1>2. PICK t \in T : \A y \in T : <<y, t>> \notin OpToRel(<, Nat)
  BY <1>1, NatLessThanWellFounded, WFMin
<1>3. PICK x \in S : t = n - x
  OBVIOUS
<1>4. \A y \in S : x >= y
  <2> SUFFICES ASSUME NEW y \in S, y > x PROVE FALSE
    OBVIOUS
  <2>1. n - y \in T /\ n - y \in Nat /\ t \in Nat /\ n - y < t
    BY <1>1, <1>3
  <2>2. <<n - y, t>> \in OpToRel(<, Nat)
    BY <2>1 DEF OpToRel
  <2> QED
    BY <1>2, <2>1, <2>2
<1> QED
  BY <1>4 DEF Max

LEMMA PanelShows == PanelInv => KeyboardStays /\ PanelTypeOK
<1> SUFFICES ASSUME PanelInv PROVE KeyboardStays /\ PanelTypeOK
  OBVIOUS
<1>1. KeyboardStays
  <2> SUFFICES ASSUME stored.anchor # 0
               PROVE  anchors # {} /\ Max(anchors) >= stored.anchor
    BY DEF KeyboardStays
  <2>1. PICK a \in anchors : a >= stored.anchor
    BY DEF PanelInv, AnchorsStand, Standing
  <2>2. sent \in Nat /\ anchors \in SUBSET (1..sent) /\ stored.anchor \in Nat
    BY PanelNumbers DEF PanelInv, PanelTypes
  <2>3. Max(anchors) \in anchors /\ Max(anchors) >= a
    BY <2>1, <2>2, GreatestExists
  <2>4. PICK m \in anchors : m = Max(anchors) /\ m >= a
    BY <2>3
  <2>5. m \in Nat /\ a \in Nat
    BY PanelNumbers DEF PanelInv
  <2>6. m >= stored.anchor
    BY <2>1, <2>2, <2>4, <2>5
  <2> QED
    BY <2>4, <2>6
<1>2. PanelTypeOK
  BY DEF PanelInv, PanelTypes, PanelTypeOK, ScreenRecord
<1> QED
  BY <1>1, <1>2

-----------------------------------------------------------------------------
(* The recorder.                                                           *)

\* Taking the first element of a sequence over to the one before it.
LEMMA Shift ==
  ASSUME NEW w \in Seq(Nat), NEW q \in Seq(Nat), q # <<>>
  PROVE  /\ Head(q) \in Nat /\ Tail(q) \in Seq(Nat) /\ Len(Tail(q)) =< Len(q)
         /\ (w \o <<Head(q)>>) \o Tail(q) = w \o q
<1>1. Head(q) \in Nat /\ Tail(q) \in Seq(Nat) /\ Len(Tail(q)) = Len(q) - 1
  BY HeadTailProperties
<1>2. <<Head(q)>> \in Seq(Nat)
  BY <1>1
<1>3. <<Head(q)>> \o Tail(q) = q
  BY <1>1
<1>4. (w \o <<Head(q)>>) \o Tail(q) = w \o (<<Head(q)>> \o Tail(q))
  BY <1>1, <1>2, ConcatAssociative
<1>5. Len(q) \in Nat
  BY LenProperties
<1> QED
  BY <1>1, <1>3, <1>4, <1>5

LEMMA AppendBehind ==
  ASSUME NEW w \in Seq(Nat), NEW q \in Seq(Nat), NEW e \in Nat
  PROVE  w \o Append(q, e) = Append(w \o q, e)
<1>1. Append(q, e) = q \o <<e>> /\ <<e>> \in Seq(Nat)
  BY AppendIsConcat
<1>2. w \o q \in Seq(Nat)
  BY ConcatProperties
<1>3. Append(w \o q, e) = (w \o q) \o <<e>>
  BY <1>2, AppendIsConcat
<1> QED
  BY <1>1, <1>3, ConcatAssociative

\* What is first in the queue is the sentinel only if it is all there is.
LEMMA SentinelLast ==
  ASSUME NEW w \in Seq(Nat), NEW q \in Seq(Nat), NEW acc \in Seq(Nat),
         q # <<>>, Head(q) = 0, \A i \in 1..Len(acc) : acc[i] # 0
  PROVE  /\ w \o q # acc
         /\ w \o q = Append(acc, 0) => Tail(q) = <<>> /\ w = acc
<1> DEFINE k == Len(w) + 1
<1>1. /\ Len(w) \in Nat /\ Len(q) \in Nat \ {0} /\ Len(acc) \in Nat
      /\ Len(Tail(q)) = Len(q) - 1 /\ Tail(q) \in Seq(Nat)
  BY LenProperties, EmptySeq, HeadTailProperties
<1>2. /\ Len(w \o q) = Len(w) + Len(q)
      /\ \A i \in 1..(Len(w) + Len(q)) :
           (w \o q)[i] = IF i <= Len(w) THEN w[i] ELSE q[i - Len(w)]
  BY ConcatProperties
<1>3. (w \o q)[k] = 0
  <2>1. k \in 1..(Len(w) + Len(q)) /\ ~(k <= Len(w)) /\ k - Len(w) = 1
    BY <1>1
  <2>2. q[1] = 0
    OBVIOUS
  <2> QED
    BY <1>2, <2>1, <2>2
<1>4. ASSUME w \o q = acc PROVE FALSE
  <2>1. k \in 1..Len(acc)
    BY <1>1, <1>2, <1>4
  <2> QED
    BY <1>3, <1>4, <2>1
<1>5. ASSUME w \o q = Append(acc, 0) PROVE Tail(q) = <<>> /\ w = acc
  <2>1. /\ Len(Append(acc, 0)) = Len(acc) + 1
        /\ \A i \in 1..Len(acc) : Append(acc, 0)[i] = acc[i]
    BY AppendProperties
  <2>2. Len(acc) + 1 = Len(w) + Len(q)
    BY <1>2, <1>5, <2>1
  <2>3. ~(k =< Len(acc))
    <3> SUFFICES ASSUME k =< Len(acc) PROVE FALSE
      OBVIOUS
    <3>1. k \in 1..Len(acc)
      BY <1>1
    <3> QED
      BY <1>3, <1>5, <2>1, <3>1
  <2>4. Len(q) = 1 /\ Len(w) = Len(acc)
    BY <1>1, <2>2, <2>3
  <2>5. Len(Tail(q)) = 0
    BY <1>1, <2>4
  <2>6. Tail(q) = <<>>
    BY <1>1, <2>5, EmptySeq
  <2>7. \A i \in 1..Len(w) : w[i] = acc[i]
    <3> SUFFICES ASSUME NEW i \in 1..Len(w) PROVE w[i] = acc[i]
      OBVIOUS
    <3>1. i \in 1..(Len(w) + Len(q)) /\ i <= Len(w) /\ i \in 1..Len(acc)
      BY <1>1, <2>4
    <3>2. (w \o q)[i] = w[i]
      BY <1>2, <3>1
    <3> QED
      BY <1>5, <2>1, <3>1, <3>2
  <2>8. w = acc
    BY <2>4, <2>7, SeqEqual
  <2> QED
    BY <2>6, <2>8
<1> QED
  BY <1>4, <1>5

WriterRecord ==
  [phase: {"idle", "filling", "writing", "dead", "done"}, batch: Seq(Nat),
   limit: 0..(20 * BatchSize), stopping: BOOLEAN]

RecorderTypes ==
  /\ events \in 0..MaxEvent
  /\ queue \in Seq(Nat) /\ Len(queue) =< QueueSize
  /\ file \in Seq(Nat) /\ archive \in Seq(Nat) /\ accepted \in Seq(Nat)
  /\ \A i \in 1..Len(accepted) : accepted[i] \in 1..events
  /\ writer \in WriterRecord
  /\ closing \in {"no", "putting", "joining", "closed"}

\* The sentinel has been taken out of the queue.
Ended == writer.stopping \/ writer.phase = "done"

\* What the task has taken, and what is waiting for it.
Taken == (archive \o file) \o writer.batch

Whole == Taken \o queue

\* Nothing is lost or out of place: the sentinel is there while close waits for
\* the task to find it, and then there is nothing behind it.
Recorded ==
  /\ Whole = IF closing = "joining" /\ ~Ended THEN Append(accepted, Sentinel)
             ELSE accepted
  /\ Ended => queue = <<>> /\ closing \in {"joining", "closed"}
  /\ closing = "closed" => writer.phase = "done"
  /\ writer.phase \in {"idle", "done"} => writer.batch = <<>>
  /\ writer.stopping => writer.phase = "writing"

RecorderInv ==
  /\ RecorderTypes
  /\ writer.phase # "dead" => Recorded
  /\ writer.phase = "dead" => closing # "closed"

LEMMA Idle ==
  /\ Waiting \in WriterRecord /\ Waiting.phase = "idle" /\ Waiting.batch = <<>>
  /\ Waiting.stopping = FALSE /\ Waiting.limit = 0
  /\ [Waiting EXCEPT !.phase = "done"] \in WriterRecord
  /\ [Waiting EXCEPT !.phase = "done"].phase = "done"
  /\ [Waiting EXCEPT !.phase = "done"].batch = <<>>
  /\ [Waiting EXCEPT !.phase = "done"].stopping = FALSE
<1>1. 0 \in 0..(20 * BatchSize) /\ <<>> \in Seq(Nat)
  BY QueueAssumption
<1> QED
  BY <1>1 DEF Waiting, WriterRecord

LEMMA TakenIsSeq ==
  ASSUME RecorderTypes
  PROVE  /\ writer.batch \in Seq(Nat) /\ archive \o file \in Seq(Nat)
         /\ Taken \in Seq(Nat) /\ Whole \in Seq(Nat)
<1>1. writer.batch \in Seq(Nat) /\ archive \o file \in Seq(Nat)
  BY ConcatProperties DEF RecorderTypes, WriterRecord
<1>2. Taken \in Seq(Nat)
  BY <1>1, ConcatProperties DEF Taken
<1>3. Whole \in Seq(Nat)
  BY <1>2, ConcatProperties DEF Whole, RecorderTypes
<1> QED
  BY <1>1, <1>2, <1>3

LEMMA RecorderInitHolds == RecorderInit => RecorderInv
<1> SUFFICES ASSUME RecorderInit PROVE RecorderInv
  OBVIOUS
<1>1. <<>> \in Seq(Nat) /\ Len(<<>>) = 0
  OBVIOUS
<1>2. RecorderTypes
  BY <1>1, Idle, QueueAssumption, FileAssumption DEF RecorderInit, RecorderTypes
<1>3. writer.phase = "idle" /\ writer.batch = <<>> /\ ~writer.stopping /\ closing = "no"
  BY Idle DEF RecorderInit
<1>4. Whole = accepted
  <2>1. archive \o file = <<>>
    BY <1>1, ConcatEmptySeq DEF RecorderInit
  <2> QED
    BY <1>1, <1>3, <2>1, ConcatEmptySeq DEF RecorderInit, Whole, Taken
<1>5. Recorded
  BY <1>3, <1>4 DEF Recorded, Ended
<1> QED
  BY <1>2, <1>3, <1>5 DEF RecorderInv

LEMMA RecordKeeps ==
  ASSUME RecorderInv, Record
  PROVE  RecorderInv'
<1>1. /\ closing = "no" /\ events < MaxEvent /\ events' = events + 1
      /\ UNCHANGED <<writer, file, archive, closing>>
  BY DEF Record
<1>2. events' \in 0..MaxEvent /\ events' \in Nat /\ events \in Nat
  BY <1>1, FileAssumption DEF RecorderInv, RecorderTypes
<1>3. CASE UNCHANGED <<queue, accepted>>
  <2>1. RecorderTypes'
    BY <1>1, <1>2, <1>3 DEF RecorderInv, RecorderTypes
  <2>2. Recorded' = Recorded
    BY <1>1, <1>3 DEF Recorded, Whole, Taken, Ended
  <2> QED
    BY <1>1, <2>1, <2>2 DEF RecorderInv
<1>4. CASE /\ Len(queue) < QueueSize
           /\ queue' = Append(queue, events') /\ accepted' = Append(accepted, events')
  <2>1. /\ queue \in Seq(Nat) /\ accepted \in Seq(Nat)
        /\ Len(queue) \in Nat /\ Len(accepted) \in Nat
    BY LenProperties DEF RecorderInv, RecorderTypes
  <2>2. /\ queue' \in Seq(Nat) /\ Len(queue') = Len(queue) + 1
        /\ accepted' \in Seq(Nat) /\ Len(accepted') = Len(accepted) + 1
        /\ \A i \in 1..Len(accepted) : accepted'[i] = accepted[i]
        /\ accepted'[Len(accepted) + 1] = events'
    BY <1>2, <1>4, <2>1, AppendProperties
  <2>3. \A i \in 1..Len(accepted') : accepted'[i] \in 1..events'
    <3> SUFFICES ASSUME NEW i \in 1..Len(accepted')
                 PROVE  accepted'[i] \in 1..events'
      OBVIOUS
    <3>1. CASE i \in 1..Len(accepted)
      <4>1. accepted[i] \in 1..events
        BY <3>1 DEF RecorderInv, RecorderTypes
      <4> QED
        BY <1>1, <1>2, <2>2, <3>1, <4>1
    <3>2. CASE i \notin 1..Len(accepted)
      <4>1. i = Len(accepted) + 1
        BY <2>1, <2>2, <3>2
      <4> QED
        BY <1>1, <1>2, <2>2, <4>1
    <3> QED
      BY <3>1, <3>2
  <2>4. Len(queue') =< QueueSize
    BY <1>4, <2>1, <2>2, QueueAssumption
  <2>5. RecorderTypes'
    BY <1>1, <1>2, <2>2, <2>3, <2>4 DEF RecorderInv, RecorderTypes
  <2>6. ASSUME writer.phase # "dead" PROVE Recorded'
    <3>1. Recorded /\ ~Ended /\ Whole = accepted
      BY <1>1, <2>6 DEF RecorderInv, Recorded
    <3>2. Taken' = Taken /\ ~Ended'
      BY <1>1, <3>1 DEF Taken, Ended
    <3>3. Whole' = Append(Whole, events')
      <4>1. Taken \in Seq(Nat)
        BY TakenIsSeq DEF RecorderInv
      <4>2. Whole' = Taken \o Append(queue, events')
        BY <1>4, <3>2 DEF Whole
      <4> QED
        BY <1>2, <2>1, <4>1, <4>2, AppendBehind DEF Whole
    <3>4. Whole' = accepted'
      BY <1>4, <3>1, <3>3
    <3> QED
      BY <1>1, <3>1, <3>2, <3>4 DEF Recorded
  <2> QED
    BY <1>1, <2>5, <2>6 DEF RecorderInv
<1> QED
  BY <1>3, <1>4 DEF Record

\* The first of the queue goes to the end of the batch.
LEMMA Takes ==
  ASSUME RecorderInv, writer.phase \in {"idle", "filling"}, queue # <<>>,
         queue' = Tail(queue), UNCHANGED <<events, file, archive, accepted, closing>>
  PROVE  /\ queue' \in Seq(Nat) /\ Len(queue') =< QueueSize
         /\ Head(queue) \in Nat /\ ~Ended
         /\ Head(queue) = Sentinel =>
              queue' = <<>> /\ Taken = accepted /\ closing = "joining"
         /\ Head(queue) # Sentinel =>
              \A b \in Seq(Nat) : b = Append(writer.batch, Head(queue)) =>
                (((archive \o file) \o b) \o queue') = Whole
<1>1. Recorded /\ ~Ended
  BY DEF RecorderInv, Recorded, Ended
<1>2. /\ queue \in Seq(Nat) /\ accepted \in Seq(Nat) /\ writer.batch \in Seq(Nat)
      /\ Taken \in Seq(Nat) /\ archive \o file \in Seq(Nat) /\ Len(queue) \in Nat
      /\ \A i \in 1..Len(accepted) : accepted[i] # 0
  BY TakenIsSeq, LenProperties DEF RecorderInv, RecorderTypes
<1>3. /\ queue' \in Seq(Nat) /\ Len(queue') =< Len(queue) /\ Len(queue') \in Nat
      /\ Head(queue) \in Nat
      /\ (Taken \o <<Head(queue)>>) \o queue' = Taken \o queue
  BY <1>2, Shift, LenProperties
<1>4. Len(queue') =< QueueSize
  BY <1>2, <1>3, QueueAssumption DEF RecorderInv, RecorderTypes
<1>5. ASSUME Head(queue) = Sentinel
      PROVE  queue' = <<>> /\ Taken = accepted /\ closing = "joining"
  <2>1. /\ Taken \o queue # accepted
        /\ Taken \o queue = Append(accepted, 0) => queue' = <<>> /\ Taken = accepted
    <3>1. Head(queue) = 0
      BY <1>5 DEF Sentinel
    <3>2. /\ Taken \o queue # accepted
          /\ Taken \o queue = Append(accepted, 0) => Tail(queue) = <<>> /\ Taken = accepted
      <4>1. /\ Taken \in Seq(Nat) /\ queue \in Seq(Nat) /\ accepted \in Seq(Nat)
            /\ queue # <<>>
        BY <1>2
      <4>2. \A i \in 1..Len(accepted) : accepted[i] # 0
        BY <1>2
      <4> QED
        BY ONLY <3>1, <4>1, <4>2, SentinelLast, ZenonT(60)
    <3> QED
      BY <3>2
  <2> QED
    BY <1>1, <2>1 DEF Recorded, Whole, Sentinel
<1>6. ASSUME NEW b \in Seq(Nat), b = Append(writer.batch, Head(queue))
      PROVE  ((archive \o file) \o b) \o queue' = Whole
  <2>1. (archive \o file) \o b = Append(Taken, Head(queue))
    BY <1>2, <1>3, <1>6, AppendBehind DEF Taken
  <2>2. Append(Taken, Head(queue)) = Taken \o <<Head(queue)>>
    BY <1>2, <1>3, AppendIsConcat
  <2> QED
    BY <1>3, <2>1, <2>2 DEF Whole
<1> QED
  BY <1>1, <1>3, <1>4, <1>5, <1>6

\* The sentinel ends the task, which has written everything, or its last batch.
LEMMA TaskEnds ==
  ASSUME RecorderInv, RecorderTypes', Taken' = accepted, Ended', queue' = <<>>,
         closing = "joining", UNCHANGED <<closing, accepted>>,
         writer'.phase \in {"writing", "done"},
         writer'.phase = "done" => writer'.batch = <<>>,
         writer'.stopping => writer'.phase = "writing"
  PROVE  RecorderInv'
<1>1. Whole' = accepted'
  <2>1. Taken' \in Seq(Nat)
    BY DEF RecorderInv, RecorderTypes
  <2> QED
    BY <2>1, ConcatEmptySeq DEF Whole
<1>2. Recorded'
  BY <1>1 DEF Recorded
<1> QED
  BY <1>2 DEF RecorderInv

LEMMA FirstKeeps ==
  ASSUME RecorderInv, First
  PROVE  RecorderInv'
<1> DEFINE e == Head(queue)
           n == Limit(Len(queue) - 1)
<1>1. /\ writer = Waiting /\ queue # <<>> /\ queue' = Tail(queue)
      /\ writer' = IF e = Sentinel THEN [Waiting EXCEPT !.phase = "done"]
                   ELSE [Waiting EXCEPT !.phase = "filling", !.batch = <<e>>, !.limit = n]
      /\ UNCHANGED <<events, file, archive, accepted, closing>>
  BY DEF First
<1>2. /\ writer.phase = "idle" /\ writer.batch = <<>> /\ ~writer.stopping
  BY <1>1, Idle
<1>3. /\ queue' \in Seq(Nat) /\ Len(queue') =< QueueSize /\ e \in Nat /\ ~Ended
      /\ e = Sentinel => queue' = <<>> /\ Taken = accepted /\ closing = "joining"
      /\ e # Sentinel =>
           \A b \in Seq(Nat) : b = Append(writer.batch, e) =>
             (((archive \o file) \o b) \o queue') = Whole
  BY <1>1, <1>2, Takes
<1> HIDE DEF e
<1>4. CASE e = Sentinel
  <2>1. /\ writer' \in WriterRecord /\ writer'.phase = "done"
        /\ writer'.batch = <<>> /\ writer'.stopping = FALSE
    BY <1>1, <1>4, Idle
  <2>2. RecorderTypes'
    BY <1>1, <1>3, <2>1 DEF RecorderInv, RecorderTypes
  <2>3. Taken' = accepted
    BY <1>1, <1>2, <1>3, <1>4, <2>1 DEF Taken
  <2>4. Ended'
    BY <2>1 DEF Ended
  <2> QED
    BY <1>1, <1>3, <1>4, <2>1, <2>2, <2>3, <2>4, TaskEnds
<1>5. CASE e # Sentinel
  <2>1. n \in 0..(20 * BatchSize)
    <3>1. Len(queue) \in Nat \ {0}
      BY <1>1, EmptySeq DEF RecorderInv, RecorderTypes
    <3> QED
      BY <3>1, QueueAssumption DEF Limit
  <2> HIDE DEF n
  <2>2. writer' = [Waiting EXCEPT !.phase = "filling", !.batch = <<e>>, !.limit = n]
    BY <1>1, <1>5
  <2>3. <<e>> \in Seq(Nat) /\ <<e>> = Append(<<>>, e)
    BY <1>3
  <2>4. /\ writer' \in WriterRecord /\ writer'.phase = "filling"
        /\ writer'.batch = <<e>> /\ writer'.stopping = FALSE
    BY <2>1, <2>2, <2>3, Idle DEF WriterRecord
  <2>5. RecorderTypes'
    BY <1>1, <1>3, <2>4 DEF RecorderInv, RecorderTypes
  <2>6. Whole' = Whole
    BY <1>1, <1>2, <1>3, <1>5, <2>3, <2>4 DEF Whole, Taken
  <2>7. Recorded'
    BY <1>1, <1>2, <1>3, <2>4, <2>6 DEF RecorderInv, Recorded, Ended
  <2> QED
    BY <2>4, <2>5, <2>7 DEF RecorderInv
<1> QED
  BY <1>4, <1>5

LEMMA MoreKeeps ==
  ASSUME RecorderInv, More
  PROVE  RecorderInv'
<1> DEFINE e == Head(queue)
<1>1. /\ writer.phase = "filling" /\ queue # <<>> /\ queue' = Tail(queue)
      /\ writer' = IF e = Sentinel THEN EndsBatch
                   ELSE [writer EXCEPT !.batch = Append(writer.batch, e)]
      /\ UNCHANGED <<events, file, archive, accepted, closing>>
  BY DEF More
<1>2. writer \in WriterRecord /\ writer.batch \in Seq(Nat) /\ Recorded
  BY <1>1, TakenIsSeq DEF RecorderInv, RecorderTypes
<1>3. /\ queue' \in Seq(Nat) /\ Len(queue') =< QueueSize /\ e \in Nat /\ ~Ended
      /\ e = Sentinel => queue' = <<>> /\ Taken = accepted /\ closing = "joining"
      /\ e # Sentinel =>
           \A b \in Seq(Nat) : b = Append(writer.batch, e) =>
             (((archive \o file) \o b) \o queue') = Whole
  BY <1>1, Takes
<1> HIDE DEF e
<1>4. CASE e = Sentinel
  <2>1. writer' = [writer EXCEPT !.phase = "writing", !.stopping = TRUE]
    BY <1>1, <1>4 DEF EndsBatch
  <2>2. /\ writer' \in WriterRecord /\ writer'.phase = "writing"
        /\ writer'.batch = writer.batch /\ writer'.stopping = TRUE
    BY <1>2, <2>1 DEF WriterRecord
  <2>3. RecorderTypes'
    BY <1>1, <1>3, <2>2 DEF RecorderInv, RecorderTypes
  <2>4. Taken' = accepted
    BY <1>1, <1>3, <1>4, <2>2 DEF Taken
  <2>5. Ended'
    BY <2>2 DEF Ended
  <2> QED
    BY <1>1, <1>3, <1>4, <2>2, <2>3, <2>4, <2>5, TaskEnds
<1>5. CASE e # Sentinel
  <2> DEFINE b == Append(writer.batch, e)
  <2>1. b \in Seq(Nat)
    BY <1>2, <1>3
  <2> HIDE DEF b
  <2>2. writer' = [writer EXCEPT !.batch = b]
    BY <1>1, <1>5 DEF b
  <2>3. /\ writer' \in WriterRecord /\ writer'.phase = "filling"
        /\ writer'.batch = b /\ writer'.stopping = writer.stopping
    BY <1>1, <1>2, <2>1, <2>2 DEF WriterRecord
  <2>4. RecorderTypes'
    BY <1>1, <1>3, <2>3 DEF RecorderInv, RecorderTypes
  <2>5. Whole' = Whole
    <3>1. (((archive \o file) \o b) \o queue') = Whole
      BY <1>3, <1>5, <2>1 DEF b
    <3> QED
      BY <1>1, <2>3, <3>1 DEF Whole, Taken
  <2>6. Recorded'
    BY <1>1, <1>2, <1>3, <2>3, <2>5 DEF Recorded, Ended
  <2> QED
    BY <2>3, <2>4, <2>6 DEF RecorderInv
<1> QED
  BY <1>4, <1>5

LEMMA FullKeeps ==
  ASSUME RecorderInv, Full
  PROVE  RecorderInv'
<1>1. /\ writer.phase = "filling"
      /\ writer' = [writer EXCEPT !.phase = "writing"]
      /\ UNCHANGED <<events, queue, file, archive, accepted, closing>>
  BY DEF Full
<1>2. writer \in WriterRecord /\ Recorded
  BY <1>1 DEF RecorderInv, RecorderTypes
<1>3. /\ writer' \in WriterRecord /\ writer'.phase = "writing"
      /\ writer'.batch = writer.batch /\ writer'.stopping = writer.stopping
  BY <1>1, <1>2 DEF WriterRecord
<1>4. RecorderTypes'
  BY <1>1, <1>3 DEF RecorderInv, RecorderTypes
<1>5. Whole' = Whole
  BY <1>1, <1>3 DEF Whole, Taken
<1>6. Recorded'
  BY <1>1, <1>2, <1>3, <1>5 DEF Recorded, Ended
<1> QED
  BY <1>3, <1>4, <1>6 DEF RecorderInv

\* Rotated or not, what is written comes behind what was.
LEMMA WritesBehind ==
  ASSUME RecorderTypes, NEW s \in Seq(Nat), Written(s)
  PROVE  /\ archive' \in Seq(Nat) /\ file' \in Seq(Nat)
         /\ archive' \o file' = (archive \o file) \o s
<1>1. archive \in Seq(Nat) /\ file \in Seq(Nat) /\ archive \o file \in Seq(Nat)
  BY TakenIsSeq DEF RecorderTypes
<1>2. file \o s \in Seq(Nat)
  BY <1>1, ConcatProperties
<1>3. CASE Rotates
  BY <1>1, <1>3 DEF Written
<1>4. CASE ~Rotates
  <2>1. archive' = archive /\ file' = file \o s
    BY <1>4 DEF Written
  <2>2. (archive \o file) \o s = archive \o (file \o s)
    <3>1. archive \in Seq(Nat) /\ file \in Seq(Nat) /\ s \in Seq(Nat)
      BY <1>1
    <3> QED
      BY ONLY <3>1, ConcatAssociative
  <2> QED
    BY <1>1, <1>2, <2>1, <2>2
<1> QED
  BY <1>3, <1>4

LEMMA WriteBatchKeeps ==
  ASSUME RecorderInv, WriteBatch
  PROVE  RecorderInv'
<1>1. /\ writer.phase = "writing" /\ Written(writer.batch)
      /\ writer' = IF writer.stopping THEN [Waiting EXCEPT !.phase = "done"] ELSE Waiting
      /\ UNCHANGED <<events, queue, accepted, closing>>
  BY DEF WriteBatch
<1>2. RecorderTypes /\ Recorded
  BY <1>1 DEF RecorderInv
<1>3. writer.batch \in Seq(Nat) /\ writer.stopping \in BOOLEAN
  BY <1>2, TakenIsSeq DEF RecorderTypes, WriterRecord
<1>4. /\ archive' \in Seq(Nat) /\ file' \in Seq(Nat)
      /\ archive' \o file' = Taken
  BY <1>1, <1>2, <1>3, WritesBehind DEF Taken
<1>5. /\ writer' \in WriterRecord /\ writer'.batch = <<>> /\ writer'.stopping = FALSE
      /\ writer'.phase = IF writer.stopping THEN "done" ELSE "idle"
  BY <1>1, <1>3, Idle
<1>6. RecorderTypes'
  BY <1>1, <1>2, <1>4, <1>5 DEF RecorderTypes
<1>7. Taken' = Taken
  BY <1>2, <1>4, <1>5, TakenIsSeq, ConcatEmptySeq DEF Taken
<1>8. Whole' = Whole /\ Ended' = Ended
  BY <1>1, <1>3, <1>5, <1>7 DEF Whole, Ended
<1>9. Recorded'
  BY <1>1, <1>2, <1>5, <1>8 DEF Recorded, Ended
<1> QED
  BY <1>5, <1>6, <1>9 DEF RecorderInv

LEMMA WriteFailsKeeps ==
  ASSUME RecorderInv, WriteFails
  PROVE  RecorderInv'
<1>1. /\ writer.phase = "writing" /\ writer' = [writer EXCEPT !.phase = "dead"]
      /\ UNCHANGED <<events, queue, accepted, closing>>
  BY DEF WriteFails
<1>2. RecorderTypes /\ Recorded
  BY <1>1 DEF RecorderInv
<1>3. writer.batch \in Seq(Nat) /\ Len(writer.batch) \in Nat
  BY <1>2, TakenIsSeq, LenProperties
<1>4. archive' \in Seq(Nat) /\ file' \in Seq(Nat)
  <2>1. CASE UNCHANGED <<archive, file>>
    BY <1>2, <2>1 DEF RecorderTypes
  <2>2. CASE \E n \in 0..(Len(writer.batch) - 1) : Written(SubSeq(writer.batch, 1, n))
    <3>1. PICK n \in 0..(Len(writer.batch) - 1) : Written(SubSeq(writer.batch, 1, n))
      BY <2>2
    <3>2. \A i \in 1..n : writer.batch[i] \in Nat
      BY <1>3, ElementOfSeq
    <3>3. SubSeq(writer.batch, 1, n) \in Seq(Nat)
      BY <3>2, SubSeqProperties
    <3> QED
      BY <1>2, <3>1, <3>3, WritesBehind
  <2> QED
    BY <2>1, <2>2 DEF WriteFails
<1>5. writer' \in WriterRecord /\ writer'.phase = "dead"
  BY <1>1, <1>2 DEF RecorderTypes, WriterRecord
<1>6. RecorderTypes'
  BY <1>1, <1>2, <1>4, <1>5 DEF RecorderTypes
<1>7. closing # "closed"
  BY <1>1, <1>2 DEF Recorded
<1> QED
  BY <1>1, <1>5, <1>6, <1>7 DEF RecorderInv

LEMMA CloseRecorderKeeps ==
  ASSUME RecorderInv, CloseRecorder
  PROVE  RecorderInv'
<1>1. /\ closing = "no" /\ closing' = "putting"
      /\ UNCHANGED <<events, queue, writer, file, archive, accepted>>
  BY DEF CloseRecorder
<1>2. RecorderTypes'
  BY <1>1 DEF RecorderInv, RecorderTypes
<1>3. Recorded => Recorded'
  BY <1>1 DEF Recorded, Whole, Taken, Ended
<1> QED
  BY <1>1, <1>2, <1>3 DEF RecorderInv

LEMMA PutSentinelKeeps ==
  ASSUME RecorderInv, PutSentinel
  PROVE  RecorderInv'
<1>1. /\ closing = "putting" /\ Len(queue) < QueueSize
      /\ queue' = Append(queue, Sentinel) /\ closing' = "joining"
      /\ UNCHANGED <<events, writer, file, archive, accepted>>
  BY DEF PutSentinel
<1>2. /\ queue \in Seq(Nat) /\ Len(queue) \in Nat /\ Sentinel \in Nat
      /\ Taken \in Seq(Nat)
  BY TakenIsSeq, LenProperties DEF RecorderInv, RecorderTypes, Sentinel
<1>3. queue' \in Seq(Nat) /\ Len(queue') =< QueueSize
  BY <1>1, <1>2, AppendProperties, QueueAssumption
<1>4. RecorderTypes'
  BY <1>1, <1>3 DEF RecorderInv, RecorderTypes
<1>5. ASSUME writer.phase # "dead" PROVE Recorded'
  <2>1. Recorded /\ ~Ended /\ Whole = accepted
    BY <1>1, <1>5 DEF RecorderInv, Recorded
  <2>2. Taken' = Taken /\ ~Ended'
    BY <1>1, <2>1 DEF Taken, Ended
  <2>3. Whole' = Append(accepted', Sentinel)
    BY <1>1, <1>2, <2>1, <2>2, AppendBehind DEF Whole
  <2> QED
    BY <1>1, <2>1, <2>2, <2>3 DEF Recorded
<1> QED
  BY <1>1, <1>4, <1>5 DEF RecorderInv

LEMMA JoinKeeps ==
  ASSUME RecorderInv, Join
  PROVE  RecorderInv'
<1>1. /\ closing = "joining" /\ writer.phase = "done" /\ closing' = "closed"
      /\ UNCHANGED <<events, queue, writer, file, archive, accepted>>
  BY DEF Join
<1>2. RecorderTypes'
  BY <1>1 DEF RecorderInv, RecorderTypes
<1>3. Recorded'
  BY <1>1 DEF RecorderInv, Recorded, Whole, Taken, Ended
<1> QED
  BY <1>1, <1>2, <1>3 DEF RecorderInv

LEMMA RecorderKeeps == RecorderInv /\ RecorderNext => RecorderInv'
BY RecordKeeps, FirstKeeps, MoreKeeps, FullKeeps, WriteBatchKeeps, WriteFailsKeeps,
   CloseRecorderKeeps, PutSentinelKeeps, JoinKeeps
DEF RecorderNext

LEMMA RecorderStays == RecorderInv /\ UNCHANGED recorderVars => RecorderInv'
BY DEF RecorderInv, RecorderTypes, Recorded, Whole, Taken, Ended, recorderVars

LEMMA RecorderShows == RecorderInv => RecordingWhole /\ RecorderTypeOK
<1> SUFFICES ASSUME RecorderInv PROVE RecordingWhole /\ RecorderTypeOK
  OBVIOUS
<1>1. RecordingWhole
  <2>1. writer.phase # "dead" => Whole \in {accepted, Append(accepted, Sentinel)}
    BY DEF RecorderInv, Recorded
  <2>2. ASSUME closing = "closed" PROVE archive \o file = accepted
    <3>1. Recorded /\ writer.batch = <<>> /\ queue = <<>> /\ Whole = accepted
      BY <2>2 DEF RecorderInv, Recorded, Ended
    <3>2. archive \o file \in Seq(Nat)
      BY TakenIsSeq DEF RecorderInv
    <3>3. Whole = archive \o file
      BY <3>1, <3>2, ConcatEmptySeq DEF Whole, Taken
    <3> QED
      BY <3>1, <3>3
  <2> QED
    BY <2>1, <2>2 DEF RecordingWhole, Whole, Taken
<1>2. RecorderTypeOK
  <2>1. ToSet(accepted) \subseteq 1..events
    <3>1. DOMAIN accepted = 1..Len(accepted)
      BY LenProperties DEF RecorderInv, RecorderTypes
    <3> QED
      BY <3>1 DEF RecorderInv, RecorderTypes, ToSet
  <2> QED
    BY <2>1 DEF RecorderInv, RecorderTypes, RecorderTypeOK, WriterRecord
<1> QED
  BY <1>1, <1>2

-----------------------------------------------------------------------------
(* The runtimes of the monitor: what their variables hold.                 *)

ProcRecord ==
  [phase: {"idle", "read", "ensure", "warm", "wait"},
   goal: {"sync", "activate", "analyze"}, todo: SUBSET Symbol,
   want: SUBSET Symbol, at: SUBSET Symbol, on: SUBSET Proc]

LEMMA Resting == Rest \in ProcRecord
BY DEF Rest, ProcRecord

LEMMA ResumedTyped ==
  ASSUME NEW l \in ProcRecord, NEW ok
  PROVE  Resumed(l, ok) \in ProcRecord
<1>1. [l EXCEPT !.phase = "ensure", !.todo = l.todo \ l.at, !.at = {}, !.on = {}]
        \in ProcRecord
  BY DEF ProcRecord
<1> QED
  BY <1>1, Resting DEF Resumed

LEMMA RuntimeInitHolds == RuntimeInit => RuntimeTypeOK
<1> SUFFICES ASSUME RuntimeInit PROVE RuntimeTypeOK
  OBVIOUS
<1>1. proc \in [Proc -> ProcRecord]
  BY Resting DEF RuntimeInit
<1>2. 0 \in 0..MaxCall /\ 0 \in 0..MaxBreak
  BY CallAssumption
<1> QED
  BY <1>1, <1>2 DEF RuntimeInit, RuntimeTypeOK, ProcRecord, Down

Route ==
  [link: {"down", "up", "closed"}, changed: BOOLEAN, subscribed: SUBSET Symbol]

LEMMA SubscribedTyped ==
  ASSUME RuntimeTypeOK, NEW set \in SUBSET Symbol, SetSymbols(set)
  PROVE  /\ desired' \subseteq Symbol
         /\ route' \in Route
<1>1. route' = [route EXCEPT !.changed = route.changed \/ set # desired]
  BY DEF SetSymbols
<1>2. (route.changed \/ set # desired) \in BOOLEAN
  BY DEF RuntimeTypeOK
<1> QED
  BY <1>1, <1>2 DEF SetSymbols, RuntimeTypeOK, Route

LEMMA EnsureTyped ==
  ASSUME RuntimeTypeOK, NEW p \in Proc, NEW s \in Symbol, Ensure(p, s)
  PROVE  RuntimeTypeOK'
<1> DEFINE l == [proc[p] EXCEPT !.at = {s}]
<1>1. UNCHANGED <<wanted, desired, route, calls, breaks>>
  BY DEF Ensure
<1>2. l \in ProcRecord
  BY DEF RuntimeTypeOK, ProcRecord
<1>3. proc \in [Proc -> ProcRecord] /\ runtime \in [Symbol -> Proc \cup {"none", "ready"}]
  BY DEF RuntimeTypeOK, ProcRecord
<1>4. /\ [l EXCEPT !.phase = "warm"] \in ProcRecord
      /\ \A q \in Proc : [l EXCEPT !.phase = "wait", !.on = {q}] \in ProcRecord
  <2> HIDE DEF l
  <2> QED
    BY <1>2 DEF ProcRecord
<1>5. Resumed(l, runtime[s] = "ready") \in ProcRecord
  BY <1>2, ResumedTyped
<1>6. CASE runtime[s] = "none" /\ Cardinality(Running) < MaxSymbol
  <2>1. /\ runtime' = [runtime EXCEPT ![s] = p]
        /\ proc' = [proc EXCEPT ![p] = [l EXCEPT !.phase = "warm"]]
    BY <1>6 DEF Ensure
  <2> HIDE DEF l
  <2>2. /\ runtime' \in [Symbol -> Proc \cup {"none", "ready"}]
        /\ proc' \in [Proc -> ProcRecord]
    BY <1>3, <1>4, <2>1
  <2> QED
    BY <1>1, <2>2 DEF RuntimeTypeOK, ProcRecord
<1>7. CASE ~(runtime[s] = "none" /\ Cardinality(Running) < MaxSymbol)
  <2>1. PICK x \in ProcRecord : proc' = [proc EXCEPT ![p] = x]
    <3>1. proc' = [proc EXCEPT ![p] =
                    IF runtime[s] \in Proc
                    THEN [l EXCEPT !.phase = "wait", !.on = {runtime[s]}]
                    ELSE Resumed(l, runtime[s] = "ready")]
      BY <1>7 DEF Ensure
    <3> HIDE DEF l
    <3> QED
      BY <1>4, <1>5, <3>1
  <2>2. proc' \in [Proc -> ProcRecord] /\ UNCHANGED runtime
    BY <1>3, <1>7, <2>1 DEF Ensure
  <2> QED
    BY <1>1, <2>2 DEF RuntimeTypeOK, ProcRecord
<1> QED
  BY <1>6, <1>7

LEMMA ReadyTyped ==
  ASSUME RuntimeTypeOK, NEW p \in Proc, NEW ok, proc' = SetReady(p, ok)
  PROVE  proc' \in [Proc -> ProcRecord]
<1>1. \A q \in Proc : proc[q] \in ProcRecord
  BY DEF RuntimeTypeOK, ProcRecord
<1>2. \A q \in Proc : Resumed(proc[q], ok) \in ProcRecord
  BY <1>1, ResumedTyped
<1> QED
  BY <1>1, <1>2 DEF SetReady

LEMMA RuntimeTyped == RuntimeTypeOK /\ RuntimeNext => RuntimeTypeOK'
<1> SUFFICES ASSUME RuntimeTypeOK, RuntimeNext PROVE RuntimeTypeOK'
  OBVIOUS
<1>1. /\ wanted \subseteq Symbol /\ desired \subseteq Symbol
      /\ runtime \in [Symbol -> Proc \cup {"none", "ready"}]
      /\ proc \in [Proc -> ProcRecord] /\ route \in Route
      /\ calls \in 0..MaxCall /\ breaks \in 0..MaxBreak
  BY DEF RuntimeTypeOK, ProcRecord, Route
<1>2. ASSUME /\ wanted' \subseteq Symbol /\ desired' \subseteq Symbol
             /\ runtime' \in [Symbol -> Proc \cup {"none", "ready"}]
             /\ proc' \in [Proc -> ProcRecord] /\ route' \in Route
             /\ calls' \in 0..MaxCall /\ breaks' \in 0..MaxBreak
      PROVE  RuntimeTypeOK'
  BY <1>2 DEF RuntimeTypeOK, ProcRecord, Route
<1>3. /\ calls < MaxCall => calls + 1 \in 0..MaxCall
      /\ breaks < MaxBreak => breaks + 1 \in 0..MaxBreak
  BY <1>1, CallAssumption
<1>4. ASSUME NEW p \in Proc, NEW goal \in {"sync", "activate", "analyze"},
             NEW set \in SUBSET Symbol, Begun(p, goal, set)
      PROVE  proc' \in [Proc -> ProcRecord]
  <2> DEFINE x(ph) == [Rest EXCEPT !.goal = goal, !.todo = set, !.phase = ph]
  <2>1. x("read") \in ProcRecord /\ x("ensure") \in ProcRecord
    BY Resting DEF ProcRecord
  <2>2. proc' = [proc EXCEPT ![p] = x("read")] \/ proc' = [proc EXCEPT ![p] = x("ensure")]
    BY <1>4 DEF Begun
  <2> HIDE DEF x
  <2> QED
    BY <1>1, <2>1, <2>2
<1>5. ASSUME NEW p \in Callback, NEW s \in Symbol, Ask(p, s) \/ Watch(p, s) \/ Unwatch(p, s)
      PROVE  RuntimeTypeOK'
  <2>1. p \in Proc /\ {s} \in SUBSET Symbol /\ {} \in SUBSET Symbol
    BY DEF Proc
  <2>2. /\ calls' = calls + 1 /\ calls < MaxCall
        /\ wanted' \subseteq wanted \cup {s}
        /\ \/ Begun(p, "analyze", {s}) \/ Begun(p, "activate", {s}) \/ Begun(p, "sync", {})
        /\ UNCHANGED <<runtime, desired, route, breaks>>
    BY <1>5 DEF Ask, Watch, Unwatch
  <2>3. proc' \in [Proc -> ProcRecord]
    BY <1>4, <2>1, <2>2
  <2>4. calls' \in 0..MaxCall /\ wanted' \subseteq Symbol
    BY <1>1, <1>3, <2>2
  <2> QED
    BY <1>1, <1>2, <2>2, <2>3, <2>4
<1>6. ASSUME NEW p \in Proc, ReadWanted(p) PROVE RuntimeTypeOK'
  <2> DEFINE x == [Rest EXCEPT !.phase = "ensure", !.want = Cut(wanted), !.todo = Cut(wanted)]
  <2>1. Cut(wanted) \subseteq Symbol
    BY <1>1 DEF Cut
  <2>2. x \in ProcRecord
    BY <2>1, Resting DEF ProcRecord
  <2>3. proc' = [proc EXCEPT ![p] = x] /\ UNCHANGED <<wanted, runtime, desired, route, calls, breaks>>
    BY <1>6 DEF ReadWanted
  <2> HIDE DEF x
  <2> QED
    BY <1>1, <1>2, <2>2, <2>3
<1>7. ASSUME NEW p \in Proc, Ensuring(p) PROVE RuntimeTypeOK'
  BY <1>7, EnsureTyped DEF Ensuring
<1>8. ASSUME NEW p \in Proc, Warmed(p) PROVE RuntimeTypeOK'
  <2>1. proc' \in [Proc -> ProcRecord]
    BY <1>8, ReadyTyped DEF Warmed
  <2>2. Running \in SUBSET Symbol /\ SetSymbols(Running)
    BY <1>8 DEF Running, Warmed
  <2>3. desired' \subseteq Symbol /\ route' \in Route
    BY <2>2, SubscribedTyped
  <2>4. /\ runtime' = [s \in Symbol |-> IF runtime[s] = p THEN "ready" ELSE runtime[s]]
        /\ UNCHANGED <<wanted, calls, breaks>>
    BY <1>8 DEF Warmed
  <2> QED
    BY <1>1, <1>2, <2>1, <2>3, <2>4
<1>9. ASSUME NEW p \in Proc, WarmupFails(p) PROVE RuntimeTypeOK'
  <2>1. proc' \in [Proc -> ProcRecord]
    BY <1>9, ReadyTyped DEF WarmupFails
  <2>2. PICK s \in proc[p].at : runtime' = [runtime EXCEPT ![s] = "none"]
    BY <1>9 DEF WarmupFails, PopFailed
  <2>3. breaks' \in 0..MaxBreak /\ UNCHANGED <<wanted, desired, route, calls>>
    BY <1>3, <1>9 DEF WarmupFails
  <2> QED
    BY <1>1, <1>2, <2>1, <2>2, <2>3
<1>10. ASSUME NEW p \in Proc, Ensured(p) PROVE RuntimeTypeOK'
  <2>1. [Rest EXCEPT !.phase = "read"] \in ProcRecord
    BY Resting DEF ProcRecord
  <2>2. PICK x \in ProcRecord : proc' = [proc EXCEPT ![p] = x]
    BY <1>10, <2>1, Resting DEF Ensured
  <2>3. UNCHANGED <<wanted, runtime, desired, route, calls, breaks>>
    BY <1>10 DEF Ensured
  <2> QED
    BY <1>1, <1>2, <2>2, <2>3
<1>11. ASSUME NEW p \in Proc, Settle(p) PROVE RuntimeTypeOK'
  <2>1. proc[p].want \in SUBSET Symbol
    BY <1>1 DEF ProcRecord
  <2>2. /\ runtime' = DropOthers(proc[p].want) /\ SetSymbols(proc[p].want)
        /\ proc' = [proc EXCEPT ![p] = Rest] /\ UNCHANGED <<wanted, calls, breaks>>
    BY <1>11 DEF Settle
  <2>3. desired' \subseteq Symbol /\ route' \in Route
    BY <2>1, <2>2, SubscribedTyped
  <2>4. runtime' \in [Symbol -> Proc \cup {"none", "ready"}]
    BY <1>1, <2>2 DEF DropOthers
  <2> QED
    BY <1>1, <1>2, <2>2, <2>3, <2>4, Resting
<1>12. ASSUME Connecting \/ Lose \/ Close PROVE RuntimeTypeOK'
  <2>1. UNCHANGED <<wanted, runtime, proc, desired, calls>>
    BY <1>12 DEF Connecting, Dial, Subscribe, SubscribeClosed, Lose, Close
  <2>2. breaks' \in 0..MaxBreak
    BY <1>1, <1>3, <1>12
    DEF Connecting, Dial, Subscribe, SubscribeClosed, Lose, Close
  <2>3. Down(TRUE) \in Route /\ Down(FALSE) \in Route /\ Down(route.changed) \in Route
    BY <1>1 DEF Down, Route
  <2>4. route' \in Route
    <3>1. CASE Dial
      BY <2>3, <3>1 DEF Dial, Route
    <3>2. CASE Subscribe
      BY <1>1, <3>2 DEF Subscribe, Route
    <3>3. CASE SubscribeClosed
      BY <1>1, <2>3, <3>3 DEF SubscribeClosed, Route
    <3>4. CASE Lose
      BY <2>3, <3>4 DEF Lose
    <3>5. CASE Close
      BY <1>1, <3>5 DEF Close, Route
    <3> QED
      BY <1>12, <3>1, <3>2, <3>3, <3>4, <3>5 DEF Connecting
  <2> QED
    BY <1>1, <1>2, <2>1, <2>2, <2>4
<1> QED
  BY <1>5, <1>6, <1>7, <1>8, <1>9, <1>10, <1>11, <1>12 DEF RuntimeNext, Passing

LEMMA RuntimeStays == RuntimeTypeOK /\ UNCHANGED runtimeVars => RuntimeTypeOK'
BY DEF RuntimeTypeOK, runtimeVars

-----------------------------------------------------------------------------
(* The samples: what their variables hold.                                 *)

SampleRecord == [row: BOOLEAN, since: 0..1, evaluated: BOOLEAN]

PassRecord ==
  [left: SUBSET Signal, age: [Signal -> -1..(Hour + 1)], ticks: 0..1]

OutcomeInv ==
  /\ age \in [Signal -> -1..(Hour + 1)]
  /\ sample \in [Signal -> SampleRecord]
  /\ pass \in PassRecord
  /\ refusals \in 0..MaxRefusal

LEMMA Passless == NoPass \in PassRecord
<1>1. 0 \in -1..(Hour + 1)
  BY HourAssumption
<1> QED
  BY <1>1 DEF NoPass, PassRecord

LEMMA OutcomeInitHolds == OutcomeInit => OutcomeInv
<1> SUFFICES ASSUME OutcomeInit PROVE OutcomeInv
  OBVIOUS
<1>1. -1 \in -1..(Hour + 1) /\ 0 \in 0..MaxRefusal
  BY HourAssumption
<1> QED
  BY <1>1, Passless DEF OutcomeInit, OutcomeInv, NoSample, SampleRecord

LEMMA LaterTyped ==
  /\ \A n \in 0..1 : Later(n, 1) \in 0..1
  /\ \A n \in -1..(Hour + 1) : Later(n, Hour + 1) \in -1..(Hour + 1)
<1>1. Hour \in Nat
  BY HourAssumption
<1> QED
  BY <1>1 DEF Later

LEMMA PassTimeTyped == OutcomeInv /\ PassTime => OutcomeInv'
<1> SUFFICES ASSUME OutcomeInv, PassTime PROVE OutcomeInv'
  OBVIOUS
<1>1. age' \in [Signal -> -1..(Hour + 1)]
  <2>1. -1 \in -1..(Hour + 1)
    BY HourAssumption
  <2>2. \A s \in Signal : Later(age[s], Hour + 1) \in -1..(Hour + 1)
    BY LaterTyped DEF OutcomeInv
  <2> QED
    BY <2>1, <2>2 DEF PassTime
<1>2. sample' \in [Signal -> SampleRecord]
  <2>1. \A s \in Signal : sample[s] \in SampleRecord
    BY DEF OutcomeInv
  <2>2. \A s \in Signal :
          [sample[s] EXCEPT !.since = Later(sample[s].since, 1)] \in SampleRecord
    BY <2>1, LaterTyped DEF SampleRecord
  <2> QED
    BY <2>1, <2>2 DEF PassTime
<1>3. pass' \in PassRecord
  <2>1. [pass EXCEPT !.ticks = Later(pass.ticks, 1)] \in PassRecord
    BY LaterTyped DEF OutcomeInv, PassRecord
  <2> QED
    BY <2>1 DEF PassTime, OutcomeInv
<1> QED
  BY <1>1, <1>2, <1>3 DEF OutcomeInv, PassTime

LEMMA OutcomeTyped == OutcomeInv /\ OutcomeNext => OutcomeInv'
<1> SUFFICES ASSUME OutcomeInv, OutcomeNext PROVE OutcomeInv'
  OBVIOUS
<1>1. ASSUME NEW x, pass' = IF Cardinality(pass.left) = 1 THEN NoPass
                            ELSE [pass EXCEPT !.left = pass.left \ {x}]
      PROVE  pass' \in PassRecord
  <2>1. [pass EXCEPT !.left = pass.left \ {x}] \in PassRecord
    BY DEF OutcomeInv, PassRecord
  <2> QED
    BY <1>1, <2>1, Passless
<1>2. refusals < MaxRefusal => refusals + 1 \in 0..MaxRefusal
  BY HourAssumption DEF OutcomeInv
<1>3. CASE Select
  <2> DEFINE due == Oldest({s \in Signal : Due(s)})
  <2>1. due \subseteq Signal
    BY DEF Oldest
  <2>2. pass' = [left |-> due, age |-> age, ticks |-> 0]
    BY <1>3 DEF Select
  <2> HIDE DEF due
  <2>3. pass' \in PassRecord
    BY <2>1, <2>2 DEF OutcomeInv, PassRecord
  <2> QED
    BY <1>3, <2>3 DEF Select, OutcomeInv
<1>4. CASE Sample
  <2> DEFINE s == Min(pass.left)
             x == [row |-> TRUE, since |-> pass.ticks,
                   evaluated |-> sample[s].evaluated \/ Final(pass.age[s])]
  <2>1. /\ sample' = [sample EXCEPT ![s] = x]
        /\ pass' = IF Cardinality(pass.left) = 1 THEN NoPass
                   ELSE [pass EXCEPT !.left = pass.left \ {s}]
        /\ UNCHANGED <<age, refusals>>
    BY <1>4 DEF Sample
  <2>2. x \in SampleRecord
    <3>1. (sample[s].evaluated \/ Final(pass.age[s])) \in BOOLEAN
      OBVIOUS
    <3> QED
      BY <3>1 DEF OutcomeInv, PassRecord, SampleRecord
  <2> HIDE DEF x, s
  <2>3. sample' \in [Signal -> SampleRecord]
    BY <2>1, <2>2 DEF OutcomeInv
  <2>4. pass' \in PassRecord
    BY <1>1, <2>1
  <2> QED
    BY <2>1, <2>3, <2>4 DEF OutcomeInv
<1>5. CASE Nothing
  <2>1. pass' \in PassRecord
    BY <1>1, <1>5 DEF Nothing
  <2> QED
    BY <1>2, <1>5, <2>1 DEF Nothing, OutcomeInv
<1>6. CASE Fails
  BY <1>2, <1>6, Passless DEF Fails, OutcomeInv
<1>7. ASSUME NEW s \in Signal, Announce(s) PROVE OutcomeInv'
  <2>1. 0 \in -1..(Hour + 1)
    BY HourAssumption
  <2> QED
    BY <1>7, <2>1 DEF Announce, OutcomeInv
<1> QED
  BY <1>3, <1>4, <1>5, <1>6, <1>7, PassTimeTyped DEF OutcomeNext

LEMMA OutcomeStays == OutcomeInv /\ UNCHANGED outcomeVars => OutcomeInv'
BY DEF OutcomeInv, outcomeVars

LEMMA OutcomeShows == OutcomeInv => OutcomeTypeOK
BY DEF OutcomeInv, OutcomeTypeOK, SampleRecord, PassRecord

-----------------------------------------------------------------------------
(* All parts together.                                                     *)

IInv ==
  /\ ScenarioInv /\ RuntimeTypeOK /\ OnboardingInv /\ RecorderInv /\ OutcomeInv
  /\ LimiterInv /\ PanelInv

LEMMA InitHolds == Init => IInv
BY ScenarioInitHolds, RuntimeInitHolds, OnboardingInitHolds, RecorderInitHolds,
   OutcomeInitHolds, LimiterInitHolds, PanelInitHolds
DEF Init, IInv

\* Every component is moved by its own next-state relation, or stays.
LEMMA Parts ==
  ASSUME [Next]_vars
  PROVE  /\ [ScenarioNext]_scenarioVars /\ [RuntimeNext]_runtimeVars
         /\ [OnboardingNext]_onboardingVars /\ [RecorderNext]_recorderVars
         /\ [OutcomeNext]_outcomeVars /\ [LimiterNext]_limiterVars
         /\ [PanelNext]_panelVars
BY DEF Next, vars

LEMMA NextKeeps == IInv /\ [Next]_vars => IInv'
<1> SUFFICES ASSUME IInv, [Next]_vars PROVE IInv'
  OBVIOUS
<1>1. ScenarioInv'
  BY Parts, ScenarioKeeps, ScenarioStays DEF IInv
<1>2. RuntimeTypeOK'
  BY Parts, RuntimeTyped, RuntimeStays DEF IInv
<1>3. OnboardingInv'
  BY Parts, OnboardingKeeps, OnboardingStays DEF IInv
<1>4. RecorderInv'
  BY Parts, RecorderKeeps, RecorderStays DEF IInv
<1>5. OutcomeInv'
  BY Parts, OutcomeTyped, OutcomeStays DEF IInv
<1>6. LimiterInv'
  BY Parts, LimiterKeeps, LimiterStays DEF IInv
<1>7. PanelInv'
  BY Parts, PanelKeeps, PanelStays DEF IInv
<1> QED
  BY <1>1, <1>2, <1>3, <1>4, <1>5, <1>6, <1>7 DEF IInv

\* The strengthened invariant of every component holds in every reachable state,
\* whichever part moves.
THEOREM BackgroundInvariance == Spec => []IInv
<1>1. Init => IInv
  BY InitHolds
<1>2. IInv /\ [Next]_vars => IInv'
  BY NextKeeps
<1> QED
  BY <1>1, <1>2, PTL DEF Spec

\* Every variable of the smaller components keeps its type.
THEOREM BackgroundTypes == Spec => []TypeOK
<1>1. IInv => TypeOK
  BY ScenarioShows, OnboardingShows, RecorderShows, OutcomeShows, LimiterShows, PanelShows
  DEF IInv, TypeOK
<1> QED
  BY <1>1, BackgroundInvariance, PTL

\* A user watches one scenario at a time, for any number of scenarios and of
\* callbacks that run at once: activate sweeps, under row locks, all the index
\* would object to (personal_monitor/service.py, models.py).
THEOREM OneWatched == Spec => []OneActive
<1>1. IInv => OneActive
  BY ScenarioShows DEF IInv
<1> QED
  BY <1>1, BackgroundInvariance, PTL

\* No candle is evaluated twice for a scenario: the task of a symbol runs alone,
\* what it read of the last candle stays so until it writes, and no candle is
\* older than the last one (personal_monitor/service.py).
THEOREM CandlesOnce == Spec => []CandleOnce
<1>1. IInv => CandleOnce
  BY ScenarioShows DEF IInv
<1> QED
  BY <1>1, BackgroundInvariance, PTL

\* Only the commit of its user's activation makes a scenario active, though an
\* evaluation writes a row it read long before.
THEOREM OnlyUsersActivate == Spec => NoRevival
<1> DEFINE Step == \A s \in Scenario :
                     ~scenario[s].active /\ scenario'[s].active =>
                       \E h \in Handler :
                         handler[h].op = "activating" /\ handler[h].on = {s}
                           /\ handler'[h] = NoHandler
<1>1. IInv /\ [Next]_vars => [Step]_scenarioVars
  <2> SUFFICES ASSUME IInv, [Next]_vars PROVE [Step]_scenarioVars
    OBVIOUS
  <2>1. CASE ScenarioNext
    BY <2>1, ScenarioKeeps DEF IInv
  <2> QED
    BY <2>1, Parts
<1>2. [][Step]_scenarioVars => NoRevival
  BY PTL DEF NoRevival
<1> QED
  BY <1>1, <1>2, BackgroundInvariance, PTL DEF Spec

\* A code admits no more guests than it counts, and counts no more than it may,
\* however many open it at once (onboarding/invites.py).
THEOREM InvitesCounted == Spec => []InviteCounted
<1>1. IInv => InviteCounted
  BY OnboardingShows DEF IInv
<1> QED
  BY <1>1, BackgroundInvariance, PTL

\* One link stores one account at most, for any number of requests that look at
\* it while Binance is asked (webapp/).
THEOREM LinksOnce == Spec => []OneConnectPerLink
<1>1. IInv => OneConnectPerLink
  BY OnboardingShows DEF IInv
<1> QED
  BY <1>1, BackgroundInvariance, PTL

\* What the queue had room for is in the files, the batch and the queue, in
\* order, for any sizes of them, and in the files after close
\* (replay/recorder.py).
THEOREM RecordingsWhole == Spec => []RecordingWhole
<1>1. IInv => RecordingWhole
  BY RecorderShows DEF IInv
<1> QED
  BY <1>1, BackgroundInvariance, PTL

\* The weight spent in any stretch of time is within the bucket and what the
\* time refills, for any capacity, rate, weights and number of requests
\* (binance/rate_limiter.py).
THEOREM BudgetsKept == Spec => []BudgetKept
<1>1. IInv => BudgetKept
  BY LimiterShows DEF IInv
<1> QED
  BY <1>1, BackgroundInvariance, PTL

\* The message that carries the reply keyboard is never the last one cleaned up,
\* for any number of handlers (telegram/panel.py).
THEOREM KeyboardsStay == Spec => []KeyboardStays
<1>1. IInv => KeyboardStays
  BY PanelShows DEF IInv
<1> QED
  BY <1>1, BackgroundInvariance, PTL

=============================================================================

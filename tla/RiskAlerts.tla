------------------------------ MODULE RiskAlerts ------------------------------
(***************************************************************************)
(* portfolio/risk.py: the monitor that turns what the database says of an  *)
(* account into conditions and conditions into rows of risk_alerts, and    *)
(* the worker that sends those rows.  They share nothing but the table,    *)
(* and both read a row some time before they write it.                     *)
(*                                                                         *)
(* An account has one position; milestones are numbered from 1 up, and roi *)
(* is the number of the highest one reached, negative for a loss.          *)
(***************************************************************************)
EXTENDS Integers, FiniteSets

CONSTANTS
  Account,
  Worlds,       \* what the tables may say of an account, a subset of World
  MaxLevel,     \* how many milestones there are
  MaxRetry,     \* 5: an alert is given up after this many retries
  MaxMove,      \* bound of the model: changes of the world
  MaxFault,     \* bound of the model: failures of Telegram or of a scan
  MaxCrash      \* bound of the model: deaths of the process

Level == 1..MaxLevel

\* What a scan reads of an account.  gone: DISCONNECTED; marked: the live mark
\* is fresh; near: the position is close to liquidation; match, opposite: a
\* WATCH or CONFIRMED signal is about a held asset, or against the position.
World ==
  [status: {"fresh", "stale", "gone"}, open: BOOLEAN, marked: BOOLEAN,
   near: BOOLEAN, roi: -MaxLevel..MaxLevel, match: BOOLEAN, opposite: BOOLEAN]

\* An account that was never connected.
Absent ==
  [status |-> "gone", open |-> FALSE, marked |-> FALSE, near |-> FALSE,
   roi |-> 0, match |-> FALSE, opposite |-> FALSE]

ASSUME AccountAssumption == IsFiniteSet(Account)

ASSUME WorldAssumption == Worlds \subseteq World

ASSUME BoundAssumption ==
  MaxLevel \in Nat /\ MaxRetry \in Nat /\ MaxMove \in Nat /\ MaxFault \in Nat
    /\ MaxCrash \in Nat

\* The dedupe keys; a milestone's key names its side and level.
Standing == [account: Account, kind: {"stale", "margin", "match", "opposite"}]

Milestone == [account: Account, kind: {"profit", "loss"}, level: Level]

Key == Standing \cup Milestone

Alert ==
  [status: {"NONE", "PENDING", "PROCESSING", "SENT", "FAILED", "RESOLVED"},
   active: BOOLEAN, retries: Nat, at: Nat]

VARIABLES
  world,        \* [Account -> World]
  water,        \* position_risk_states: the milestones reported so far
  alerts,       \* risk_alerts: [Key -> Alert], status NONE while not a row
  monitor,      \* the locals of scan_once
  worker,       \* the locals of RiskAlertWorker._deliver
  credit,       \* history: messages the armed alerts and lost answers excuse
  crossed,      \* history: the milestones found in this life of the position
  moves, faults, crashes

table == <<world, water, alerts>>
history == <<credit, crossed>>
bounds == <<moves, faults, crashes>>
vars == <<table, monitor, worker, history, bounds>>

Idle == [phase |-> "idle"]

Untold == [status |-> "NONE", active |-> FALSE, retries |-> 0, at |-> 0]

NoMilestone == [profit |-> 0, loss |-> 0]

Init ==
  /\ world = [a \in Account |-> Absent]
  /\ water = [a \in Account |-> NoMilestone]
  /\ alerts = [k \in Key |-> Untold]
  /\ monitor = Idle
  /\ worker = Idle
  /\ credit = [k \in Key |-> 0]
  /\ crossed = {}
  /\ moves = 0 /\ faults = 0 /\ crashes = 0

-----------------------------------------------------------------------------
(* The monitor.                                                            *)

\* The reconciler, the market and the signals change the world.
Move ==
  /\ moves < MaxMove
  /\ moves' = moves + 1
  /\ \E a \in Account, w \in Worlds : w # world[a] /\ world' = [world EXCEPT ![a] = w]
  /\ UNCHANGED <<water, alerts, monitor, worker, history, faults, crashes>>

\* Stale balances and positions support no claim but their staleness.
Holds(k) ==
  LET w == world[k.account]
  IN CASE k.kind = "stale"    -> w.status = "stale"
       [] k.kind = "margin"   -> w.status = "fresh" /\ w.open /\ w.marked /\ w.near
       [] k.kind = "match"    -> w.status = "fresh" /\ w.match
       [] k.kind = "opposite" -> w.status = "fresh" /\ w.open /\ w.opposite

\* The milestone reached and its side, when the position's mark is known.
Reached(a) ==
  LET w == world[a]
  IN IF w.status # "fresh" \/ ~w.open \/ ~w.marked THEN {}
     ELSE {m \in [account: {a}, kind: {"profit", "loss"}, level: Level] :
             w.roi = IF m.kind = "profit" THEN m.level ELSE -m.level}

\* Faulty: the watermark follows the price down again.
CrossedAgain(a) == {m \in Reached(a) : m.level # water[a][m.kind]}

\* Only a new high-watermark is a crossing.
Crossed(a) == {m \in Reached(a) : m.level > water[a][m.kind]}

\* The rows of positions that are gone are deleted: the next one starts anew.
Ended(a) == ~world[a].open \/ world[a].status = "gone"

Watermark(a) ==
  IF Ended(a) THEN NoMilestone
  ELSE [side \in DOMAIN water[a] |->
          IF \E m \in Crossed(a) : m.kind = side
          THEN (CHOOSE m \in Crossed(a) : m.kind = side).level ELSE water[a][side]]

\* _conditions and the start of scan_once: what is found, the watermarks in a
\* transaction of their own, and the rows of risk_alerts as the next one reads
\* them.  Nothing the worker does between the two is seen by the first, so it
\* is taken to have happened before.
Read ==
  LET found == {k \in Standing : Holds(k)} \cup UNION {Crossed(a) : a \in Account}
      lives == {m \in Milestone : ~Ended(m.account)}
  IN /\ monitor.phase = "idle"
     /\ monitor' = [phase |-> "read", found |-> found, rows |-> alerts]
     /\ water' = [a \in Account |-> Watermark(a)]
     /\ crossed' = (crossed \cup (found \cap Milestone)) \cap lives
     /\ UNCHANGED <<world, alerts, worker, credit, bounds>>

Arms(k) == k \in monitor.found /\ ~monitor.rows[k].active

\* Faulty: an alert that is waiting or being sent is not taken back.
ResolvesSent(k) ==
  /\ k \notin monitor.found
  /\ monitor.rows[k].active
  /\ monitor.rows[k].status \in {"SENT", "FAILED"}

Resolves(k) == k \notin monitor.found /\ monitor.rows[k].active

\* Rows created by a later transaction carry a later created_at.
Stamp == Cardinality({alerts[k].at : k \in Key})

\* A column is written when its value is not the one that was read.
Column(read, wanted, now) == IF read = wanted THEN now ELSE wanted

\* Faulty: a condition that comes back keeps the state of its first alert.
ArmedOnce(k) ==
  LET row == alerts[k]
  IN [row EXCEPT !.active = TRUE, !.retries = 0,
                 !.status = IF row.status = "NONE" THEN "PENDING" ELSE @,
                 !.at = IF row.status = "NONE" THEN Stamp ELSE @]

Armed(k) ==
  LET read == monitor.rows[k]
  IN [alerts[k] EXCEPT
        !.active = TRUE,
        !.status = Column(read.status, "PENDING", @),
        !.retries = Column(read.retries, 0, @),
        !.at = IF read.status = "NONE" THEN Stamp ELSE @]

\* Faulty: a resolved alert stays active.
ResolvedInName(k) == [alerts[k] EXCEPT !.status = "RESOLVED"]

Resolved(k) ==
  [alerts[k] EXCEPT !.active = FALSE,
                    !.status = Column(monitor.rows[k].status, "RESOLVED", @)]

\* Faulty: a condition that still holds is announced again.
RefreshedAnew(k) ==
  IF k \in monitor.found THEN [alerts[k] EXCEPT !.status = "PENDING"] ELSE alerts[k]

\* Of a condition that still holds only the text is new.
Refreshed(k) == alerts[k]

\* The rest of scan_once, from the rows it selected.
Write ==
  /\ monitor.phase = "read"
  /\ monitor' = Idle
  /\ alerts' = [k \in Key |-> CASE Arms(k)     -> Armed(k)
                                [] Resolves(k) -> Resolved(k)
                                [] OTHER       -> Refreshed(k)]
  /\ credit' = [k \in Key |-> IF Arms(k) THEN credit[k] + 1 ELSE credit[k]]
  /\ UNCHANGED <<world, water, worker, crossed, bounds>>

\* The second transaction fails; run logs it and scans again later.
ScanFails ==
  /\ monitor.phase = "read"
  /\ faults < MaxFault
  /\ faults' = faults + 1
  /\ monitor' = Idle
  /\ UNCHANGED <<table, worker, history, moves, crashes>>

Monitor == Read \/ Write

-----------------------------------------------------------------------------
(* The worker.                                                             *)

Claimable == {k \in Key : alerts[k].status = "PENDING" /\ alerts[k].active}

Claim(k) ==
  /\ worker.phase = "idle"
  /\ k \in Claimable
  /\ \A j \in Claimable : alerts[k].at <= alerts[j].at
  /\ alerts' = [alerts EXCEPT ![k].status = "PROCESSING"]
  /\ worker' = [phase |-> "claimed", key |-> k]
  /\ UNCHANGED <<world, water, monitor, history, bounds>>

\* The alert is still the one the worker claimed.
Mine(k) == alerts[k].active /\ alerts[k].status = "PROCESSING"

Load ==
  /\ worker.phase = "claimed"
  /\ worker' = IF Mine(worker.key) THEN [worker EXCEPT !.phase = "sending"] ELSE Idle
  /\ UNCHANGED <<table, monitor, history, bounds>>

Answered(outcome) ==
  worker' = [phase |-> "answered", key |-> worker.key, outcome |-> outcome]

Deliver ==
  /\ worker.phase = "sending"
  /\ credit' = [credit EXCEPT ![worker.key] = @ - 1]
  /\ Answered("sent")
  /\ UNCHANGED <<table, monitor, crossed, bounds>>

\* A rate limit or an error, or a user who blocked the bot; when only the
\* answer is lost, the message is there and the alert may be sent once more.
Refuse ==
  /\ worker.phase = "sending"
  /\ faults < MaxFault
  /\ faults' = faults + 1
  /\ \E outcome \in {"refused", "forbidden"} : Answered(outcome)
  /\ UNCHANGED <<table, monitor, history, moves, crashes>>

\* _mark and _retry read the row and look at it ...
Recheck ==
  /\ worker.phase = "answered"
  /\ worker' = IF Mine(worker.key)
               THEN [phase |-> "marking", key |-> worker.key,
                     outcome |-> worker.outcome, read |-> alerts[worker.key].retries]
               ELSE Idle
  /\ UNCHANGED <<table, monitor, history, bounds>>

Settled(alert) ==
  CASE worker.outcome = "sent"      -> [alert EXCEPT !.status = "SENT"]
    [] worker.outcome = "forbidden" -> [alert EXCEPT !.status = "FAILED"]
    [] OTHER ->
         [alert EXCEPT !.retries = worker.read + 1,
                       !.status = IF worker.read + 1 <= MaxRetry
                                  THEN "PENDING" ELSE "FAILED"]

\* ... and then write it.
Mark ==
  /\ worker.phase = "marking"
  /\ alerts' = [alerts EXCEPT ![worker.key] = Settled(@)]
  /\ worker' = Idle
  /\ UNCHANGED <<world, water, monitor, history, bounds>>

Work ==
  \/ \E k \in Key : Claim(k)
  \/ Load
  \/ Deliver \/ Refuse
  \/ Recheck
  \/ Mark

-----------------------------------------------------------------------------

\* The process dies and is started again.
Crash ==
  /\ crashes < MaxCrash
  /\ crashes' = crashes + 1
  /\ monitor' = Idle
  /\ worker' = Idle
  /\ UNCHANGED <<table, history, moves, faults>>

Next == Move \/ Monitor \/ ScanFails \/ Work \/ Crash

\* Both loops are tasks of a running event loop; the world owes nothing.
Spec == Init /\ [][Next]_vars /\ WF_vars(Monitor) /\ WF_vars(Work)

-----------------------------------------------------------------------------
(* Properties.                                                             *)

\* The rows and the locals of both loops have their types, and whatever the
\* loops wrote across each other, a row that was resolved is not active.
TypeOK ==
  /\ world \in [Account -> World]
  /\ water \in [Account -> [profit: 0..MaxLevel, loss: 0..MaxLevel]]
  /\ alerts \in [Key -> Alert]
  /\ \A k \in Key : alerts[k].active => alerts[k].status \notin {"NONE", "RESOLVED"}
  /\ monitor.phase \in {"idle", "read"}
  /\ monitor.phase = "read" => monitor.found \subseteq Key
  /\ worker.phase \in {"idle", "claimed", "sending", "answered", "marking"}
  /\ worker.phase # "idle" => worker.key \in Key

\* A user is told of a condition at most once each time it appears, and once
\* more for an answer of Telegram that was lost: however the scans resolve and
\* arm an alert between the steps of its delivery, and whenever the process
\* is killed, no alert is sent twice.
NoSpam == \A k \in Key : credit[k] >= 0

\* In the life of a position each side's milestones are only ever climbed: a
\* price that falls back and rises again never brings an old one back.
OneShot ==
  [][Read => \A m \in monitor'.found \cap Milestone, n \in crossed :
       n.account = m.account /\ n.kind = m.kind => n.level < m.level]_vars

\* Claimed by a worker that was killed: no worker claims it again.
Orphan(k) ==
  /\ alerts[k].active
  /\ alerts[k].status = "PROCESSING"
  /\ worker.phase = "idle" \/ worker.key # k

\* A condition that stays is announced or given up, unless the process was
\* killed while it held the alert.
AnnouncesUnlessKilled ==
  \A k \in Standing :
    \/ []<>~Holds(k)
    \/ []<>(alerts[k].active /\ alerts[k].status \in {"SENT", "FAILED"})
    \/ <>[]Orphan(k)

\* A condition that is gone for good is resolved for good, so that it can be
\* announced when it comes back, even after a crash.
ResolvesGone ==
  \A k \in Standing : []<>Holds(k) \/ <>[]~alerts[k].active

\* A milestone's alert, once it waits to be sent, is shown or given up after
\* all its retries, unless the position's life ends.
MilestoneTold ==
  \A m \in Milestone :
    alerts[m].status = "PENDING"
      ~> (credit[m] = 0 \/ alerts[m].status = "FAILED" \/ m \notin crossed)

=============================================================================

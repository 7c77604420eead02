--------------------------- MODULE RiskAlerts_proofs ---------------------------
(***************************************************************************)
(* TypeOK, NoSpam and OneShot of RiskAlerts for any finite set of accounts *)
(* and any worlds, milestones, retries and bounds.  No more messages can   *)
(* leave than alerts were armed because a row that waits and a delivery    *)
(* under way each hold one unit of credit; no milestone comes back because *)
(* the watermark is never below what was crossed.                          *)
(***************************************************************************)
EXTENDS RiskAlerts, FiniteSetTheorems, TLAPS

Outcome == {"sent", "refused", "forbidden"}

\* The locals of the two loops.
Monitors ==
  [phase: {"idle"}] \cup [phase: {"read"}, found: SUBSET Key, rows: [Key -> Alert]]

Workers ==
  [phase: {"idle"}] \cup [phase: {"claimed", "sending"}, key: Key]
    \cup [phase: {"answered"}, key: Key, outcome: Outcome]
    \cup [phase: {"marking"}, key: Key, outcome: Outcome, read: Nat]

Types ==
  /\ world \in [Account -> World]
  /\ water \in [Account -> [profit: 0..MaxLevel, loss: 0..MaxLevel]]
  /\ alerts \in [Key -> Alert]
  /\ monitor \in Monitors
  /\ worker \in Workers
  /\ credit \in [Key -> Int]
  /\ crossed \subseteq Milestone

\* A row in one of these states was armed and not resolved.
Live(alert) == alert.status \notin {"NONE", "RESOLVED"}

\* An active row is live, and a row the monitor read as live still is.
ActiveLive ==
  \A k \in Key :
    /\ alerts[k].active => Live(alerts[k])
    /\ monitor.phase = "read" /\ Live(monitor.rows[k]) => Live(alerts[k])

\* The worker may still send this alert, or put it back to be sent.
InFlight(k) ==
  /\ worker.phase # "idle"
  /\ worker.key = k
  /\ worker.phase \in {"answered", "marking"} => worker.outcome = "refused"

Waiting(k) == IF alerts[k].status = "PENDING" THEN 1 ELSE 0

Underway(k) == IF InFlight(k) THEN 1 ELSE 0

\* Credit covers the row that waits and the delivery under way.
Covered == \A k \in Key : credit[k] >= Waiting(k) + Underway(k)

\* The watermark is at or above every milestone crossed.
Below == \A n \in crossed : n.level <= water[n.account][n.kind]

\* The inductive invariant.
IInv == Types /\ ActiveLive /\ Covered /\ Below

-----------------------------------------------------------------------------
(* Finite accounts have finitely many rows, so creation is numbered.       *)

LEMMA KeyFinite == IsFiniteSet(Key)
<1> DEFINE Pairs == Account \X {"stale", "margin", "match", "opposite"}
           Triples == (Account \X {"profit", "loss"}) \X Level
           f == [p \in Pairs |-> [account |-> p[1], kind |-> p[2]]]
           g == [p \in Triples |->
                   [account |-> p[1][1], kind |-> p[1][2], level |-> p[2]]]
<1>1. IsFiniteSet({"stale", "margin", "match", "opposite"})
      /\ IsFiniteSet({"profit", "loss"})
  <2>1. IsFiniteSet({"profit"}) /\ IsFiniteSet({"stale"})
    BY FS_Singleton
  <2>2. IsFiniteSet({"profit"} \cup {"loss"}) /\ IsFiniteSet({"stale"} \cup {"margin"})
    BY <2>1, FS_AddElement
  <2>3. IsFiniteSet(({"stale"} \cup {"margin"}) \cup {"match"})
    BY <2>2, FS_AddElement
  <2>4. IsFiniteSet((({"stale"} \cup {"margin"}) \cup {"match"}) \cup {"opposite"})
    BY <2>3, FS_AddElement
  <2>5. /\ {"profit"} \cup {"loss"} = {"profit", "loss"}
        /\ (({"stale"} \cup {"margin"}) \cup {"match"}) \cup {"opposite"}
             = {"stale", "margin", "match", "opposite"}
    OBVIOUS
  <2> QED BY <2>2, <2>4, <2>5
<1>2. IsFiniteSet(Level)
  BY FS_Interval, BoundAssumption DEF Level
<1>3. IsFiniteSet(Pairs)
  BY <1>1, FS_Product, AccountAssumption
<1>4. IsFiniteSet(Triples)
  <2>1. IsFiniteSet(Account \X {"profit", "loss"})
    BY <1>1, FS_Product, AccountAssumption
  <2> QED BY <1>2, <2>1, FS_Product
<1>5. IsFiniteSet(Standing)
  <2>1. f \in [Pairs -> Standing]
    BY DEF Standing
  <2>2. ASSUME NEW k \in Standing
        PROVE  \E p \in Pairs : f[p] = k
    <3>1. <<k.account, k.kind>> \in Pairs
      BY DEF Standing
    <3>2. f[<<k.account, k.kind>>] = [account |-> k.account, kind |-> k.kind]
      BY <3>1
    <3>3. k = [account |-> k.account, kind |-> k.kind]
      BY DEF Standing
    <3> QED BY <3>1, <3>2, <3>3
  <2>3. f \in Surjection(Pairs, Standing)
    BY <2>1, <2>2 DEF Surjection
  <2> QED BY <1>3, <2>3, FS_Surjection
<1>6. IsFiniteSet(Milestone)
  <2>1. g \in [Triples -> Milestone]
    BY DEF Milestone
  <2>2. ASSUME NEW k \in Milestone
        PROVE  \E p \in Triples : g[p] = k
    <3>1. <<<<k.account, k.kind>>, k.level>> \in Triples
      BY DEF Milestone
    <3>2. g[<<<<k.account, k.kind>>, k.level>>]
            = [account |-> k.account, kind |-> k.kind, level |-> k.level]
      BY <3>1
    <3>3. k = [account |-> k.account, kind |-> k.kind, level |-> k.level]
      BY DEF Milestone
    <3> QED BY <3>1, <3>2, <3>3
  <2>3. g \in Surjection(Triples, Milestone)
    BY <2>1, <2>2 DEF Surjection
  <2> QED BY <1>4, <2>3, FS_Surjection
<1> QED BY <1>5, <1>6, FS_Union DEF Key

LEMMA StampNat == Stamp \in Nat
<1> DEFINE T == {alerts[k].at : k \in Key}
           f == [k \in Key |-> alerts[k].at]
<1>1. f \in Surjection(Key, T)
  BY DEF Surjection
<1>2. IsFiniteSet(T)
  BY <1>1, KeyFinite, FS_Surjection
<1> QED BY <1>2, FS_CardinalityType DEF Stamp

-----------------------------------------------------------------------------
(* The first transaction of a scan.                                        *)

\* What Crossed holds, and that a side is at one milestone at a time.
LEMMA CrossedFacts ==
  ASSUME Types, NEW a \in Account
  PROVE  /\ Crossed(a) \subseteq Milestone
         /\ \A m \in Crossed(a) : m.account = a /\ m.level > water[a][m.kind]
         /\ \A m, n \in Crossed(a) : m.kind = n.kind => m.level = n.level
<1>1. \A m \in Reached(a) :
        /\ m \in Milestone /\ m.account = a /\ m.level \in Nat
        /\ world[a].roi = IF m.kind = "profit" THEN m.level ELSE -m.level
  BY BoundAssumption DEF Reached, Milestone, Level
<1>2. \A m, n \in Reached(a) : m.kind = n.kind => m.level = n.level
  <2>1. world[a].roi \in Int
    BY BoundAssumption DEF Types, World
  <2> QED BY <1>1, <2>1
<1> QED BY <1>1, <1>2 DEF Crossed

\* The watermark keeps its type, and while the position lives it never falls
\* and reaches what was crossed.
LEMMA WatermarkFacts ==
  ASSUME Types, NEW a \in Account
  PROVE  /\ Watermark(a) \in [profit: 0..MaxLevel, loss: 0..MaxLevel]
         /\ ~Ended(a) =>
              /\ \A side \in {"profit", "loss"} : Watermark(a)[side] >= water[a][side]
              /\ \A m \in Crossed(a) : Watermark(a)[m.kind] = m.level
<1>1. CASE Ended(a)
  BY <1>1, BoundAssumption DEF Watermark, NoMilestone
<1>2. CASE ~Ended(a)
  <2> DEFINE Top(side) == (CHOOSE m \in Crossed(a) : m.kind = side).level
             Up(side) == \E m \in Crossed(a) : m.kind = side
  <2>1. water[a] \in [profit: 0..MaxLevel, loss: 0..MaxLevel]
        /\ DOMAIN water[a] = {"profit", "loss"}
    BY DEF Types
  <2>2. ASSUME NEW side \in {"profit", "loss"}, Up(side)
        PROVE  /\ Top(side) \in 0..MaxLevel
               /\ Top(side) > water[a][side]
               /\ \A m \in Crossed(a) : m.kind = side => Top(side) = m.level
    <3> DEFINE c == CHOOSE m \in Crossed(a) : m.kind = side
    <3>1. c \in Crossed(a) /\ c.kind = side
      BY <2>2
    <3>2. c \in Milestone /\ c.level > water[a][side]
          /\ \A m \in Crossed(a) : m.kind = side => c.level = m.level
      BY <3>1, CrossedFacts
    <3>3. c.level \in 0..MaxLevel
      BY <3>2, BoundAssumption DEF Milestone, Level
    <3> QED BY <3>2, <3>3
  <2>3. Watermark(a)
          = [side \in {"profit", "loss"} |-> IF Up(side) THEN Top(side) ELSE water[a][side]]
    BY <1>2, <2>1 DEF Watermark
  <2>4. \A side \in {"profit", "loss"} :
          /\ Watermark(a)[side] \in 0..MaxLevel
          /\ Watermark(a)[side] >= water[a][side]
          /\ \A m \in Crossed(a) : m.kind = side => Watermark(a)[side] = m.level
    <3> SUFFICES ASSUME NEW side \in {"profit", "loss"}
                 PROVE  /\ Watermark(a)[side] \in 0..MaxLevel
                        /\ Watermark(a)[side] >= water[a][side]
                        /\ \A m \in Crossed(a) :
                             m.kind = side => Watermark(a)[side] = m.level
      OBVIOUS
    <3>1. water[a][side] \in 0..MaxLevel
      BY <2>1
    <3>2. Watermark(a)[side] = IF Up(side) THEN Top(side) ELSE water[a][side]
      BY <2>3
    <3> HIDE DEF Top
    <3>3. CASE Up(side)
      BY <2>2, <3>1, <3>2, <3>3, BoundAssumption
    <3>4. CASE ~Up(side)
      BY <3>1, <3>2, <3>4, BoundAssumption
    <3> QED BY <3>3, <3>4
  <2>5. Watermark(a) \in [profit: 0..MaxLevel, loss: 0..MaxLevel]
    BY <2>3, <2>4
  <2>6. \A m \in Crossed(a) : m.kind \in {"profit", "loss"}
    BY CrossedFacts DEF Milestone
  <2> QED BY <2>4, <2>5, <2>6
<1> QED BY <1>1, <1>2

\* What a scan finds are keys, and its milestones are the ones just crossed.
LEMMA ReadFacts ==
  ASSUME Types, Read
  PROVE  /\ monitor'.phase = "read"
         /\ monitor'.found \subseteq Key
         /\ monitor'.rows = alerts
         /\ monitor' \in Monitors
         /\ \A m \in monitor'.found \cap Milestone :
              m.account \in Account /\ m \in Crossed(m.account)
         /\ crossed' \subseteq crossed \cup (monitor'.found \cap Milestone)
         /\ \A m \in crossed' : m \in Milestone /\ ~Ended(m.account)
<1> DEFINE found == {k \in Standing : Holds(k)} \cup UNION {Crossed(a) : a \in Account}
<1>1. /\ monitor' = [phase |-> "read", found |-> found, rows |-> alerts]
      /\ crossed' = (crossed \cup (found \cap Milestone))
                      \cap {m \in Milestone : ~Ended(m.account)}
  BY DEF Read
<1>2. found \subseteq Key
  BY CrossedFacts DEF Key
<1>3. \A m \in found \cap Milestone : m.account \in Account /\ m \in Crossed(m.account)
  <2> SUFFICES ASSUME NEW m \in found \cap Milestone
               PROVE  m.account \in Account /\ m \in Crossed(m.account)
    OBVIOUS
  <2>1. m \notin Standing
    BY DEF Standing, Milestone
  <2>2. PICK a \in Account : m \in Crossed(a)
    BY <2>1
  <2> QED BY <2>2, CrossedFacts
<1>4. monitor' \in Monitors
  BY <1>1, <1>2 DEF Monitors, Types
<1> QED BY <1>1, <1>2, <1>3, <1>4

-----------------------------------------------------------------------------
(* Each part of the invariant, step by step.                               *)

LEMMA ReadKeeps == IInv /\ Read => IInv'
<1> SUFFICES ASSUME IInv, Read
             PROVE  IInv'
  OBVIOUS
<1>1. Types
  BY DEF IInv
<1>2. /\ UNCHANGED <<world, alerts, worker, credit>>
      /\ water' = [a \in Account |-> Watermark(a)]
  BY DEF Read, bounds
<1>3. Types'
  <2>1. crossed' \subseteq Milestone
    BY <1>1, ReadFacts
  <2>2. water' \in [Account -> [profit: 0..MaxLevel, loss: 0..MaxLevel]]
    BY <1>1, <1>2, WatermarkFacts
  <2> QED BY <1>1, <1>2, <2>1, <2>2, ReadFacts DEF Types
<1>4. ActiveLive'
  BY <1>1, <1>2, ReadFacts DEF IInv, ActiveLive, Live
<1>5. Covered'
  BY <1>2 DEF IInv, Covered, Waiting, Underway, InFlight
<1>6. Below'
  <2> SUFFICES ASSUME NEW n \in crossed'
               PROVE  n.level <= water'[n.account][n.kind]
    BY DEF Below
  <2>1. n \in Milestone /\ ~Ended(n.account)
    BY <1>1, ReadFacts
  <2>2. n.account \in Account /\ n.kind \in {"profit", "loss"} /\ n.level \in Int
    BY <2>1, BoundAssumption DEF Milestone, Level
  <2>3. water'[n.account] = Watermark(n.account)
    BY <1>2, <2>2
  <2>4. /\ water[n.account][n.kind] \in Int
        /\ Watermark(n.account)[n.kind] \in Int
    BY <1>1, <2>2, WatermarkFacts, BoundAssumption DEF Types
  <2>5. CASE n \in crossed
    <3>1. n.level <= water[n.account][n.kind]
      BY <2>5 DEF IInv, Below
    <3>2. Watermark(n.account)[n.kind] >= water[n.account][n.kind]
      BY <1>1, <2>1, <2>2, WatermarkFacts
    <3> QED BY <2>2, <2>3, <2>4, <3>1, <3>2
  <2>6. CASE n \notin crossed
    <3>1. n \in Crossed(n.account)
      BY <1>1, <2>6, ReadFacts
    <3>2. Watermark(n.account)[n.kind] = n.level
      BY <1>1, <2>1, <2>2, <3>1, WatermarkFacts
    <3> QED BY <2>2, <2>3, <3>2
  <2> QED BY <2>5, <2>6
<1> QED BY <1>3, <1>4, <1>5, <1>6 DEF IInv

\* Arming a row gives it a message to wait for; resolving takes one away.
LEMMA WriteKeeps == IInv /\ Write => IInv'
<1> SUFFICES ASSUME IInv, Write
             PROVE  IInv'
  OBVIOUS
<1>1. Types /\ ActiveLive /\ Covered /\ Below
  BY DEF IInv
<1>2. /\ monitor.phase = "read" /\ monitor' = Idle
      /\ UNCHANGED <<world, water, worker, crossed>>
      /\ alerts' = [k \in Key |-> CASE Arms(k)     -> Armed(k)
                                    [] Resolves(k) -> Resolved(k)
                                    [] OTHER       -> Refreshed(k)]
      /\ credit' = [k \in Key |-> IF Arms(k) THEN credit[k] + 1 ELSE credit[k]]
  BY DEF Write, bounds
<1>3. ASSUME NEW k \in Key
      PROVE  /\ alerts'[k] \in Alert
             /\ alerts'[k].active => Live(alerts'[k])
             /\ credit'[k] \in Int
             /\ credit'[k] - credit[k] >= Waiting(k)' - Waiting(k)
  <2>1. alerts[k] \in Alert /\ monitor.rows[k] \in Alert /\ credit[k] \in Int
    BY <1>1, <1>2 DEF Types, Monitors
  <2>2. CASE Arms(k)
    <3>1. alerts'[k] = Armed(k) /\ credit'[k] = credit[k] + 1
      BY <1>2, <2>2 DEF Arms, Resolves
    <3>2. Armed(k) \in Alert /\ Armed(k).active
          /\ Armed(k).status = Column(monitor.rows[k].status, "PENDING", alerts[k].status)
      BY <2>1, StampNat DEF Armed, Alert, Column
    <3>3. Live(Armed(k))
      BY <1>1, <1>2, <2>1, <3>2 DEF Live, Column, ActiveLive
    <3> QED BY <2>1, <3>1, <3>2, <3>3 DEF Waiting
  <2>3. CASE ~Arms(k) /\ Resolves(k)
    <3>1. alerts'[k] = Resolved(k) /\ credit'[k] = credit[k]
      BY <1>2, <2>3
    <3>2. Resolved(k) \in Alert /\ ~Resolved(k).active
          /\ Resolved(k).status \in {"RESOLVED", alerts[k].status}
      BY <2>1 DEF Resolved, Alert, Column
    <3> QED BY <2>1, <3>1, <3>2 DEF Waiting
  <2>4. CASE ~Arms(k) /\ ~Resolves(k)
    <3>1. alerts'[k] = alerts[k] /\ credit'[k] = credit[k]
      BY <1>2, <2>4 DEF Refreshed
    <3> QED BY <1>1, <2>1, <3>1 DEF Waiting, ActiveLive
  <2> QED BY <2>2, <2>3, <2>4
<1>4. Types'
  <2>1. monitor' \in Monitors
    BY <1>2 DEF Idle, Monitors
  <2>2. alerts' \in [Key -> Alert] /\ credit' \in [Key -> Int]
    BY <1>2, <1>3
  <2> QED BY <1>1, <1>2, <2>1, <2>2 DEF Types
<1>5. ActiveLive'
  BY <1>2, <1>3 DEF ActiveLive, Live, Idle
<1>6. Covered'
  <2> SUFFICES ASSUME NEW k \in Key
               PROVE  credit'[k] >= Waiting(k)' + Underway(k)'
    BY DEF Covered
  <2>1. credit[k] >= Waiting(k) + Underway(k) /\ credit[k] \in Int
    BY <1>1 DEF Covered, Types
  <2>2. Underway(k)' = Underway(k) /\ Underway(k) \in Int
    BY <1>2 DEF Underway, InFlight
  <2>3. Waiting(k) \in Int /\ Waiting(k)' \in Int
    BY DEF Waiting
  <2> QED BY <1>3, <2>1, <2>2, <2>3
<1>7. Below'
  BY <1>1, <1>2 DEF Below
<1> QED BY <1>4, <1>5, <1>6, <1>7 DEF IInv

\* The worker's steps leave everything but the row, the credit and its locals.
LEMMA WorkKeeps == IInv /\ Work => IInv'
<1> SUFFICES ASSUME IInv, Work
             PROVE  IInv'
  OBVIOUS
<1>1. Types /\ ActiveLive /\ Covered /\ Below
  BY DEF IInv
<1>2. UNCHANGED <<world, water, monitor, crossed>>
  BY DEF Work, Claim, Load, Deliver, Refuse, Recheck, Mark, table, history
<1>3. Below'
  BY <1>1, <1>2 DEF Below
<1>4. ASSUME NEW k \in Key
      PROVE  /\ alerts[k] \in Alert /\ credit[k] \in Int
             /\ alerts[k].active => Live(alerts[k])
             /\ credit[k] >= Waiting(k) + Underway(k)
             /\ Waiting(k) \in {0, 1} /\ Underway(k) \in {0, 1}
  BY <1>1 DEF Types, ActiveLive, Covered, Waiting, Underway
<1>5. SUFFICES /\ worker' \in Workers
               /\ \A k \in Key : /\ alerts'[k] \in Alert
                                 /\ credit'[k] \in Int
                                 /\ alerts'[k].active = alerts[k].active
                                 /\ Live(alerts[k]) => Live(alerts'[k])
                                 /\ credit'[k] >= Waiting(k)' + Underway(k)'
               /\ DOMAIN alerts' = Key /\ DOMAIN credit' = Key
               /\ alerts' = [k \in DOMAIN alerts' |-> alerts'[k]]
               /\ credit' = [k \in DOMAIN credit' |-> credit'[k]]
  <2>1. Types'
    BY <1>1, <1>2, <1>5 DEF Types
  <2>2. ActiveLive'
    BY <1>1, <1>2, <1>4, <1>5 DEF ActiveLive
  <2>3. Covered'
    BY <1>5 DEF Covered
  <2> QED BY <1>3, <2>1, <2>2, <2>3 DEF IInv
<1>6. CASE \E k \in Key : Claim(k)
  <2>1. PICK c \in Key : Claim(c)
    BY <1>6
  <2>2. /\ worker.phase = "idle" /\ alerts[c].status = "PENDING"
        /\ alerts' = [alerts EXCEPT ![c].status = "PROCESSING"]
        /\ worker' = [phase |-> "claimed", key |-> c]
        /\ credit' = credit
    BY <2>1 DEF Claim, Claimable, history
  <2>3. worker' \in Workers
    BY <2>2 DEF Workers
  <2>4. ASSUME NEW k \in Key
        PROVE  /\ alerts'[k] \in Alert
               /\ alerts'[k].active = alerts[k].active
               /\ Live(alerts[k]) => Live(alerts'[k])
               /\ credit'[k] >= Waiting(k)' + Underway(k)'
    <3>1. CASE k = c
      <4>1. alerts'[k] = [alerts[k] EXCEPT !.status = "PROCESSING"]
        BY <1>1, <2>2, <3>1 DEF Types
      <4>2. alerts'[k] \in Alert /\ alerts'[k].active = alerts[k].active
            /\ alerts'[k].status = "PROCESSING"
        BY <1>4, <4>1 DEF Alert
      <4>3. Waiting(k) = 1 /\ Waiting(k)' = 0 /\ Underway(k)' \in {0, 1}
        BY <2>2, <3>1, <4>2 DEF Waiting, Underway
      <4> QED BY <1>4, <2>2, <4>2, <4>3 DEF Live
    <3>2. CASE k # c
      <4>1. alerts'[k] = alerts[k]
        BY <1>1, <2>2, <3>2 DEF Types
      <4>2. Underway(k)' = 0 /\ Waiting(k)' = Waiting(k)
        BY <2>2, <3>2, <4>1 DEF Underway, InFlight, Waiting
      <4> QED BY <1>4, <2>2, <4>1, <4>2
    <3> QED BY <3>1, <3>2
  <2> QED BY <1>1, <1>4, <2>2, <2>3, <2>4 DEF Types
<1>7. CASE Load \/ Refuse \/ Recheck
  <2>1. alerts' = alerts /\ credit' = credit
    BY <1>7 DEF Load, Refuse, Recheck, table, history
  <2>2. worker' \in Workers /\ \A k \in Key : InFlight(k)' => InFlight(k)
    <3>1. CASE Load
      BY <1>1, <3>1 DEF Types, Load, Workers, InFlight, Idle
    <3>2. CASE Refuse
      <4>1. PICK outcome \in {"refused", "forbidden"} :
              worker' = [phase |-> "answered", key |-> worker.key, outcome |-> outcome]
        BY <3>2 DEF Refuse, Answered
      <4>2. worker.phase = "sending" /\ worker.key \in Key
        BY <1>1, <3>2 DEF Types, Refuse, Workers
      <4> QED BY <4>1, <4>2 DEF Workers, InFlight, Outcome
    <3>3. CASE Recheck
      <4>1. worker.phase = "answered" /\ worker.key \in Key /\ worker.outcome \in Outcome
        BY <1>1, <3>3 DEF Types, Recheck, Workers
      <4>2. CASE Mine(worker.key)
        <5>1. worker' = [phase |-> "marking", key |-> worker.key,
                         outcome |-> worker.outcome, read |-> alerts[worker.key].retries]
          BY <3>3, <4>2 DEF Recheck
        <5>2. alerts[worker.key].retries \in Nat
          BY <1>4, <4>1 DEF Alert
        <5> QED BY <4>1, <5>1, <5>2 DEF Workers, InFlight
      <4>3. CASE ~Mine(worker.key)
        BY <3>3, <4>3 DEF Recheck, Idle, Workers, InFlight
      <4> QED BY <4>2, <4>3
    <3> QED BY <1>7, <3>1, <3>2, <3>3
  <2>3. ASSUME NEW k \in Key
        PROVE  credit'[k] >= Waiting(k)' + Underway(k)'
    <3>1. Waiting(k)' = Waiting(k)
      BY <2>1 DEF Waiting
    <3>2. Underway(k)' <= Underway(k) /\ Underway(k)' \in {0, 1}
      BY <2>2 DEF Underway
    <3> QED BY <1>4, <2>1, <3>1, <3>2
  <2> QED BY <1>1, <1>4, <2>1, <2>2, <2>3 DEF Types
<1>8. CASE Deliver
  <2>1. /\ worker.phase = "sending" /\ worker.key \in Key /\ alerts' = alerts
        /\ credit' = [credit EXCEPT ![worker.key] = @ - 1]
        /\ worker' = [phase |-> "answered", key |-> worker.key, outcome |-> "sent"]
    BY <1>1, <1>8 DEF Types, Deliver, Answered, Workers, table
  <2>2. worker' \in Workers /\ \A k \in Key : ~InFlight(k)'
    BY <2>1 DEF Workers, InFlight, Outcome
  <2>3. ASSUME NEW k \in Key
        PROVE  credit'[k] \in Int /\ credit'[k] >= Waiting(k)' + Underway(k)'
    <3>1. Waiting(k)' = Waiting(k) /\ Underway(k)' = 0
      BY <2>1, <2>2 DEF Waiting, Underway
    <3>2. CASE k = worker.key
      <4>1. credit'[k] = credit[k] - 1 /\ Underway(k) = 1
        BY <1>1, <2>1, <3>2 DEF Types, Underway, InFlight
      <4> QED BY <1>4, <3>1, <4>1
    <3>3. CASE k # worker.key
      <4>1. credit'[k] = credit[k]
        BY <1>1, <2>1, <3>3 DEF Types
      <4> QED BY <1>4, <3>1, <4>1
    <3> QED BY <3>2, <3>3
  <2> QED BY <1>1, <1>4, <2>1, <2>2, <2>3 DEF Types
<1>9. CASE Mark
  <2>1. /\ worker.phase = "marking" /\ worker.key \in Key /\ worker.outcome \in Outcome
        /\ worker.read \in Nat
        /\ alerts' = [alerts EXCEPT ![worker.key] = Settled(@)]
        /\ worker' = Idle /\ credit' = credit
    BY <1>1, <1>9 DEF Types, Mark, Workers, history
  <2>2. worker' \in Workers /\ \A k \in Key : ~InFlight(k)'
    BY <2>1 DEF Workers, InFlight, Idle
  <2>3. ASSUME NEW k \in Key
        PROVE  /\ alerts'[k] \in Alert
               /\ alerts'[k].active = alerts[k].active
               /\ Live(alerts[k]) => Live(alerts'[k])
               /\ credit'[k] >= Waiting(k)' + Underway(k)'
    <3>1. Underway(k)' = 0
      BY <2>2 DEF Underway
    <3>2. CASE k # worker.key
      <4>1. alerts'[k] = alerts[k] /\ Waiting(k)' = Waiting(k)
        BY <1>1, <2>1, <3>2 DEF Types, Waiting
      <4> QED BY <1>4, <2>1, <3>1, <4>1
    <3>3. CASE k = worker.key
      <4>1. alerts'[k] = Settled(alerts[k])
        BY <1>1, <2>1, <3>3 DEF Types
      <4>2. /\ alerts'[k] \in Alert /\ alerts'[k].active = alerts[k].active
            /\ alerts'[k].status \in {"SENT", "FAILED", "PENDING"}
            /\ worker.outcome # "refused" => alerts'[k].status # "PENDING"
        <5>1. alerts[k] \in Alert
          BY <1>4
        <5>2. CASE worker.outcome = "sent"
          BY <4>1, <5>1, <5>2 DEF Settled, Alert
        <5>3. CASE worker.outcome = "forbidden"
          BY <4>1, <5>1, <5>3 DEF Settled, Alert
        <5>4. CASE worker.outcome = "refused"
          <6> DEFINE to == IF worker.read + 1 <= MaxRetry THEN "PENDING" ELSE "FAILED"
          <6>1. alerts'[k] = [alerts[k] EXCEPT !.retries = worker.read + 1, !.status = to]
            BY <4>1, <5>4 DEF Settled
          <6>2. worker.read + 1 \in Nat /\ to \in {"PENDING", "FAILED"}
            BY <2>1
          <6> HIDE DEF to
          <6> QED BY <5>1, <5>4, <6>1, <6>2 DEF Alert
        <5> QED BY <2>1, <5>2, <5>3, <5>4 DEF Outcome
      <4>3. Waiting(k)' <= Underway(k) /\ Waiting(k)' \in {0, 1}
        BY <2>1, <3>3, <4>2 DEF Waiting, Underway, InFlight
      <4> QED BY <1>4, <2>1, <3>1, <4>2, <4>3 DEF Live
    <3> QED BY <3>2, <3>3
  <2> QED BY <1>1, <1>4, <2>1, <2>2, <2>3 DEF Types
<1> QED BY <1>6, <1>7, <1>8, <1>9 DEF Work

\* A change of the world, a scan that fails and a crash write no row.
LEMMA OthersKeep == IInv /\ (Move \/ ScanFails \/ Crash \/ UNCHANGED vars) => IInv'
<1> SUFFICES ASSUME IInv, Move \/ ScanFails \/ Crash \/ UNCHANGED vars
             PROVE  IInv'
  OBVIOUS
<1>1. UNCHANGED <<water, alerts, credit, crossed>>
      /\ monitor' \in {Idle, monitor} /\ worker' \in {Idle, worker}
  BY DEF Move, ScanFails, Crash, vars, table, history
<1>2. world' \in [Account -> World]
  BY WorldAssumption
  DEF IInv, Types, Move, ScanFails, Crash, vars, table
<1>3. Types'
  BY <1>1, <1>2 DEF IInv, Types, Monitors, Workers, Idle
<1>4. ActiveLive'
  BY <1>1 DEF IInv, ActiveLive, Live, Idle
<1>5. Covered'
  <2> SUFFICES ASSUME NEW k \in Key
               PROVE  credit'[k] >= Waiting(k)' + Underway(k)'
    BY DEF Covered
  <2>1. InFlight(k)' => InFlight(k)
    BY <1>1 DEF InFlight, Idle
  <2>2. Underway(k)' <= Underway(k) /\ Waiting(k)' = Waiting(k)
        /\ Underway(k) \in Int /\ Underway(k)' \in Int /\ Waiting(k) \in Int
    BY <1>1, <2>1 DEF Underway, Waiting
  <2>3. credit[k] \in Int /\ credit'[k] = credit[k]
        /\ credit[k] >= Waiting(k) + Underway(k)
    BY <1>1 DEF IInv, Types, Covered
  <2> QED BY <2>2, <2>3
<1>6. Below'
  BY <1>1 DEF IInv, Below
<1> QED BY <1>3, <1>4, <1>5, <1>6 DEF IInv

LEMMA Start == Init => IInv
<1> SUFFICES ASSUME Init
             PROVE  IInv
  OBVIOUS
<1>1. Types
  BY BoundAssumption
  DEF Init, Types, World, Absent, NoMilestone, Alert, Untold, Monitors, Workers, Idle
<1>2. ActiveLive /\ Covered /\ Below
  BY DEF Init, ActiveLive, Live, Covered, Waiting, Underway, InFlight, Below,
         Untold, Idle
<1> QED BY <1>1, <1>2 DEF IInv

LEMMA Inductive == IInv /\ [Next]_vars => IInv'
  BY ReadKeeps, WriteKeeps, WorkKeeps, OthersKeep DEF Next, Monitor

LEMMA Invariance == Spec => []IInv
  BY Start, Inductive, PTL DEF Spec

-----------------------------------------------------------------------------

\* The rows and the locals of both loops keep their types, and an active row
\* is one that was armed and not resolved since.
THEOREM TypeCorrect == Spec => []TypeOK
<1>1. IInv => TypeOK
  BY DEF IInv, Types, TypeOK, ActiveLive, Live, Monitors, Workers
<1> QED BY <1>1, Invariance, PTL

\* No alert is sent more often than it was armed, and once more for each lost
\* answer, for any number of accounts, failures and crashes.
THEOREM SentOnce == Spec => []NoSpam
<1>1. IInv => NoSpam
  <2> SUFFICES ASSUME IInv, NEW k \in Key
               PROVE  credit[k] >= 0
    BY DEF NoSpam
  <2>1. credit[k] \in Int /\ credit[k] >= Waiting(k) + Underway(k)
    BY DEF IInv, Types, Covered
  <2> QED BY <2>1 DEF Waiting, Underway
<1> QED BY <1>1, Invariance, PTL

\* A milestone reported in the life of a position never comes back, nor does a
\* lower one of its side.
THEOREM MilestonesClimb == Spec => OneShot
<1>1. IInv /\ Read =>
        \A m \in monitor'.found \cap Milestone, n \in crossed :
          n.account = m.account /\ n.kind = m.kind => n.level < m.level
  <2> SUFFICES ASSUME IInv, Read, NEW m \in monitor'.found \cap Milestone,
                      NEW n \in crossed, n.account = m.account, n.kind = m.kind
               PROVE  n.level < m.level
    OBVIOUS
  <2>1. Types /\ n \in Milestone
    BY DEF IInv, Types
  <2>2. m.account \in Account /\ m \in Crossed(m.account)
    BY <2>1, ReadFacts
  <2>3. m.level > water[m.account][m.kind]
    BY <2>1, <2>2, CrossedFacts
  <2>4. n.level <= water[m.account][m.kind]
    BY DEF IInv, Below
  <2>5. /\ m.level \in Int /\ n.level \in Int
        /\ water[m.account][m.kind] \in Int
    BY <2>1, <2>2, BoundAssumption DEF Milestone, Level, Types
  <2> QED BY <2>3, <2>4, <2>5
<1>2. IInv /\ [Next]_vars =>
        [Read => \A m \in monitor'.found \cap Milestone, n \in crossed :
           n.account = m.account /\ n.kind = m.kind => n.level < m.level]_vars
  BY <1>1
<1> QED BY <1>2, Invariance, PTL DEF Spec, OneShot

=============================================================================

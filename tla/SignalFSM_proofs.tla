--------------------------- MODULE SignalFSM_proofs ---------------------------
(***************************************************************************)
(* Proofs about SignalFSM for any set of symbols, any market and any       *)
(* delays.  The argument: every branch of advance records one lifecycle,   *)
(* and the new lifecycle and its history are Sound again (LEMMA ScanStep); *)
(* everything else follows from what one recorded lifecycle can change.    *)
(***************************************************************************)
EXTENDS SignalFSM, TLAPS

\* How a lifecycle and its history agree: the hold timer never runs ahead of
\* the passes that justify it, a cooldown covers the silence that is due, and
\* nothing is due once a signal may be opened.
Agree(l, h) ==
  /\ l.state = "WATCH" /\ l.held # None => h.gate >= l.held
  /\ l.cooldown # None => l.cooldown >= h.due
  /\ l.state \in Active \cup {"NORMAL"} => h.due = 0
  /\ h.due <= CooldownTime

Sound(l, h) == l \in Lifecycle /\ h \in History /\ Tidy(l) /\ Agree(l, h)

\* The inductive invariant.
IInv ==
  /\ TypeOK
  /\ ExclusiveDirections
  /\ \A s \in Symbol, d \in Direction : Sound(lc[s][d], seen[s][d])

\* An edge of the abstract lifecycle, or none.
Edge(from, to) ==
  \/ to = from
  \/ from = "NORMAL" /\ to = "CANDIDATE"
  \/ to \in Abstract!Promotions(from)
  \/ to \in Abstract!Closings(from)
  \/ to \in Abstract!Settlings(from)
  \/ from = "COOLDOWN" /\ to = "NORMAL"

GateSeen(c, d) == d = c.dir /\ c.fresh /\ ConfirmGate(c)

\* What one pass does to the lifecycle of one direction: from l, h to m.
GoodMove(l, h, m, open) ==
  /\ Sound(m, Remember(h, l.state, m.state, open))
  /\ Edge(l.state, m.state)
  /\ m.state = "CONFIRMED" /\ l.state # "CONFIRMED" =>
       Remember(h, l.state, m.state, open).gate >= ConfirmHold

Step(s, c, d, m) ==
  /\ Record(s, c, d, m)
  /\ lc[s][Opposite(d)].state \notin Active
  /\ GoodMove(lc[s][d], seen[s][d], m, GateSeen(c, d))

\* What Remember keeps of a history h when a state changes from before to after.
Kept(h, before, after, open, k) ==
  /\ k \in History
  /\ k.due <= CooldownTime
  /\ before \in Active /\ after \notin Active => k.due = QuietAfter(before)
  /\ before \notin Active \/ after \in Active => k.due = h.due
  /\ k.gate = IF before = "WATCH" /\ open THEN Started(h.gate) ELSE None

\* A new lifecycle only takes over a cooldown, starts a full one, or starts
\* the shorter delay of an EARLY signal.
Delays(l, m) ==
  \/ m.cooldown \in {None, l.cooldown, CooldownTime}
  \/ l.state = "EARLY" /\ m.cooldown = RearmTime

-----------------------------------------------------------------------------

\* The lifecycles _lifecycle creates are sound.
LEMMA FreshSound == Sound(Fresh, NoHistory)
  BY TimeAssumption, SMT
  DEF Sound, Fresh, NoHistory, Lifecycle, History, Tidy, Agree, Timer, None, State,
      Active, CooldownMax, Larger

\* The delays fit the deadline field, and EARLY's silence is the shorter one.
LEMMA DelayTypes ==
  /\ CooldownMax \in Nat
  /\ RearmTime \in Timer(CooldownMax)
  /\ CooldownTime \in Timer(CooldownMax)
  /\ QuietAfter("EARLY") \in 0..CooldownTime
  /\ QuietAfter("EARLY") <= RearmTime
  BY TimeAssumption DEF Timer, None, CooldownMax, Larger, QuietAfter, Smaller

\* What the closing operators build is a lifecycle.
LEMMA ClosedTypes ==
  ASSUME NEW l \in Lifecycle, NEW state \in State
  PROVE  /\ To(l, state) \in Lifecycle
         /\ CloseEarly(l, state) \in Lifecycle
         /\ CloseBy(l, state) \in Lifecycle
         /\ FlipClosed(l) \in Lifecycle
<1>1. To(l, state) \in Lifecycle
  BY DEF To, Lifecycle
<1>2. \A x \in State : CloseEarly(l, x) \in Lifecycle
  BY DelayTypes DEF CloseEarly, To, Lifecycle
<1>3. [To(l, "COOLDOWN") EXCEPT !.cooldown = CooldownTime] \in Lifecycle
  BY DelayTypes DEF To, Lifecycle, State
<1> QED BY <1>1, <1>2, <1>3 DEF CloseBy, FlipClosed, State

\* The timers a watched signal keeps, and what keeping them leaves alone.
LEMMA WatchTypes ==
  ASSUME NEW l \in Lifecycle, NEW c
  PROVE  /\ WatchKept(l, c) \in Lifecycle
         /\ WatchKept(l, c).held = WatchHeld(l, c)
         /\ WatchKept(l, c).state = l.state
         /\ WatchKept(l, c).levels = l.levels
         /\ WatchKept(l, c).started = l.started
         /\ WatchKept(l, c).confirmed = l.confirmed
         /\ WatchKept(l, c).cooldown = l.cooldown
<1>1. WatchWeak(l, c) \in Timer(WeakHold) /\ WatchHeld(l, c) \in Timer(ConfirmHold)
  BY TimeAssumption DEF WatchWeak, WatchHeld, Started, Lifecycle, Timer, None
<1>2. /\ Weakened(l, c) \in Lifecycle
      /\ Weakened(l, c).state = l.state
      /\ Weakened(l, c).levels = l.levels
      /\ Weakened(l, c).started = l.started
      /\ Weakened(l, c).confirmed = l.confirmed
      /\ Weakened(l, c).cooldown = l.cooldown
  BY <1>1 DEF Weakened, Lifecycle
<1> QED BY <1>1, <1>2 DEF WatchKept, Lifecycle

\* Remember does what Kept says of it.
LEMMA RememberFacts ==
  ASSUME NEW h \in History, h.due <= CooldownTime,
         NEW before \in State, NEW after \in State, NEW open \in BOOLEAN
  PROVE  Kept(h, before, after, open, Remember(h, before, after, open))
<1>1. QuietAfter(before) \in 0..CooldownTime /\ CooldownTime \in 0..CooldownMax
  BY DelayTypes, TimeAssumption DEF QuietAfter, Smaller, Timer, None
<1>2. (IF before = "WATCH" /\ open THEN Started(h.gate) ELSE None) \in Timer(ConfirmHold)
  BY TimeAssumption DEF History, Timer, Started, None
<1> QED BY <1>1, <1>2, DelayTypes, TimeAssumption DEF Kept, Remember, History

\* A move that neither confirms nor keeps a running hold timer is good when it
\* leaves a tidy lifecycle, follows an edge and sets no cooldown of its own.
LEMMA PlainMove ==
  ASSUME NEW l, NEW h, Sound(l, h), NEW open \in BOOLEAN,
         NEW m \in Lifecycle, Tidy(m), Edge(l.state, m.state), Delays(l, m),
         m.state = "CONFIRMED" => l.state = "CONFIRMED",
         m.state = "WATCH" => m.held = None,
         l.state = "COOLDOWN" /\ m.state = "NORMAL" => h.due = 0
  PROVE  GoodMove(l, h, m, open)
<1> DEFINE k == Remember(h, l.state, m.state, open)
<1>1. /\ l \in Lifecycle /\ Tidy(l) /\ Agree(l, h) /\ h \in History
      /\ l.state \in State /\ m.state \in State /\ h.due <= CooldownTime
  BY DEF Sound, Agree, Lifecycle
<1>2. Kept(h, l.state, m.state, open, k)
  BY <1>1, RememberFacts
<1> HIDE DEF k
<1>3. h.due \in Nat /\ k.due \in Nat
  BY <1>1, <1>2 DEF History, Kept
<1>4. m.cooldown # None => m.cooldown >= k.due
  <2>1. CASE l.state \in Active /\ m.state \notin Active
    <3>1. k.due = QuietAfter(l.state) /\ l.cooldown = None
      BY <2>1, <1>1, <1>2 DEF Kept, Tidy
    <3>2. QuietAfter(l.state) <= CooldownTime /\ (l.state = "EARLY" => QuietAfter(l.state) <= RearmTime)
      BY DelayTypes, TimeAssumption DEF QuietAfter
    <3> QED BY <3>1, <3>2 DEF Delays
  <2>2. CASE l.state \notin Active \/ m.state \in Active
    <3>1. k.due = h.due
      BY <2>2, <1>2 DEF Kept
    <3>2. CASE l.state \in Active
      BY <2>2, <3>1, <3>2, <1>1, <1>3, TimeAssumption DEF Agree, Tidy, Delays, None
    <3>3. CASE l.state \notin Active
      BY <3>1, <3>3, <1>1, <1>3 DEF Agree, Delays, Active
    <3> QED BY <3>2, <3>3
  <2> QED BY <2>1, <2>2
<1>5. m.state \in Active \cup {"NORMAL"} => k.due = 0
  <2> SUFFICES ASSUME m.state \in Active \cup {"NORMAL"}
               PROVE  k.due = 0
    OBVIOUS
  <2>1. CASE l.state \in Active /\ m.state = "NORMAL"
    BY <2>1 DEF Edge, Active, Abstract!Active, Abstract!Promotions,
                Abstract!Closings, Abstract!Settlings
  <2>2. CASE l.state \in Active /\ m.state # "NORMAL"
    BY <2>2, <1>1, <1>2 DEF Agree, Kept
  <2>3. CASE l.state \notin Active
    <3>1. l.state = "NORMAL" \/ (l.state = "COOLDOWN" /\ m.state = "NORMAL")
      BY <2>3, <1>1 DEF Edge, Active, State, Abstract!Active, Abstract!Promotions,
                        Abstract!Closings, Abstract!Settlings
    <3> QED BY <3>1, <2>3, <1>1, <1>2 DEF Agree, Kept
  <2> QED BY <2>1, <2>2, <2>3
<1>6. Agree(m, k)
  BY <1>2, <1>4, <1>5 DEF Agree, Kept
<1> QED BY <1>2, <1>6 DEF GoodMove, Sound, Kept, k

\* The edges of the abstract lifecycle, spelled out.
LEMMA Edges ==
  /\ \A x \in State : Edge(x, x)
  /\ \A x \in Active : Edge(x, "INVALIDATED") /\ Edge(x, "TOO_LATE")
  /\ \A x \in Active \ {"EARLY"} : Edge(x, "COOLDOWN")
  /\ Edge("NORMAL", "CANDIDATE") /\ Edge("NORMAL", "TOO_LATE")
  /\ Edge("CANDIDATE", "EARLY") /\ Edge("CANDIDATE", "WATCH")
  /\ Edge("EARLY", "WATCH") /\ Edge("WATCH", "CONFIRMED")
  /\ Edge("INVALIDATED", "TOO_LATE") /\ Edge("INVALIDATED", "COOLDOWN")
  /\ Edge("TOO_LATE", "COOLDOWN") /\ Edge("COOLDOWN", "NORMAL")
  BY DEF Edge, Active, Abstract!Active, Abstract!Promotions, Abstract!Closings,
         Abstract!Settlings

\* A direction flip closes an active lifecycle.
LEMMA FlipGood ==
  ASSUME NEW l, NEW h, Sound(l, h), NEW open \in BOOLEAN, l.state \in Active
  PROVE  GoodMove(l, h, FlipClosed(l), open)
<1> DEFINE m == FlipClosed(l)
<1>1. m \in Lifecycle
  BY ClosedTypes DEF Sound, State
<1>2. /\ Tidy(m) /\ Delays(l, m)
      /\ m.state = IF l.state = "EARLY" THEN "INVALIDATED" ELSE "COOLDOWN"
  BY DelayTypes, TimeAssumption
  DEF FlipClosed, CloseEarly, To, Sound, Lifecycle, Tidy, Delays, Active, None
<1> QED BY <1>1, <1>2, Edges, PlainMove

\* Stale data closes an active lifecycle and stops the hold timer.
LEMMA StaleGood ==
  ASSUME NEW l, NEW h, Sound(l, h), NEW open \in BOOLEAN
  PROVE  GoodMove(l, h, Stalled(l), open)
<1> DEFINE m == Stalled(l)
<1>1. m \in Lifecycle
  <2>1. [l EXCEPT !.held = None] \in Lifecycle
    BY TimeAssumption DEF Sound, Lifecycle, Timer, None
  <2> QED BY <2>1, ClosedTypes DEF Stalled, State
<1>2. /\ Tidy(m) /\ Delays(l, m)
      /\ m.state = IF l.state \in Active THEN "INVALIDATED" ELSE l.state
  BY DelayTypes, TimeAssumption
  DEF Stalled, CloseBy, CloseEarly, To, Sound, Lifecycle, Tidy, Delays, Active, None
<1>3. l.state \in State
  BY DEF Sound, Lifecycle
<1> QED BY <1>1, <1>2, <1>3, Edges, PlainMove DEF Active

\* Stage C, or the entry filter, invalidates an active lifecycle.
LEMMA InvalidateGood ==
  ASSUME NEW l, NEW h, Sound(l, h), NEW open \in BOOLEAN, l.state \in Active
  PROVE  GoodMove(l, h, To(l, "INVALIDATED"), open)
<1> DEFINE m == To(l, "INVALIDATED")
<1>1. m \in Lifecycle
  BY ClosedTypes DEF Sound, State
<1>2. Tidy(m) /\ Delays(l, m) /\ m.state = "INVALIDATED"
  BY DEF To, Sound, Lifecycle, Tidy, Delays, Active
<1> QED BY <1>1, <1>2, Edges, PlainMove

\* A late move ends a lifecycle that is open or invalidated.
LEMMA LateGood ==
  ASSUME NEW l, NEW h, Sound(l, h), NEW open \in BOOLEAN, NEW c, Late(l, c)
  PROVE  GoodMove(l, h, CloseBy(l, "TOO_LATE"), open)
<1> DEFINE m == CloseBy(l, "TOO_LATE")
<1>1. m \in Lifecycle
  BY ClosedTypes DEF Sound, State
<1>2. l.state \in Active \cup {"INVALIDATED"}
  BY DEF Late, Sound, Lifecycle, State, Active
<1>3. Tidy(m) /\ Delays(l, m) /\ m.state = "TOO_LATE"
  BY DelayTypes, TimeAssumption
  DEF CloseBy, CloseEarly, To, Sound, Lifecycle, Tidy, Delays, Active, None
<1> QED BY <1>1, <1>2, <1>3, Edges, PlainMove

\* A NORMAL lifecycle is refused as late, or opened.
LEMMA OpenGood ==
  ASSUME NEW l, NEW h, Sound(l, h), NEW open \in BOOLEAN, l.state = "NORMAL"
  PROVE  /\ GoodMove(l, h, To(l, "TOO_LATE"), open)
         /\ GoodMove(l, h, [To(l, "CANDIDATE") EXCEPT !.started = TRUE], open)
<1> DEFINE late  == To(l, "TOO_LATE")
           begun == [To(l, "CANDIDATE") EXCEPT !.started = TRUE]
<1>1. late \in Lifecycle /\ begun \in Lifecycle
  BY DEF To, Sound, Lifecycle, State
<1>2. Tidy(late) /\ Delays(l, late) /\ late.state = "TOO_LATE"
  BY DEF To, Sound, Lifecycle, Tidy, Delays, Active
<1>3. Tidy(begun) /\ Delays(l, begun) /\ begun.state = "CANDIDATE"
  BY DEF To, Sound, Lifecycle, Tidy, Delays, Active
<1>4. GoodMove(l, h, late, open)
  BY <1>1, <1>2, Edges, PlainMove
<1>5. GoodMove(l, h, begun, open)
  BY <1>1, <1>3, Edges, PlainMove
<1> QED BY <1>4, <1>5

\* A candidate flashes EARLY; it or an EARLY signal is promoted to WATCH.
LEMMA PromoteGood ==
  ASSUME NEW l, NEW h, Sound(l, h), NEW open \in BOOLEAN
  PROVE  /\ l.state = "CANDIDATE" =>
              GoodMove(l, h, To(l, "EARLY"), open) /\ GoodMove(l, h, EnterWatch(l), open)
         /\ l.state = "EARLY" => GoodMove(l, h, LeaveEarly(l), open)
<1> DEFINE early == To(l, "EARLY")
           watch == EnterWatch(l)
           later == LeaveEarly(l)
<1>1. early \in Lifecycle /\ watch \in Lifecycle /\ later \in Lifecycle
  BY DEF EnterWatch, LeaveEarly, To, Sound, Lifecycle, State
<1>2. ASSUME l.state = "CANDIDATE" PROVE GoodMove(l, h, early, open)
  <2>1. Tidy(early) /\ Delays(l, early) /\ early.state = "EARLY"
    BY <1>2 DEF To, Sound, Lifecycle, Tidy, Delays, Active
  <2> QED BY <1>1, <1>2, <2>1, Edges, PlainMove
<1>3. ASSUME l.state = "CANDIDATE" PROVE GoodMove(l, h, watch, open)
  <2>1. /\ Tidy(watch) /\ Delays(l, watch)
        /\ watch.state = "WATCH" /\ watch.held = None
    BY <1>3 DEF EnterWatch, To, Sound, Lifecycle, Tidy, Delays, Active
  <2> QED BY <1>1, <1>3, <2>1, Edges, PlainMove
<1>4. ASSUME l.state = "EARLY" PROVE GoodMove(l, h, later, open)
  <2>1. /\ Tidy(later) /\ Delays(l, later)
        /\ later.state = "WATCH" /\ later.held = None
    BY <1>4 DEF EnterWatch, LeaveEarly, To, Sound, Lifecycle, Tidy, Delays, Active
  <2> QED BY <1>1, <1>4, <2>1, Edges, PlainMove
<1> QED BY <1>2, <1>3, <1>4

\* An EARLY signal keeps its weakness timer, and is closed by its own rules.
LEMMA EarlyGood ==
  ASSUME NEW l, NEW h, Sound(l, h), NEW open \in BOOLEAN, NEW c, l.state = "EARLY"
  PROVE  /\ GoodMove(l, h, CloseEarly(l, "TOO_LATE"), open)
         /\ GoodMove(l, h, CloseEarly(EarlyKept(l, c), "INVALIDATED"), open)
         /\ GoodMove(l, h, EarlyKept(l, c), open)
<1> DEFINE e    == EarlyKept(l, c)
           late == CloseEarly(l, "TOO_LATE")
           weak == CloseEarly(e, "INVALIDATED")
<1>1. e \in Lifecycle
  <2>1. EarlyWeak(l, c) \in Timer(EarlyHold)
    BY TimeAssumption DEF EarlyWeak, Started, Sound, Lifecycle, Timer, None
  <2> QED BY <2>1 DEF EarlyKept, Sound, Lifecycle
<1>2. late \in Lifecycle /\ weak \in Lifecycle
  BY <1>1, ClosedTypes DEF Sound, State
<1>3. Tidy(e) /\ Delays(l, e) /\ e.state = "EARLY"
  BY DEF EarlyKept, Sound, Lifecycle, Tidy, Delays, Active
<1>4. Tidy(late) /\ Delays(l, late) /\ late.state = "TOO_LATE"
  BY DEF CloseEarly, To, Sound, Lifecycle, Tidy, Delays, Active
<1>5. Tidy(weak) /\ Delays(l, weak) /\ weak.state = "INVALIDATED"
  BY <1>1, <1>3 DEF CloseEarly, To, Lifecycle, Tidy, Delays, Active
<1>6. GoodMove(l, h, late, open)
  BY <1>2, <1>4, Edges, PlainMove DEF Active
<1>7. GoodMove(l, h, weak, open)
  BY <1>2, <1>5, Edges, PlainMove DEF Active
<1>8. GoodMove(l, h, e, open)
  BY <1>1, <1>3, Edges, PlainMove DEF State
<1> QED BY <1>6, <1>7, <1>8

\* A weak WATCH is invalidated.
LEMMA WatchCloseGood ==
  ASSUME NEW l, NEW h, Sound(l, h), NEW open \in BOOLEAN, NEW c, l.state = "WATCH"
  PROVE  GoodMove(l, h, To(Weakened(l, c), "INVALIDATED"), open)
<1> DEFINE m == To(Weakened(l, c), "INVALIDATED")
<1>1. Weakened(l, c) \in Lifecycle
  <2>1. WatchWeak(l, c) \in Timer(WeakHold)
    BY TimeAssumption DEF WatchWeak, Started, Sound, Lifecycle, Timer, None
  <2> QED BY <2>1 DEF Weakened, Sound, Lifecycle
<1>2. m \in Lifecycle
  BY <1>1, ClosedTypes DEF State
<1>3. Tidy(m) /\ Delays(l, m) /\ m.state = "INVALIDATED"
  BY DEF To, Weakened, Sound, Lifecycle, Tidy, Delays, Active
<1> QED BY <1>2, <1>3, Edges, PlainMove DEF Active

\* A confirmed signal is over, a closed one cools down, a cooled one is free.
LEMMA SettleGood ==
  ASSUME NEW l, NEW h, Sound(l, h), NEW open \in BOOLEAN
  PROVE  /\ l.state = "CONFIRMED" =>
              GoodMove(l, h, [To(l, "COOLDOWN") EXCEPT !.cooldown = CooldownTime], open)
         /\ l.state \in {"INVALIDATED", "TOO_LATE"} =>
              GoodMove(l, h, EnterCooldown(l), open)
         /\ l.state = "COOLDOWN" /\ CooldownOver(l) =>
              GoodMove(l, h, To(Reset(l), "NORMAL"), open)
<1> DEFINE over == [To(l, "COOLDOWN") EXCEPT !.cooldown = CooldownTime]
           cold == EnterCooldown(l)
           free == To(Reset(l), "NORMAL")
<1>1. over \in Lifecycle /\ cold \in Lifecycle
  BY DelayTypes DEF To, EnterCooldown, Sound, Lifecycle, State
<1>2. free \in Lifecycle
  <2>1. Reset(l) \in Lifecycle
    <3>1. None \in Timer(ConfirmHold) /\ None \in Timer(WeakHold)
          /\ None \in Timer(EarlyHold) /\ None \in Timer(ConfirmedMax)
          /\ None \in Timer(CooldownMax)
      BY TimeAssumption, DelayTypes DEF Timer, None
    <3> QED BY <3>1 DEF Reset, Sound, Lifecycle
  <2> QED BY <2>1, ClosedTypes DEF State
<1>3. ASSUME l.state = "CONFIRMED" PROVE GoodMove(l, h, over, open)
  <2>1. Tidy(over) /\ Delays(l, over) /\ over.state = "COOLDOWN"
    BY <1>3, TimeAssumption DEF To, Sound, Lifecycle, Tidy, Delays, Active, None
  <2> QED BY <1>1, <1>3, <2>1, Edges, PlainMove DEF Active
<1>4. ASSUME l.state \in {"INVALIDATED", "TOO_LATE"} PROVE GoodMove(l, h, cold, open)
  <2>1. Tidy(cold) /\ Delays(l, cold) /\ cold.state = "COOLDOWN"
    BY <1>4, TimeAssumption
    DEF EnterCooldown, To, Sound, Lifecycle, Tidy, Delays, Active, None
  <2> QED BY <1>1, <1>4, <2>1, Edges, PlainMove
<1>5. ASSUME l.state = "COOLDOWN", CooldownOver(l) PROVE GoodMove(l, h, free, open)
  <2>1. Tidy(free) /\ Delays(l, free) /\ free.state = "NORMAL"
    BY DEF Reset, To, Sound, Lifecycle, Tidy, Delays, Active
  <2>2. h.due = 0
    <3>1. h.due \in Nat /\ l.cooldown <= 0 /\ h.due <= l.cooldown /\ l.cooldown \in Int
      BY <1>5, DelayTypes
      DEF CooldownOver, Sound, Agree, History, Lifecycle, Timer, None
    <3> QED BY <3>1
  <2> QED BY <1>2, <1>5, <2>1, <2>2, Edges, PlainMove
<1> QED BY <1>3, <1>4, <1>5

\* A pass that changes nothing; a watched signal always rewrites its timers.
LEMMA SameGood ==
  ASSUME NEW l, NEW h, Sound(l, h), NEW open \in BOOLEAN, l.state # "WATCH"
  PROVE  GoodMove(l, h, l, open)
<1>1. l \in Lifecycle /\ Tidy(l) /\ l.state \in State /\ Delays(l, l)
  BY DEF Sound, Lifecycle, Delays
<1> QED BY <1>1, Edges, PlainMove

\* A watched signal keeps its timers, or is confirmed once its gate was open
\* for ConfirmHold: its hold timer never runs ahead of the gate it watches.
LEMMA WatchGood ==
  ASSUME NEW l, NEW h, Sound(l, h), NEW c, NEW open \in BOOLEAN,
         l.state = "WATCH", open = ConfirmGate(c)
  PROVE  /\ GoodMove(l, h, WatchKept(l, c), open)
         /\ open /\ WatchHeld(l, c) >= ConfirmHold =>
              GoodMove(l, h, Confirmed(l, c), open)
<1> DEFINE w == WatchKept(l, c)
           m == Confirmed(l, c)
           gate == Started(h.gate)
<1>1. /\ l \in Lifecycle /\ h \in History /\ Tidy(l) /\ Agree(l, h)
      /\ l.state \in State /\ h.due = 0 /\ h.due <= CooldownTime
  BY DEF Sound, Agree, Lifecycle, Active
<1>2. /\ w \in Lifecycle /\ w.held = WatchHeld(l, c) /\ w.state = "WATCH"
      /\ w.levels = l.levels /\ w.started = l.started
      /\ w.confirmed = l.confirmed /\ w.cooldown = l.cooldown
  BY <1>1, WatchTypes
<1> HIDE DEF w
<1>3. Tidy(w) /\ w.cooldown = None
  BY <1>1, <1>2 DEF Tidy, Active
<1>4. open => gate >= WatchHeld(l, c)
  <2>1. l.held \in Int /\ h.gate \in Int /\ h.gate >= None
    BY <1>1, TimeAssumption DEF Lifecycle, History, Timer, None
  <2>2. CASE l.held = None
    BY <2>1, <2>2 DEF WatchHeld, Started, None
  <2>3. CASE l.held # None
    <3>1. h.gate >= l.held /\ l.held >= 0
      BY <2>3, <1>1, TimeAssumption DEF Agree, Lifecycle, Timer, None
    <3> QED BY <2>1, <2>3, <3>1 DEF WatchHeld, Started, None
  <2> QED BY <2>2, <2>3
<1>5. GoodMove(l, h, w, open)
  <2> DEFINE k == Remember(h, l.state, w.state, open)
  <2>1. Kept(h, l.state, w.state, open, k)
    BY <1>1, <1>2, RememberFacts
  <2> HIDE DEF k
  <2>2. k.due = 0 /\ (open => k.gate = gate)
    BY <1>1, <1>2, <2>1 DEF Kept, Active
  <2>3. ~open => w.held = None
    BY <1>2 DEF WatchHeld
  <2>4. Agree(w, k)
    BY <1>2, <1>3, <1>4, <2>2, <2>3, TimeAssumption DEF Agree
  <2>5. k \in History /\ Edge(l.state, w.state)
    BY <1>1, <1>2, <2>1, Edges DEF Kept
  <2> QED BY <1>2, <1>3, <2>4, <2>5 DEF GoodMove, Sound, k
<1>6. ASSUME open, WatchHeld(l, c) >= ConfirmHold PROVE GoodMove(l, h, m, open)
  <2> DEFINE k == Remember(h, l.state, m.state, open)
  <2>1. /\ m \in Lifecycle /\ m.state = "CONFIRMED" /\ m.confirmed = 0
        /\ m.levels = w.levels /\ m.started = w.started /\ m.cooldown = w.cooldown
    <3>1. 0 \in Timer(ConfirmedMax) /\ "CONFIRMED" \in State
      BY TimeAssumption DEF Timer, None, State
    <3>2. m = [w EXCEPT !.state = "CONFIRMED", !.confirmed = 0]
      BY <1>2 DEF Confirmed, To, Lifecycle, w
    <3> HIDE DEF m
    <3> QED BY <1>2, <3>1, <3>2 DEF Lifecycle
  <2> HIDE DEF m
  <2>2. Kept(h, l.state, m.state, open, k)
    BY <1>1, <2>1, RememberFacts DEF State
  <2> HIDE DEF k
  <2>3. k.due = 0 /\ k.gate = gate
    BY <1>1, <1>6, <2>1, <2>2 DEF Kept, Active
  <2>4. Tidy(m)
    BY <1>1, <1>2, <1>3, <2>1 DEF Tidy, Active, None
  <2>5. Agree(m, k)
    BY <1>3, <2>1, <2>3, TimeAssumption DEF Agree
  <2>6. gate >= ConfirmHold
    <3>1. gate \in Int /\ WatchHeld(l, c) \in Int
      BY <1>1, TimeAssumption
      DEF WatchHeld, Started, Lifecycle, History, Timer, None
    <3> HIDE DEF gate
    <3> QED BY <1>4, <1>6, <3>1, TimeAssumption
  <2>7. k \in History /\ Edge(l.state, m.state)
    BY <1>1, <2>1, <2>2, Edges DEF Kept
  <2> QED BY <2>1, <2>3, <2>4, <2>5, <2>6, <2>7 DEF GoodMove, Sound, k
<1> QED BY <1>5, <1>6 DEF w

-----------------------------------------------------------------------------

\* A direction that is not active stays sound while a pass records the other.
LEMMA IdleSound ==
  ASSUME NEW l, NEW h, Sound(l, h), NEW open \in BOOLEAN, l.state \notin Active
  PROVE  Sound(l, Remember(h, l.state, l.state, open))
<1>1. GoodMove(l, h, l, open)
  BY SameGood DEF Active
<1> QED BY <1>1 DEF GoodMove

\* What Record leaves in the two directions of its symbol and everywhere else.
LEMMA RecordEffect ==
  ASSUME TypeOK, NEW s \in Symbol, NEW c \in Candidate, NEW d \in Direction, NEW m,
         Record(s, c, d, m)
  PROVE  /\ lc'[s][d] = m
         /\ seen'[s][d] = Remember(seen[s][d], lc[s][d].state, m.state, GateSeen(c, d))
         /\ lc'[s][Opposite(d)] = lc[s][Opposite(d)]
         /\ seen'[s][Opposite(d)] =
              Remember(seen[s][Opposite(d)], lc[s][Opposite(d)].state,
                       lc[s][Opposite(d)].state, GateSeen(c, Opposite(d)))
         /\ \A r \in Symbol \ {s} : lc'[r] = lc[r] /\ seen'[r] = seen[r]
         /\ DOMAIN lc' = Symbol /\ DOMAIN seen' = Symbol
         /\ DOMAIN lc'[s] = Direction /\ DOMAIN seen'[s] = Direction
         /\ awaited' \subseteq Symbol
         /\ Opposite(d) \in Direction /\ Opposite(d) # d
         /\ Direction = {d, Opposite(d)}
<1>1. Opposite(d) \in Direction /\ Opposite(d) # d /\ Direction = {d, Opposite(d)}
  BY DEF Direction, Opposite
<1> QED BY <1>1 DEF TypeOK, Record, GateSeen

\* Recording a good move of one direction, while the other is not active,
\* keeps the invariant.
LEMMA RecordSound ==
  ASSUME IInv, NEW s \in Symbol, NEW c \in Candidate, NEW d \in Direction, NEW m,
         Step(s, c, d, m)
  PROVE  IInv'
<1> DEFINE o == Opposite(d)
<1>1. TypeOK /\ Record(s, c, d, m)
  BY DEF IInv, Step
<1>2. /\ lc'[s][d] = m /\ Sound(m, seen'[s][d])
      /\ lc'[s][o] = lc[s][o] /\ Direction = {d, o} /\ o \in Direction
      /\ \A r \in Symbol \ {s} : lc'[r] = lc[r] /\ seen'[r] = seen[r]
  BY <1>1, RecordEffect DEF Step, GoodMove
<1>3. Sound(lc'[s][o], seen'[s][o])
  <2>1. Sound(lc[s][o], seen[s][o]) /\ lc[s][o].state \notin Active
    BY <1>2 DEF IInv, Step
  <2>2. GateSeen(c, o) \in BOOLEAN
    BY DEF GateSeen
  <2> QED BY <1>1, <2>1, <2>2, IdleSound, RecordEffect
<1>4. \A r \in Symbol, e \in Direction : Sound(lc'[r][e], seen'[r][e])
  BY <1>2, <1>3 DEF IInv
<1>5. TypeOK'
  <2>1. /\ m \in Lifecycle
        /\ \A e \in Direction : seen'[s][e] \in History
    BY <1>2, <1>4 DEF Sound
  <2>2. lc' \in [Symbol -> [Direction -> Lifecycle]]
    BY <1>1, <2>1 DEF TypeOK, Record
  <2>3. seen'[s] \in [Direction -> History]
    BY <1>1, <2>1 DEF TypeOK, Record
  <2>4. seen' \in [Symbol -> [Direction -> History]]
    BY <1>1, <2>3 DEF TypeOK, Record
  <2> QED BY <1>1, <2>2, <2>4 DEF TypeOK, Record
<1>6. ExclusiveDirections'
  <2>1. lc'[s][o].state \notin Active
    BY <1>2 DEF Step
  <2> QED BY <1>2, <2>1 DEF IInv, ExclusiveDirections, Direction
<1> QED BY <1>4, <1>5, <1>6 DEF IInv

\* One unit of time keeps a sound lifecycle sound.
LEMMA OlderSound ==
  ASSUME NEW l, NEW h, Sound(l, h)
  PROVE  Sound(Older(l), [h EXCEPT !.gate = Aged(@, ConfirmHold), !.due = Left(@)])
<1> DEFINE m == Older(l)
           k == [h EXCEPT !.gate = Aged(@, ConfirmHold), !.due = Left(@)]
<1>1. l \in Lifecycle /\ h \in History /\ Tidy(l) /\ Agree(l, h)
  BY DEF Sound
<1>2. ASSUME NEW limit \in Nat, NEW t \in Timer(limit)
      PROVE  /\ Aged(t, limit) \in Timer(limit)
             /\ Aged(t, limit) = None <=> t = None
  BY <1>2 DEF Aged, Timer, None
<1>3. ASSUME NEW t \in Timer(CooldownMax)
      PROVE  /\ Left(t) \in Timer(CooldownMax)
             /\ Left(t) = None <=> t = None
  BY <1>3, DelayTypes DEF Left, Timer, None
<1>4. /\ m \in Lifecycle /\ m.state = l.state
      /\ m.started = l.started /\ m.levels = l.levels
      /\ m.held = Aged(l.held, ConfirmHold) /\ m.weak = Aged(l.weak, WeakHold)
      /\ m.earlyWeak = Aged(l.earlyWeak, EarlyHold)
      /\ m.confirmed = Aged(l.confirmed, ConfirmedMax)
      /\ m.cooldown = Left(l.cooldown)
  BY <1>1, <1>2, <1>3, TimeAssumption DEF Older, Lifecycle
<1>5. k \in History /\ k.gate = Aged(h.gate, ConfirmHold) /\ k.due = Left(h.due)
  <2>1. Left(h.due) \in 0..CooldownMax
    BY <1>1, DelayTypes DEF Left, History
  <2> QED BY <1>1, <1>2, <2>1, TimeAssumption DEF History
<1>6. Tidy(m)
  <2>1. /\ m.held = None <=> l.held = None
        /\ m.weak = None <=> l.weak = None
        /\ m.earlyWeak = None <=> l.earlyWeak = None
        /\ m.confirmed = None <=> l.confirmed = None
        /\ m.cooldown = None <=> l.cooldown = None
    BY <1>1, <1>2, <1>3, <1>4, TimeAssumption DEF Lifecycle
  <2> QED BY <1>1, <1>4, <2>1 DEF Tidy
<1>7. Agree(m, k)
  BY <1>1, <1>4, <1>5, TimeAssumption, DelayTypes
  DEF Agree, Aged, Left, Lifecycle, History, Timer, None
<1> QED BY <1>4, <1>5, <1>6, <1>7 DEF Sound

\* The invariant survives a unit of time.
LEMMA TickSound ==
  ASSUME IInv, Tick
  PROVE  IInv'
<1>1. ASSUME NEW s \in Symbol, NEW d \in Direction
      PROVE  /\ Sound(lc'[s][d], seen'[s][d])
             /\ lc'[s][d].state = lc[s][d].state
  <2>1. Sound(lc[s][d], seen[s][d])
    BY <1>1 DEF IInv
  <2>2. /\ lc'[s][d] = Older(lc[s][d])
        /\ seen'[s][d] = [seen[s][d] EXCEPT !.gate = Aged(@, ConfirmHold),
                                            !.due = Left(@)]
    BY <1>1 DEF Tick
  <2>3. Older(lc[s][d]).state = lc[s][d].state
    BY <2>1 DEF Older, Sound, Lifecycle
  <2>4. Sound(Older(lc[s][d]),
              [seen[s][d] EXCEPT !.gate = Aged(@, ConfirmHold), !.due = Left(@)])
    BY <2>1, OlderSound
  <2> QED BY <2>2, <2>3, <2>4
<1>2. TypeOK'
  <2>1. /\ \A s \in Symbol, d \in Direction : Older(lc[s][d]) \in Lifecycle
        /\ \A s \in Symbol, d \in Direction :
             [seen[s][d] EXCEPT !.gate = Aged(@, ConfirmHold), !.due = Left(@)] \in History
    BY OlderSound DEF Sound, IInv
  <2> QED BY <2>1 DEF TypeOK, Tick
<1>3. ExclusiveDirections'
  BY <1>1 DEF IInv, ExclusiveDirections, Direction
<1> QED BY <1>1, <1>2, <1>3 DEF IInv

\* Every pass of advance, whatever branch it takes, is one good move of one
\* direction while the other direction is not active.
LEMMA ScanStep ==
  ASSUME IInv, NEW s \in Symbol, NEW c \in Candidate, Scan(s, c)
  PROVE  \E d \in Direction, m \in Lifecycle : Step(s, c, d, m)
<1> DEFINE l == lc[s][c.dir]
           h == seen[s][c.dir]
           open == GateSeen(c, c.dir)
           other == lc[s][Opposite(c.dir)]
           Good(m) == Record(s, c, c.dir, m) /\ GoodMove(l, h, m, open)
<1>1. /\ c.dir \in Direction /\ Opposite(c.dir) \in Direction
      /\ Opposite(Opposite(c.dir)) = c.dir
  BY DEF Candidate, Direction, Opposite
<1>2. Sound(l, h) /\ Sound(other, seen[s][Opposite(c.dir)]) /\ open \in BOOLEAN
  BY <1>1 DEF IInv, GateSeen
<1>3. ASSUME NEW m, ~FlipDue(s, c.dir), Good(m)
      PROVE  \E d \in Direction, n \in Lifecycle : Step(s, c, d, n)
  <2>1. Step(s, c, c.dir, m) /\ m \in Lifecycle
    BY <1>3 DEF Step, FlipDue, GoodMove, Sound
  <2> QED BY <1>1, <2>1
<1>4. CASE DirectionFlip(s, c)
  <2> DEFINE o == Opposite(c.dir)
             m == FlipClosed(other)
  <2>1. other.state \in Active /\ Record(s, c, o, m)
    BY <1>4 DEF DirectionFlip, FlipDue
  <2>2. l.state \notin Active
    BY <1>1, <2>1 DEF IInv, ExclusiveDirections, Direction, Opposite
  <2>3. GateSeen(c, o) \in BOOLEAN
    BY DEF GateSeen
  <2>4. GoodMove(other, seen[s][o], m, GateSeen(c, o))
    BY <1>2, <2>1, <2>3, FlipGood
  <2>5. Step(s, c, o, m) /\ m \in Lifecycle
    BY <1>1, <2>1, <2>2, <2>4 DEF Step, GoodMove, Sound
  <2> QED BY <1>1, <2>5
<1>5. CASE DataStale(s, c)
  BY <1>2, <1>3, <1>5, StaleGood DEF DataStale
<1>6. CASE StageCInvalidated(s, c)
  BY <1>2, <1>3, <1>6, InvalidateGood DEF StageCInvalidated, Invalidating
<1>7. CASE TooLate(s, c)
  BY <1>2, <1>3, <1>7, LateGood DEF TooLate
<1>8. CASE RefuseLate(s, c) \/ OpenCandidate(s, c)
  BY <1>2, <1>3, <1>8, OpenGood DEF RefuseLate, OpenCandidate, In
<1>9. CASE FlashEarly(s, c) \/ CandidateToWatch(s, c) \/ EarlyToWatch(s, c)
  BY <1>2, <1>3, <1>9, PromoteGood DEF FlashEarly, CandidateToWatch, EarlyToWatch, In
<1>10. CASE SkipEntry(s, c)
  BY <1>2, <1>3, <1>10, InvalidateGood DEF SkipEntry, In, Active
<1>11. CASE EarlyLimit(s, c) \/ EarlyInvalidate(s, c) \/ EarlyStays(s, c)
  BY <1>2, <1>3, <1>11, EarlyGood DEF EarlyLimit, EarlyInvalidate, EarlyStays, In
<1>12. CASE WatchInvalidate(s, c)
  BY <1>2, <1>3, <1>12, WatchCloseGood DEF WatchInvalidate, In
<1>13. CASE Confirm(s, c) \/ WatchStays(s, c)
  <2>1. /\ l.state = "WATCH" /\ c.fresh /\ ~FlipDue(s, c.dir)
        /\ open = ConfirmGate(c)
    BY <1>13 DEF Confirm, WatchStays, In, GateSeen, ConfirmGate
  <2> QED BY <1>2, <1>3, <1>13, <2>1, WatchGood DEF Confirm, WatchStays
<1>14. CASE CompleteConfirmed(s, c) \/ TerminalCooldown(s, c) \/ CooldownExpired(s, c)
  BY <1>2, <1>3, <1>14, SettleGood
  DEF CompleteConfirmed, TerminalCooldown, CooldownExpired, In
<1>15. CASE NoTransition(s, c)
  BY <1>2, <1>3, <1>15, SameGood DEF NoTransition, In
<1> QED BY <1>4, <1>5, <1>6, <1>7, <1>8, <1>9, <1>10, <1>11, <1>12, <1>13,
           <1>14, <1>15 DEF Scan

-----------------------------------------------------------------------------

\* The invariant holds initially.
LEMMA InitSound == Init => IInv
<1> SUFFICES ASSUME Init PROVE IInv
  OBVIOUS
<1>1. \A s \in Symbol, d \in Direction : lc[s][d] = Fresh /\ seen[s][d] = NoHistory
  BY DEF Init
<1>2. Fresh \in Lifecycle /\ NoHistory \in History
  BY FreshSound DEF Sound
<1>3. TypeOK
  BY <1>2 DEF Init, TypeOK
<1>4. ExclusiveDirections
  <2>1. Fresh.state = "NORMAL" /\ "LONG" \in Direction
    BY DEF Fresh, Direction
  <2>2. \A s \in Symbol : lc[s]["LONG"].state = "NORMAL"
    BY <1>1, <2>1
  <2> QED BY <2>2 DEF ExclusiveDirections, Active
<1> QED BY <1>1, <1>3, <1>4, FreshSound DEF IInv

\* Every step keeps it.
LEMMA NextSound == IInv /\ [Next]_vars => IInv'
<1>1. CASE Next /\ IInv
  <2>1. ASSUME NEW s \in Symbol, NEW c \in Candidates, Scan(s, c) PROVE IInv'
    BY <1>1, <2>1, ScanStep, RecordSound, CandidatesAssumption
  <2> QED BY <1>1, <2>1, TickSound DEF Next
<1>2. CASE UNCHANGED vars /\ IInv
  BY <1>2 DEF vars, IInv, TypeOK, ExclusiveDirections
<1> QED BY <1>1, <1>2

\* The inductive invariant holds in every reachable state.
THEOREM Invariance == Spec => []IInv
  BY InitSound, NextSound, PTL DEF Spec

\* Type correctness, for any symbols, market and delays.
THEOREM TypeCorrect == Spec => []TypeOK
<1>1. IInv => TypeOK
  BY DEF IInv
<1> QED BY <1>1, Invariance, PTL

\* advance never leaves the two directions of a symbol active together.
THEOREM DirectionsExclude == Spec => []ExclusiveDirections
<1>1. IInv => ExclusiveDirections
  BY DEF IInv
<1> QED BY <1>1, Invariance, PTL

\* No timer or level outlives the signal it was set for.
THEOREM TimersNeverStale == Spec => []NoStaleTimers
<1>1. IInv => NoStaleTimers
  BY DEF IInv, NoStaleTimers, Sound
<1> QED BY <1>1, Invariance, PTL

\* The only state that changes in a step, if any, is the one of a good move.
LEMMA OneMove ==
  ASSUME IInv, [Next]_vars, NEW s \in Symbol, NEW d \in Direction
  PROVE  \/ lc'[s][d].state = lc[s][d].state
         \/ \E c \in Candidates, m \in Lifecycle :
              /\ Step(s, c, d, m)
              /\ lc'[s][d] = m
              /\ seen'[s][d] =
                   Remember(seen[s][d], lc[s][d].state, m.state, GateSeen(c, d))
              /\ Stages' = [Stages EXCEPT ![s][d] = m.state]
<1>1. TypeOK
  BY DEF IInv
<1>2. CASE Tick
  <2>1. Sound(lc[s][d], seen[s][d]) /\ lc'[s][d] = Older(lc[s][d])
    BY <1>2 DEF IInv, Tick
  <2> QED BY <2>1 DEF Older, Sound, Lifecycle
<1>3. ASSUME NEW r \in Symbol, NEW c \in Candidates, Scan(r, c),
             lc'[s][d].state # lc[s][d].state
      PROVE  \E m \in Lifecycle :
               /\ Step(s, c, d, m)
               /\ lc'[s][d] = m
               /\ seen'[s][d] =
                    Remember(seen[s][d], lc[s][d].state, m.state, GateSeen(c, d))
               /\ Stages' = [Stages EXCEPT ![s][d] = m.state]
  <2>1. PICK e \in Direction, m \in Lifecycle : Step(r, c, e, m)
    BY <1>3, ScanStep, CandidatesAssumption
  <2>2. Record(r, c, e, m) /\ c \in Candidate
    BY <2>1, CandidatesAssumption DEF Step
  <2>3. r = s /\ e = d
    <3>1. /\ \A q \in Symbol \ {r} : lc'[q] = lc[q]
          /\ lc'[r][Opposite(e)] = lc[r][Opposite(e)]
          /\ Direction = {e, Opposite(e)}
      BY <1>1, <2>2, RecordEffect
    <3>2. r = s
      BY <1>3, <3>1
    <3>3. e = d
      BY <1>3, <3>1, <3>2
    <3> QED BY <3>2, <3>3
  <2>4. Stages' = [Stages EXCEPT ![s][d] = m.state]
    BY <1>1, <2>2, <2>3 DEF Stages, Record, TypeOK
  <2>5. /\ lc'[s][d] = m
        /\ seen'[s][d] =
             Remember(seen[s][d], lc[s][d].state, m.state, GateSeen(c, d))
    BY <1>1, <2>2, <2>3, RecordEffect
  <2>6. Step(s, c, d, m)
    BY <2>1, <2>3
  <2> QED BY <2>4, <2>5, <2>6
<1>4. CASE UNCHANGED vars
  BY <1>4 DEF vars
<1> QED BY <1>2, <1>3, <1>4 DEF Next

\* A signal is confirmed only after its gate was open for ConfirmHold.
THEOREM ConfirmationHeld == Spec => HeldBeforeConfirm
<1>1. ASSUME IInv, [Next]_vars, NEW s \in Symbol, NEW d \in Direction,
             Becomes(s, d, "CONFIRMED")
      PROVE  seen'[s][d].gate >= ConfirmHold
  BY <1>1, OneMove DEF Becomes, Step, GoodMove
<1>2. IInv /\ [Next]_vars =>
        [\A s \in Symbol, d \in Direction :
           Becomes(s, d, "CONFIRMED") => seen'[s][d].gate >= ConfirmHold]_vars
  BY <1>1
<1> QED BY <1>2, Invariance, PTL DEF Spec, HeldBeforeConfirm

\* A direction stays silent until what its last closing imposed has passed.
THEOREM SilenceKept == Spec => QuietPeriod
<1>1. ASSUME IInv, [Next]_vars, NEW s \in Symbol, NEW d \in Direction,
             Becomes(s, d, "CANDIDATE")
      PROVE  seen[s][d].due = 0
  <2>1. Edge(lc[s][d].state, "CANDIDATE") /\ lc[s][d].state # "CANDIDATE"
    BY <1>1, OneMove DEF Becomes, Step, GoodMove
  <2>2. lc[s][d].state = "NORMAL"
    BY <2>1 DEF Edge, Abstract!Active, Abstract!Promotions, Abstract!Closings,
                Abstract!Settlings
  <2> QED BY <1>1, <2>2 DEF IInv, Sound, Agree
<1>2. IInv /\ [Next]_vars =>
        [\A s \in Symbol, d \in Direction :
           Becomes(s, d, "CANDIDATE") => seen[s][d].due = 0]_vars
  BY <1>1
<1> QED BY <1>2, Invariance, PTL DEF Spec, QuietPeriod

\* The lifecycles implement the abstract lifecycle.
THEOREM Refinement == Spec => KeepsLifecycle
<1>1. Init => Abstract!Init
  BY DEF Init, Abstract!Init, Stages, Fresh, Direction, Abstract!Direction
<1>2. IInv /\ [Next]_vars => [Abstract!Next]_Stages
  <2> SUFFICES ASSUME IInv, [Next]_vars, Stages' # Stages
               PROVE  Abstract!Next
    OBVIOUS
  <2>1. PICK s \in Symbol, d \in Direction : lc'[s][d].state # lc[s][d].state
    BY DEF Stages
  <2>2. PICK c \in Candidates, m \in Lifecycle :
          /\ Step(s, c, d, m)
          /\ lc'[s][d] = m
          /\ Stages' = [Stages EXCEPT ![s][d] = m.state]
    BY <2>1, OneMove
  <2>3. /\ Edge(Stages[s][d], m.state) /\ m.state # Stages[s][d]
        /\ Stages[s][Opposite(d)] \notin Active
    BY <2>1, <2>2 DEF Step, GoodMove, Stages, Opposite, Direction
  <2>4. Abstract!Enter(s, d, m.state)
    BY <2>2 DEF Abstract!Enter
  <2>5. \/ Abstract!Open(s, d) \/ Abstract!Promote(s, d) \/ Abstract!Close(s, d)
        \/ Abstract!Settle(s, d) \/ Abstract!Rearm(s, d)
    BY <2>3, <2>4
    DEF Edge, Abstract!Open, Abstract!Promote, Abstract!Close, Abstract!Settle,
        Abstract!Rearm, Abstract!Opposite, Opposite, Abstract!Active, Active
  <2>6. d \in Abstract!Direction
    BY DEF Direction, Abstract!Direction
  <2> QED BY <2>5, <2>6 DEF Abstract!Next
<1> QED BY <1>1, <1>2, Invariance, PTL DEF Spec, KeepsLifecycle, Abstract!Spec

=============================================================================

------------------------------ MODULE SignalFSM ------------------------------
(***************************************************************************)
(* analytics/fsm.py: the lifecycle the scanner keeps in memory for every   *)
(* symbol and direction, and SignalFSM.advance, which the scan loop calls  *)
(* with one candidate per symbol and pass.  Every branch of advance is an  *)
(* action; the market's input is any member of Candidates.                 *)
(*                                                                         *)
(* Timestamps are modelled by their age: a field "since" is the time       *)
(* elapsed since it was set (None while unset), a deadline the time left,  *)
(* and Tick lets one unit pass for all of them.  Ages stop growing at the  *)
(* limit the code compares them with, which no comparison can tell apart.  *)
(* Prices, levels and scores are kept only as the comparisons made on them.*)
(***************************************************************************)
EXTENDS Integers

CONSTANTS
  Symbol,
  Candidates,       \* the market's possible inputs, a subset of Candidate
  ConfirmHold,      \* 5 s: the confirmation gate must hold this long
  WeakHold,         \* 15 s: a weak WATCH is closed after this long
  EarlyHold,        \* early.invalidate_after_seconds
  ConfirmedMax,     \* 15 min: a CONFIRMED signal is over after this long
  RearmTime,        \* early.rearm_seconds
  CooldownTime,     \* scanner.cooldown_minutes
  StageCRequired    \* stage_c.enabled and stage_c.require_for_watch

VARIABLES
  lc,               \* _lifecycles: [Symbol -> [Direction -> Lifecycle]]
  awaited,          \* the symbols the scan loop has yet to pass over
  seen              \* history: what the properties remember of earlier passes

vars == <<lc, awaited, seen>>

None == -1

Direction == {"LONG", "SHORT"}

State == {"NORMAL", "CANDIDATE", "EARLY", "WATCH", "CONFIRMED",
          "INVALIDATED", "TOO_LATE", "COOLDOWN"}

Active == {"CANDIDATE", "EARLY", "WATCH", "CONFIRMED"}

Opposite(d) == IF d = "LONG" THEN "SHORT" ELSE "LONG"

Smaller(m, n) == IF m <= n THEN m ELSE n

Larger(m, n) == IF m >= n THEN m ELSE n

CooldownMax == Larger(RearmTime, CooldownTime)

\* One candidate as advance reads it.  reject: the hard reject; verdict:
\* Stage C's decision and quality (absent when Stage C did not run, allow when
\* it lets a signal into WATCH, skip for the five decisions that refuse a
\* CANDIDATE); score: below 50, below watch, below confirmed, confirmed;
\* ready: which deep streams have warmed up; the flags are the comparisons of
\* the helpers below.
Candidate ==
  [dir: Direction, fresh: BOOLEAN, reject: {"none", "too_late", "other"},
   verdict: {"absent", "allow", "wait", "skip", "late", "invalidated"},
   selected: BOOLEAN, early: BOOLEAN, backed: BOOLEAN, score: 0..3,
   ready: {"none", "trade", "deep"}, sold: BOOLEAN, limit: BOOLEAN,
   reversed: BOOLEAN, crossed: BOOLEAN, moved: BOOLEAN]

\* What Stages A and C guarantee of the candidates they hand to advance: a
\* stale snapshot is always rejected, Stage C only analyses what Stage A did
\* not reject and turns SKIP_LATE into too_late, a rejected candidate is
\* never selected, and the flash gate excludes the EARLY limit.
Coherent(c) ==
  /\ ~c.fresh => c.reject = "other" /\ c.verdict = "absent"
  /\ c.verdict \notin {"absent", "late"} => c.reject = "none"
  /\ c.verdict = "late" => c.reject = "too_late"
  /\ c.selected \/ c.early => c.reject = "none" \/ c.verdict = "late"
  /\ c.early => ~c.limit

ASSUME CandidatesAssumption == Candidates \subseteq Candidate

ASSUME TimeAssumption ==
  /\ ConfirmHold \in Nat /\ WeakHold \in Nat /\ EarlyHold \in Nat
  /\ ConfirmedMax \in Nat /\ RearmTime \in Nat /\ CooldownTime \in Nat

ASSUME StageCAssumption == StageCRequired \in BOOLEAN

Timer(limit) == None..limit

Lifecycle ==
  [state: State, started: BOOLEAN, levels: BOOLEAN,
   held: Timer(ConfirmHold), weak: Timer(WeakHold),
   earlyWeak: Timer(EarlyHold), confirmed: Timer(ConfirmedMax),
   cooldown: Timer(CooldownMax), shortRearm: BOOLEAN]

Fresh ==
  [state |-> "NORMAL", started |-> FALSE, levels |-> FALSE, held |-> None,
   weak |-> None, earlyWeak |-> None, confirmed |-> None, cooldown |-> None,
   shortRearm |-> FALSE]

-----------------------------------------------------------------------------
(* The conditions of advance, on one lifecycle l and one candidate c.      *)

\* "since = since or now": a running timer is kept, an unset one starts.
Started(since) == IF since = None THEN 0 ELSE since

WatchConfirmed(c) == c.backed /\ c.score >= 2

MarketReady(c) == c.ready = "deep" \/ (StageCRequired /\ c.ready = "trade")

StageCAllowsWatch(c) == ~StageCRequired \/ c.verdict = "allow"

WatchGate(c) == WatchConfirmed(c) /\ MarketReady(c) /\ StageCAllowsWatch(c)

ConfirmGate(c) == MarketReady(c) /\ c.score >= 3 /\ StageCAllowsWatch(c)

WeakNow(c) == c.score = 0 \/ (c.ready = "deep" /\ c.sold)

WatchWeak(l, c) == IF WeakNow(c) THEN Started(l.weak) ELSE None

WatchInvalidated(l, c) ==
  (l.levels /\ c.crossed) \/ (WeakNow(c) /\ WatchWeak(l, c) >= WeakHold)

\* Faulty: the hold timer survives a pass that finds the gate closed.
WatchHeldKept(l, c) == IF ConfirmGate(c) THEN Started(l.held) ELSE l.held

WatchHeld(l, c) == IF ConfirmGate(c) THEN Started(l.held) ELSE None

EarlyWeak(l, c) == IF c.early THEN None ELSE Started(l.earlyWeak)

EarlyInvalidated(l, c) ==
  c.reversed \/ (~c.early /\ EarlyWeak(l, c) >= EarlyHold)

\* Faulty: a CONFIRMED signal waits for a price move, without the time limit.
ConfirmedByPrice(l, c) == c.moved \/ (l.levels /\ c.crossed)

ConfirmedComplete(l, c) ==
  \/ l.confirmed # None /\ l.confirmed >= ConfirmedMax
  \/ c.moved
  \/ l.levels /\ c.crossed

CooldownOver(l) == l.cooldown # None /\ l.cooldown <= 0

-----------------------------------------------------------------------------
(* What advance writes.                                                    *)

To(l, state) == [l EXCEPT !.state = state]

\* Faulty: the rearm delay is added to the cooldown instead of replacing it.
CloseEarlyAdds(l, state) ==
  [To(l, state) EXCEPT !.cooldown = RearmTime + CooldownTime, !.shortRearm = TRUE]

CloseEarly(l, state) ==
  [To(l, state) EXCEPT !.cooldown = RearmTime, !.shortRearm = TRUE]

\* An EARLY signal closed for stale data or lateness rearms sooner.
CloseBy(l, state) ==
  IF l.state = "EARLY" THEN CloseEarly(l, state) ELSE To(l, state)

\* Faulty: every flipped signal gets the short delay meant for EARLY.
FlipRearms(l) == CloseEarly(l, IF l.state = "EARLY" THEN "INVALIDATED" ELSE "COOLDOWN")

FlipClosed(l) ==
  IF l.state = "EARLY"
  THEN CloseEarly(l, "INVALIDATED")
  ELSE [To(l, "COOLDOWN") EXCEPT !.cooldown = CooldownTime]

\* Stale data stops the hold timer and invalidates an active signal.
Stalled(l) ==
  LET m == [l EXCEPT !.held = None]
  IN IF m.state \in Active THEN CloseBy(m, "INVALIDATED") ELSE m

EnterWatch(l) == [To(l, "WATCH") EXCEPT !.levels = TRUE]

LeaveEarly(l) == [EnterWatch(l) EXCEPT !.shortRearm = FALSE]

EnterCooldown(l) ==
  [To(l, "COOLDOWN") EXCEPT !.cooldown = IF @ = None THEN CooldownTime ELSE @]

\* The weakness timers as the invalidation rules leave them: a reversal or a
\* crossed level returns before its timer is touched.
EarlyKept(l, c) ==
  IF c.reversed THEN l ELSE [l EXCEPT !.earlyWeak = EarlyWeak(l, c)]

Weakened(l, c) ==
  IF l.levels /\ c.crossed THEN l ELSE [l EXCEPT !.weak = WatchWeak(l, c)]

WatchKept(l, c) == [Weakened(l, c) EXCEPT !.held = WatchHeld(l, c)]

Confirmed(l, c) == [To(WatchKept(l, c), "CONFIRMED") EXCEPT !.confirmed = 0]

\* Faulty: the reset forgets the weakness timer.
ResetKeepsWeak(l) ==
  [l EXCEPT !.started = FALSE, !.levels = FALSE, !.held = None,
            !.confirmed = None, !.earlyWeak = None, !.shortRearm = FALSE,
            !.cooldown = None]

Reset(l) ==
  [l EXCEPT !.started = FALSE, !.levels = FALSE, !.held = None, !.weak = None,
            !.confirmed = None, !.earlyWeak = None, !.shortRearm = FALSE,
            !.cooldown = None]

-----------------------------------------------------------------------------
(* History.  gate: how long every pass over a WATCH signal has seen the    *)
(* confirmation gate open; due: how much longer this direction must stay   *)
(* silent after its last active signal was closed.                         *)

History == [gate: Timer(ConfirmHold), due: 0..CooldownMax]

NoHistory == [gate |-> None, due |-> 0]

QuietAfter(state) ==
  IF state = "EARLY" THEN Smaller(RearmTime, CooldownTime) ELSE CooldownTime

Remember(h, before, after, open) ==
  [gate |-> IF before = "WATCH" /\ open THEN Started(h.gate) ELSE None,
   due  |-> IF before \in Active /\ after \notin Active
            THEN QuietAfter(before) ELSE h.due]

-----------------------------------------------------------------------------
(* advance(candidate): the branches, in the order the code tries them.     *)

Init ==
  /\ lc = [s \in Symbol |-> [d \in Direction |-> Fresh]]
  /\ awaited = Symbol
  /\ seen = [s \in Symbol |-> [d \in Direction |-> NoHistory]]

\* The pass over symbol s with candidate c leaves l as the lifecycle of d.
Record(s, c, d, l) ==
  /\ lc' = [lc EXCEPT ![s][d] = l]
  /\ awaited' = awaited \ {s}
  /\ seen' = [seen EXCEPT ![s] = [e \in Direction |->
                Remember(seen[s][e], lc[s][e].state,
                         IF e = d THEN l.state ELSE lc[s][e].state,
                         e = c.dir /\ c.fresh /\ ConfirmGate(c))]]

\* Faulty: a CANDIDATE of the other direction is not taken for active.
FlipDueVisible(s, d) == lc[s][Opposite(d)].state \in Active \ {"CANDIDATE"}

FlipDue(s, d) == lc[s][Opposite(d)].state \in Active

\* An active signal of the other direction is closed and the new direction
\* waits for the next pass, whatever the snapshot's quality.
DirectionFlip(s, c) ==
  /\ FlipDue(s, c.dir)
  /\ Record(s, c, Opposite(c.dir), FlipClosed(lc[s][Opposite(c.dir)]))

DataStale(s, c) ==
  /\ ~FlipDue(s, c.dir)
  /\ ~c.fresh
  /\ Record(s, c, c.dir, Stalled(lc[s][c.dir]))

Invalidating(l, c) == c.verdict = "invalidated" /\ l.state \in Active

\* Faulty: too_late also interrupts a running cooldown.
LateInCooldown(l, c) ==
  c.reject = "too_late" /\ l.state \notin {"NORMAL", "TOO_LATE"}

Late(l, c) ==
  c.reject = "too_late" /\ l.state \notin {"NORMAL", "COOLDOWN", "TOO_LATE"}

StageCInvalidated(s, c) ==
  /\ ~FlipDue(s, c.dir)
  /\ c.fresh
  /\ Invalidating(lc[s][c.dir], c)
  /\ Record(s, c, c.dir, To(lc[s][c.dir], "INVALIDATED"))

TooLate(s, c) ==
  /\ ~FlipDue(s, c.dir)
  /\ c.fresh
  /\ ~Invalidating(lc[s][c.dir], c)
  /\ Late(lc[s][c.dir], c)
  /\ Record(s, c, c.dir, CloseBy(lc[s][c.dir], "TOO_LATE"))

\* No branch above applies, and the lifecycle is in this state.
In(s, c, state) ==
  /\ lc[s][c.dir].state = state
  /\ c.fresh
  /\ ~FlipDue(s, c.dir)
  /\ ~Invalidating(lc[s][c.dir], c)
  /\ ~Late(lc[s][c.dir], c)

RefusedLate(c) == c.reject = "too_late" /\ c.verdict # "absent"

Opens(c) == c.selected /\ c.reject = "none"

RefuseLate(s, c) ==
  /\ In(s, c, "NORMAL")
  /\ RefusedLate(c)
  /\ Record(s, c, c.dir, To(lc[s][c.dir], "TOO_LATE"))

OpenCandidate(s, c) ==
  /\ In(s, c, "NORMAL")
  /\ ~RefusedLate(c)
  /\ Opens(c)
  /\ Record(s, c, c.dir, [To(lc[s][c.dir], "CANDIDATE") EXCEPT !.started = TRUE])

Flash(c) == c.early /\ c.reject = "none"

FlashEarly(s, c) ==
  /\ In(s, c, "CANDIDATE")
  /\ Flash(c)
  /\ Record(s, c, c.dir, To(lc[s][c.dir], "EARLY"))

SkipEntry(s, c) ==
  /\ In(s, c, "CANDIDATE")
  /\ ~Flash(c)
  /\ c.verdict = "skip"
  /\ Record(s, c, c.dir, To(lc[s][c.dir], "INVALIDATED"))

CandidateToWatch(s, c) ==
  /\ In(s, c, "CANDIDATE")
  /\ ~Flash(c)
  /\ c.verdict # "skip"
  /\ WatchGate(c)
  /\ Record(s, c, c.dir, EnterWatch(lc[s][c.dir]))

EarlyLimit(s, c) ==
  /\ In(s, c, "EARLY")
  /\ c.limit
  /\ Record(s, c, c.dir, CloseEarly(lc[s][c.dir], "TOO_LATE"))

EarlyToWatch(s, c) ==
  /\ In(s, c, "EARLY")
  /\ ~c.limit
  /\ WatchGate(c)
  /\ Record(s, c, c.dir, LeaveEarly(lc[s][c.dir]))

EarlyInvalidate(s, c) ==
  /\ In(s, c, "EARLY")
  /\ ~c.limit
  /\ ~WatchGate(c)
  /\ EarlyInvalidated(lc[s][c.dir], c)
  /\ Record(s, c, c.dir, CloseEarly(EarlyKept(lc[s][c.dir], c), "INVALIDATED"))

EarlyStays(s, c) ==
  /\ In(s, c, "EARLY")
  /\ ~c.limit
  /\ ~WatchGate(c)
  /\ ~EarlyInvalidated(lc[s][c.dir], c)
  /\ Record(s, c, c.dir, EarlyKept(lc[s][c.dir], c))

WatchInvalidate(s, c) ==
  /\ In(s, c, "WATCH")
  /\ WatchInvalidated(lc[s][c.dir], c)
  /\ Record(s, c, c.dir, To(Weakened(lc[s][c.dir], c), "INVALIDATED"))

Confirm(s, c) ==
  /\ In(s, c, "WATCH")
  /\ ~WatchInvalidated(lc[s][c.dir], c)
  /\ ConfirmGate(c)
  /\ WatchHeld(lc[s][c.dir], c) >= ConfirmHold
  /\ Record(s, c, c.dir, Confirmed(lc[s][c.dir], c))

WatchStays(s, c) ==
  /\ In(s, c, "WATCH")
  /\ ~WatchInvalidated(lc[s][c.dir], c)
  /\ ~(ConfirmGate(c) /\ WatchHeld(lc[s][c.dir], c) >= ConfirmHold)
  /\ Record(s, c, c.dir, WatchKept(lc[s][c.dir], c))

CompleteConfirmed(s, c) ==
  /\ In(s, c, "CONFIRMED")
  /\ ConfirmedComplete(lc[s][c.dir], c)
  /\ Record(s, c, c.dir,
            [To(lc[s][c.dir], "COOLDOWN") EXCEPT !.cooldown = CooldownTime])

TerminalCooldown(s, c) ==
  /\ In(s, c, "INVALIDATED") \/ In(s, c, "TOO_LATE")
  /\ Record(s, c, c.dir, EnterCooldown(lc[s][c.dir]))

CooldownExpired(s, c) ==
  /\ In(s, c, "COOLDOWN")
  /\ CooldownOver(lc[s][c.dir])
  /\ Record(s, c, c.dir, To(Reset(lc[s][c.dir]), "NORMAL"))

\* advance returns None and leaves the lifecycle as it is.
NoTransition(s, c) ==
  /\ \/ In(s, c, "NORMAL") /\ ~RefusedLate(c) /\ ~Opens(c)
     \/ In(s, c, "CANDIDATE") /\ ~Flash(c) /\ c.verdict # "skip" /\ ~WatchGate(c)
     \/ In(s, c, "CONFIRMED") /\ ~ConfirmedComplete(lc[s][c.dir], c)
     \/ In(s, c, "COOLDOWN") /\ ~CooldownOver(lc[s][c.dir])
  /\ Record(s, c, c.dir, lc[s][c.dir])

-----------------------------------------------------------------------------
(* Time.                                                                   *)

Aged(since, limit) == IF since = None \/ since >= limit THEN since ELSE since + 1

Left(cooldown) == IF cooldown > 0 THEN cooldown - 1 ELSE cooldown

Older(l) ==
  [l EXCEPT !.held = Aged(@, ConfirmHold), !.weak = Aged(@, WeakHold),
            !.earlyWeak = Aged(@, EarlyHold),
            !.confirmed = Aged(@, ConfirmedMax), !.cooldown = Left(@)]

Tick ==
  /\ lc' = [s \in Symbol |-> [d \in Direction |-> Older(lc[s][d])]]
  /\ awaited' = Symbol
  /\ seen' = [s \in Symbol |-> [d \in Direction |->
                [seen[s][d] EXCEPT !.gate = Aged(@, ConfirmHold),
                                   !.due = Left(@)]]]

-----------------------------------------------------------------------------

Scan(s, c) ==
  \/ DirectionFlip(s, c)     \/ DataStale(s, c)       \/ StageCInvalidated(s, c)
  \/ TooLate(s, c)           \/ RefuseLate(s, c)      \/ OpenCandidate(s, c)
  \/ FlashEarly(s, c)        \/ SkipEntry(s, c)       \/ CandidateToWatch(s, c)
  \/ EarlyLimit(s, c)        \/ EarlyToWatch(s, c)    \/ EarlyInvalidate(s, c)
  \/ EarlyStays(s, c)        \/ WatchInvalidate(s, c) \/ Confirm(s, c)
  \/ WatchStays(s, c)        \/ CompleteConfirmed(s, c)
  \/ TerminalCooldown(s, c)  \/ CooldownExpired(s, c) \/ NoTransition(s, c)

Next == Tick \/ \E s \in Symbol, c \in Candidates : Scan(s, c)

\* Time passes, and the scan loop passes over every symbol again and again:
\* which candidate the market shows it is never a matter of fairness.
Fairness ==
  /\ WF_vars(Tick)
  /\ \A s \in Symbol :
       WF_vars(s \in awaited /\ \E c \in Candidates : Scan(s, c))

Spec == Init /\ [][Next]_vars

FairSpec == Spec /\ Fairness

-----------------------------------------------------------------------------
(* Properties.                                                             *)

\* Every lifecycle and its history have their types.
TypeOK ==
  /\ lc \in [Symbol -> [Direction -> Lifecycle]]
  /\ awaited \subseteq Symbol
  /\ seen \in [Symbol -> [Direction -> History]]

\* The two directions of a symbol are never active together: advance closes
\* the opposite signal first and only opens the new one in a later pass.
ExclusiveDirections ==
  \A s \in Symbol :
    ~(lc[s]["LONG"].state \in Active /\ lc[s]["SHORT"].state \in Active)

\* What a lifecycle may remember in each state: a timer or a level of an
\* earlier signal never leaks into a new one (it would confirm or invalidate
\* it too soon), and a COOLDOWN always knows when it ends (or it would never).
Tidy(l) ==
  /\ l.state \in {"NORMAL", "CANDIDATE", "EARLY"} =>
       ~l.levels /\ l.held = None /\ l.weak = None
  /\ l.state \in {"NORMAL", "CANDIDATE"} => l.earlyWeak = None
  /\ l.state \in (Active \ {"CONFIRMED"}) \cup {"NORMAL"} => l.confirmed = None
  /\ l.state \in Active \cup {"NORMAL"} => l.cooldown = None
  /\ l.state \in Active => l.started
  /\ l.state \in {"WATCH", "CONFIRMED"} => l.levels
  /\ l.state = "CONFIRMED" => l.confirmed # None
  /\ l.state = "COOLDOWN" => l.cooldown # None

NoStaleTimers == \A s \in Symbol, d \in Direction : Tidy(lc[s][d])

Becomes(s, d, state) == lc[s][d].state # state /\ lc'[s][d].state = state

\* A signal is only confirmed when every pass of the last ConfirmHold units
\* (5 s in the code) saw fresh data and an open confirmation gate in its
\* direction, however the passes, timers and closings interleaved before.
HeldBeforeConfirm ==
  [][\A s \in Symbol, d \in Direction :
       Becomes(s, d, "CONFIRMED") => seen'[s][d].gate >= ConfirmHold]_vars

\* After an active signal is closed, by any branch, the same direction stays
\* silent for the whole cooldown, or the shorter delay if it was EARLY.
QuietPeriod ==
  [][\A s \in Symbol, d \in Direction :
       Becomes(s, d, "CANDIDATE") => seen[s][d].due = 0]_vars

\* Whatever the market does, a CONFIRMED signal is eventually closed.
ConfirmedEnds ==
  \A s \in Symbol, d \in Direction :
    lc[s][d].state = "CONFIRMED" ~> lc[s][d].state # "CONFIRMED"

\* The promise of SignalLifecycle, kept by the stages of the lifecycles.
Stages == [s \in Symbol |-> [d \in Direction |-> lc[s][d].state]]

Abstract == INSTANCE SignalLifecycle WITH stage <- Stages

KeepsLifecycle == Abstract!Spec

=============================================================================

---------------------------- MODULE MonitorRuntime ----------------------------
(***************************************************************************)
(* What the personal monitor keeps in memory for the symbols of active     *)
(* scenarios (personal_monitor/service.py, binance/ws_personal.py): a      *)
(* runtime, which its first user warms up while the others wait, and the   *)
(* subscription of its streams.  The discovery loop and every callback     *)
(* bring both in line with the database, each from what it read itself.    *)
(***************************************************************************)
EXTENDS Integers, FiniteSets

CONSTANTS
  Symbol,       \* numbers, in the order of the names
  Callback,     \* callbacks and candle tasks that may run at once
  MaxSymbol,    \* max_active_symbols
  MaxCall,      \* bound of the model: callbacks made
  MaxBreak      \* bound of the model: failed warmups, lost and closed connections

ASSUME SymbolAssumption == Symbol \subseteq Nat /\ IsFiniteSet(Symbol)

ASSUME CallAssumption == MaxSymbol \in Nat /\ MaxCall \in Nat /\ MaxBreak \in Nat

Proc == Callback \cup {"discovery"}

VARIABLES
  wanted,       \* symbols of the active scenarios, in the database
  runtime,      \* _runtimes: [Symbol -> "none", "ready", or who warms it up]
  proc,         \* [Proc -> ...]: _ensure_runtime and _sync_subscriptions
  desired,      \* _desired_symbols of the WebSocket
  route,        \* a route's connection and its _sync_subscriptions
  calls, breaks

runtimeVars == <<wanted, runtime, proc, desired, route, calls, breaks>>

\* goal: sync for a pass over the symbols, else the callback's own symbol;
\* todo: the symbols to make sure of; want: those read; at: the one in hand;
\* on: the maker of the runtime it waits for.
Rest ==
  [phase |-> "idle", goal |-> "sync", todo |-> {}, want |-> {}, at |-> {}, on |-> {}]

\* link: "closed" once the exchange has closed it in order, until a send finds
\* out; changed: the route's event; subscribed: what the task believes it asked for.
Down(changed) == [link |-> "down", changed |-> changed, subscribed |-> {}]

RuntimeInit ==
  /\ wanted = {}
  /\ runtime = [s \in Symbol |-> "none"]
  /\ proc = [p \in Proc |-> Rest]
  /\ desired = {}
  /\ route = Down(FALSE)
  /\ calls = 0 /\ breaks = 0

Running == {s \in Symbol : runtime[s] # "none"}

\* The first max_active_symbols of them, sorted.
Cut(set) == {s \in set : Cardinality({t \in set : t < s}) < MaxSymbol}

\* set_symbols: nothing happens when nothing changes.
SetSymbols(set) ==
  /\ desired' = set
  /\ route' = [route EXCEPT !.changed = @ \/ set # desired]

-----------------------------------------------------------------------------
(* The callbacks, once they have committed.                                *)

Begun(p, goal, set) ==
  proc' = [proc EXCEPT ![p] = [Rest EXCEPT !.goal = goal, !.todo = set,
             !.phase = IF goal = "sync" THEN "read" ELSE "ensure"]]

\* analyze_for_user: a runtime for a symbol nobody need watch.
Ask(p, s) ==
  /\ proc[p] = Rest /\ calls < MaxCall
  /\ calls' = calls + 1
  /\ Begun(p, "analyze", {s})
  /\ UNCHANGED <<wanted, runtime, desired, route, breaks>>

\* activate: the runtime, then a pass.
Watch(p, s) ==
  /\ proc[p] = Rest /\ calls < MaxCall
  /\ calls' = calls + 1
  /\ wanted' = wanted \cup {s}
  /\ Begun(p, "activate", {s})
  /\ UNCHANGED <<runtime, desired, route, breaks>>

\* stop, or a candle that ends a scenario: a pass.
Unwatch(p, s) ==
  /\ proc[p] = Rest /\ calls < MaxCall /\ s \in wanted
  /\ calls' = calls + 1
  /\ wanted' = wanted \ {s}
  /\ Begun(p, "sync", {})
  /\ UNCHANGED <<runtime, desired, route, breaks>>

-----------------------------------------------------------------------------
(* Passes and runtimes.                                                    *)

\* A pass reads the symbols: a callback's, or the next one of _discovery_loop,
\* every three seconds.
ReadWanted(p) ==
  /\ proc[p].phase = "read" \/ (p = "discovery" /\ proc[p] = Rest)
  /\ proc' = [proc EXCEPT ![p] = [Rest EXCEPT !.phase = "ensure",
                                   !.want = Cut(wanted), !.todo = Cut(wanted)]]
  /\ UNCHANGED <<wanted, runtime, desired, route, calls, breaks>>

\* _ensure_runtime has returned, or raised: a pass logs it and goes on, and a
\* callback ends with the error, before its own pass.
Resumed(l, ok) ==
  IF l.goal = "sync" \/ ok
  THEN [l EXCEPT !.phase = "ensure", !.todo = @ \ l.at, !.at = {}, !.on = {}]
  ELSE Rest

\* _ensure_runtime, up to its first wait.
Ensure(p, s) ==
  LET l == [proc[p] EXCEPT !.at = {s}]
  IN /\ proc[p].phase = "ensure" /\ s \in proc[p].todo
     /\ IF runtime[s] = "none" /\ Cardinality(Running) < MaxSymbol
        THEN /\ runtime' = [runtime EXCEPT ![s] = p]
             /\ proc' = [proc EXCEPT ![p] = [l EXCEPT !.phase = "warm"]]
        ELSE /\ UNCHANGED runtime
             /\ proc' = [proc EXCEPT ![p] =
                  IF runtime[s] \in Proc
                  THEN [l EXCEPT !.phase = "wait", !.on = {runtime[s]}]
                  ELSE Resumed(l, runtime[s] = "ready")]
     /\ UNCHANGED <<wanted, desired, route, calls, breaks>>

\* Who waits on the runtime p warms up: it may no longer be in the table.
Waiters(p) == {q \in Proc : p \in proc[q].on}

\* Faulty: the event is set only when the warmup succeeds.
SetIfWarm(p, ok) ==
  [q \in Proc |-> IF q = p \/ (ok /\ q \in Waiters(p)) THEN Resumed(proc[q], ok)
                  ELSE proc[q]]

\* The event of the runtime is set whatever happened.
SetReady(p, ok) ==
  [q \in Proc |-> IF q = p \/ q \in Waiters(p) THEN Resumed(proc[q], ok)
                  ELSE proc[q]]

\* The warmup succeeds: every runtime there is gets subscribed.
Warmed(p) ==
  /\ proc[p].phase = "warm"
  /\ runtime' = [s \in Symbol |-> IF runtime[s] = p THEN "ready" ELSE runtime[s]]
  /\ SetSymbols(Running)
  /\ proc' = SetReady(p, TRUE)
  /\ UNCHANGED <<wanted, calls, breaks>>

\* The symbol is taken out of the table, whoever's runtime is there by now.
PopFailed(s) == [runtime EXCEPT ![s] = "none"]

WarmupFails(p) ==
  /\ proc[p].phase = "warm" /\ breaks < MaxBreak
  /\ breaks' = breaks + 1
  /\ \E s \in proc[p].at : runtime' = PopFailed(s)
  /\ proc' = SetReady(p, FALSE)
  /\ UNCHANGED <<wanted, desired, route, calls>>

\* A callback's own runtime is there: it analyses, or makes its pass.
Ensured(p) ==
  LET l == proc[p]
  IN /\ l.phase = "ensure" /\ l.todo = {} /\ l.goal # "sync"
     /\ proc' = [proc EXCEPT ![p] =
          IF l.goal = "analyze" THEN Rest ELSE [Rest EXCEPT !.phase = "read"]]
     /\ UNCHANGED <<wanted, runtime, desired, route, calls, breaks>>

\* Faulty: a pass that has read nothing new leaves the table alone.
KeepAll(set) == runtime

DropOthers(set) == [s \in Symbol |-> IF s \in set THEN runtime[s] ELSE "none"]

\* The end of a pass, with the symbols it read some awaits ago.
Settle(p) ==
  LET l == proc[p]
  IN /\ l.phase = "ensure" /\ l.todo = {} /\ l.goal = "sync"
     /\ runtime' = DropOthers(l.want)
     /\ SetSymbols(l.want)
     /\ proc' = [proc EXCEPT ![p] = Rest]
     /\ UNCHANGED <<wanted, calls, breaks>>

-----------------------------------------------------------------------------
(* The connection: the market and the public route go the same way.        *)

Dial ==
  /\ route.link = "down"
  /\ route' = [Down(TRUE) EXCEPT !.link = "up"]
  /\ UNCHANGED <<wanted, runtime, proc, desired, calls, breaks>>

\* One turn of the loop: the event is cleared, the symbols are read, and the
\* difference is sent.  The sends wait, but what happens meanwhile might as well
\* happen after: a change sets the event again, and what ends the connection
\* loses them.  DeepStream has them one by one.
Subscribe ==
  /\ route.link = "up" /\ route.changed
  /\ route' = [route EXCEPT !.changed = FALSE, !.subscribed = desired]
  /\ UNCHANGED <<wanted, runtime, proc, desired, calls, breaks>>

\* The same turn on a closed connection: the send raises and the route dials
\* again, but with nothing to send nobody finds out.
SubscribeClosed ==
  /\ route.link = "closed" /\ route.changed
  /\ route' = IF desired = route.subscribed THEN [route EXCEPT !.changed = FALSE]
              ELSE Down(FALSE)
  /\ UNCHANGED <<wanted, runtime, proc, desired, calls, breaks>>

\* The connection breaks, or an event raises: both tasks end.
Lose ==
  /\ route.link = "up" /\ breaks < MaxBreak
  /\ breaks' = breaks + 1
  /\ route' = Down(route.changed)
  /\ UNCHANGED <<wanted, runtime, proc, desired, calls>>

\* The exchange closes the connection in order: _receive ends without an error,
\* and nothing tells _sync_subscriptions.
Close ==
  /\ route.link = "up" /\ breaks < MaxBreak
  /\ breaks' = breaks + 1
  /\ route' = [route EXCEPT !.link = "closed"]
  /\ UNCHANGED <<wanted, runtime, proc, desired, calls>>

\* What the exchange sends: a closed connection brings nothing.
Streamed == IF route.link = "up" THEN route.subscribed ELSE {}

Ensuring(p) == \E s \in Symbol : Ensure(p, s)

Passing(p) == ReadWanted(p) \/ Ensuring(p) \/ Warmed(p) \/ Ensured(p) \/ Settle(p)

Connecting == Dial \/ Subscribe \/ SubscribeClosed

RuntimeNext ==
  \/ \E p \in Callback, s \in Symbol : Ask(p, s) \/ Watch(p, s) \/ Unwatch(p, s)
  \/ \E p \in Proc : Passing(p) \/ WarmupFails(p)
  \/ Connecting \/ Lose \/ Close

RuntimeFairness ==
  /\ WF_runtimeVars(Connecting)
  /\ \A p \in Proc : WF_runtimeVars(Passing(p))

RuntimeSpec == RuntimeInit /\ [][RuntimeNext]_runtimeVars /\ RuntimeFairness

-----------------------------------------------------------------------------
(* Properties.                                                             *)

RuntimeTypeOK ==
  /\ wanted \subseteq Symbol /\ desired \subseteq Symbol
  /\ runtime \in [Symbol -> Proc \cup {"none", "ready"}]
  /\ proc \in [Proc -> [phase: {"idle", "read", "ensure", "warm", "wait"},
                        goal: {"sync", "activate", "analyze"}, todo: SUBSET Symbol,
                        want: SUBSET Symbol, at: SUBSET Symbol,
                        on: SUBSET Proc]]
  /\ route \in [link: {"down", "up", "closed"}, changed: BOOLEAN,
               subscribed: SUBSET Symbol]
  /\ calls \in 0..MaxCall /\ breaks \in 0..MaxBreak

\* Whoever waits for a runtime is released, though its maker fails or the table
\* has forgotten it (service.py:265).
WaitersReleased ==
  \A p \in Callback : proc[p].phase = "wait" ~> proc[p].phase # "wait"

\* The passes work with what they read several awaits ago, and may undo one
\* another; in the end the runtimes and the subscriptions are those of the
\* active scenarios, as many as the limit allows (service.py:214), and the
\* exchange streams them - unless it closed the connection in order after the
\* last change: then _sync_subscriptions waits on, sure of its subscriptions,
\* and nothing is streamed (ws_personal.py:114).
MonitorConverges ==
  <>[](/\ route.subscribed = Cut(wanted)
       /\ route.link = "closed" \/ Streamed = Cut(wanted)
       /\ \A s \in Symbol : (runtime[s] = "ready") = (s \in Cut(wanted)))

=============================================================================

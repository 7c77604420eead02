------------------------------ MODULE DeepStream ------------------------------
(***************************************************************************)
(* binance/ws_deep.py: one WebSocket per route whose subscriptions follow  *)
(* the symbols Stage B keeps.  The scan loop replaces the desired set and  *)
(* sets an event per route; each route's task clears the event, sends what *)
(* was added and removed, and waits again, while its connection breaks and *)
(* is made anew.  The routes share the desired set and nothing else.       *)
(***************************************************************************)
EXTENDS Naturals

CONSTANTS
  Symbol,
  Route,        \* "market" and "public"
  MaxChange,    \* bound of the model: how often the desired set changes
  MaxBreak,     \* bound of the model: connections that fail, per route
  MaxClose      \* bound of the model: connections closed in order, per route

ASSUME BoundAssumption ==
  MaxChange \in Nat /\ MaxBreak \in Nat /\ MaxClose \in Nat

VARIABLES
  desired,      \* _desired_symbols
  changed,      \* [Route -> BOOLEAN]: the events of _changed
  link,         \* [Route -> Link]: what _run_route is doing
  sync,         \* [Route -> Sync]: the locals of _sync_subscriptions
  server,       \* [Route -> SUBSET Symbol]: what the exchange streams
  changes, breaks, closes

vars == <<desired, changed, link, sync, server, changes, breaks, closes>>

\* down: sleeping before the next attempt; closed: the peer closed in order,
\* _receive has returned and _sync_subscriptions is still there.
Link == {"down", "up", "closed"}

Sync ==
  [pc: {"wait", "subscribe", "unsubscribe"}, subscribed: SUBSET Symbol,
   target: SUBSET Symbol]

Started == [pc |-> "wait", subscribed |-> {}, target |-> {}]

Init ==
  /\ desired = {}
  /\ changed = [r \in Route |-> FALSE]
  /\ link = [r \in Route |-> "down"]
  /\ sync = [r \in Route |-> Started]
  /\ server = [r \in Route |-> {}]
  /\ changes = 0
  /\ breaks = [r \in Route |-> 0]
  /\ closes = [r \in Route |-> 0]

-----------------------------------------------------------------------------

\* set_symbols, called after every pass of Stage B.
SetSymbols(symbols) ==
  /\ symbols # desired
  /\ changes < MaxChange
  /\ changes' = changes + 1
  /\ desired' = symbols
  /\ changed' = [r \in Route |-> TRUE]
  /\ UNCHANGED <<link, sync, server, breaks, closes>>

\* Faulty: a new connection waits for the next change.
ConnectedQuietly(r) == changed

Connected(r) == [changed EXCEPT ![r] = TRUE]

\* A new connection streams nothing, and its task is woken to subscribe.
Connect(r) ==
  /\ link[r] = "down"
  /\ link' = [link EXCEPT ![r] = "up"]
  /\ changed' = Connected(r)
  /\ UNCHANGED <<desired, sync, server, changes, breaks, closes>>

Additions(y) == y.target \ y.subscribed

Removals(y) == y.subscribed \ y.target

\* Where the task stops next: at a message it must send, or at the event.
Waits(y) == [y EXCEPT !.pc = "wait", !.subscribed = y.target]

\* Faulty: a set that only shrinks sends nothing.
UnsubscribesNever(y) == Waits(y)

Unsubscribes(y) ==
  IF Removals(y) # {} THEN [y EXCEPT !.pc = "unsubscribe"] ELSE Waits(y)

Subscribes(y) ==
  IF Additions(y) # {} THEN [y EXCEPT !.pc = "subscribe"] ELSE Unsubscribes(y)

\* The event is cleared and the desired set is read in one go.
Wake(r) ==
  /\ link[r] # "down"
  /\ sync[r].pc = "wait"
  /\ changed[r]
  /\ changed' = [changed EXCEPT ![r] = FALSE]
  /\ sync' = [sync EXCEPT ![r] = Subscribes([@ EXCEPT !.target = desired])]
  /\ UNCHANGED <<desired, link, server, changes, breaks, closes>>

SendSubscribe(r) ==
  /\ link[r] = "up"
  /\ sync[r].pc = "subscribe"
  /\ server' = [server EXCEPT ![r] = @ \cup Additions(sync[r])]
  /\ sync' = [sync EXCEPT ![r] = Unsubscribes(@)]
  /\ UNCHANGED <<desired, changed, link, changes, breaks, closes>>

SendUnsubscribe(r) ==
  /\ link[r] = "up"
  /\ sync[r].pc = "unsubscribe"
  /\ server' = [server EXCEPT ![r] = @ \ Removals(sync[r])]
  /\ sync' = [sync EXCEPT ![r] = Waits(@)]
  /\ UNCHANGED <<desired, changed, link, changes, breaks, closes>>

\* Faulty: the task's locals outlive the connection.
LostKeepsLocals(r) ==
  /\ link' = [link EXCEPT ![r] = "down"]
  /\ server' = [server EXCEPT ![r] = {}]
  /\ UNCHANGED sync

\* The task group of the connection fails and cancels the other task; the
\* route sleeps and connects again.
Lost(r) ==
  /\ link' = [link EXCEPT ![r] = "down"]
  /\ sync' = [sync EXCEPT ![r] = Started]
  /\ server' = [server EXCEPT ![r] = {}]

\* Any error: the network, a timeout, a payload the handler refuses.
Break(r) ==
  /\ link[r] = "up"
  /\ breaks[r] < MaxBreak
  /\ breaks' = [breaks EXCEPT ![r] = @ + 1]
  /\ Lost(r)
  /\ UNCHANGED <<desired, changed, changes, closes>>

\* The exchange closes with a normal code: the iteration over the messages
\* simply ends, and nothing tells the other task.
Close(r) ==
  /\ link[r] = "up"
  /\ closes[r] < MaxClose
  /\ closes' = [closes EXCEPT ![r] = @ + 1]
  /\ link' = [link EXCEPT ![r] = "closed"]
  /\ server' = [server EXCEPT ![r] = {}]
  /\ UNCHANGED <<desired, changed, sync, changes, breaks>>

\* Only a message that can no longer be sent reveals it.
SendFails(r) ==
  /\ link[r] = "closed"
  /\ sync[r].pc # "wait"
  /\ Lost(r)
  /\ UNCHANGED <<desired, changed, changes, breaks, closes>>

\* The route is connected and has nothing left to send.
InStep(r) == link[r] = "up" /\ sync[r].pc = "wait" /\ ~changed[r]

Task(r) ==
  Connect(r) \/ Wake(r) \/ SendSubscribe(r) \/ SendUnsubscribe(r) \/ SendFails(r)

\* The routes read messages and wait; nothing else is left to happen.
Listen ==
  /\ changes = MaxChange
  /\ \A r \in Route : link[r] # "down" /\ sync[r].pc = "wait" /\ ~changed[r]
  /\ UNCHANGED vars

Next ==
  \/ \E symbols \in SUBSET Symbol : SetSymbols(symbols)
  \/ \E r \in Route : Task(r) \/ Break(r) \/ Close(r)
  \/ Listen

\* Each route's tasks run on the event loop, and a connection that is tried
\* again and again is made at last; the market and the network owe nothing.
Spec == Init /\ [][Next]_vars /\ \A r \in Route : WF_vars(Task(r))

-----------------------------------------------------------------------------
(* Properties.                                                             *)

\* The event, the link, the locals of the task and the server have their
\* types, and nothing of a connection is left when it is lost.
TypeOK ==
  /\ desired \subseteq Symbol
  /\ changed \in [Route -> BOOLEAN]
  /\ link \in [Route -> Link]
  /\ sync \in [Route -> Sync]
  /\ server \in [Route -> SUBSET Symbol]
  /\ \A r \in Route : link[r] = "down" => sync[r] = Started /\ server[r] = {}
  /\ changes \in 0..MaxChange
  /\ breaks \in [Route -> 0..MaxBreak]
  /\ closes \in [Route -> 0..MaxClose]

\* A route that has nothing left to do streams exactly the desired symbols:
\* no change is lost that arrives while messages are being sent, or while the
\* connection is down, and no dropped symbol stays subscribed.
NoLostChange == \A r \in Route : InStep(r) => server[r] = desired

\* Once the desired set and the network are quiet, every route streams it.
Converges == \A r \in Route : <>[](server[r] = desired)

\* The same, but for routes whose connection was closed in order: those may
\* wait for the next change of the desired set before they notice.
ConvergesUnlessClosed ==
  \A r \in Route : <>[](server[r] = desired \/ link[r] = "closed")

=============================================================================

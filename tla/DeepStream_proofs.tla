-------------------------- MODULE DeepStream_proofs --------------------------
(***************************************************************************)
(* NoLostChange for any symbols, routes and bounds.  The argument follows  *)
(* one route: what the server streams is what the task believes, up to the *)
(* message it is about to send, and whatever it is about to reach is the   *)
(* desired set unless the event is set again.                              *)
(***************************************************************************)
EXTENDS DeepStream, TLAPS

\* What the server streams while the task is at y.
Streamed(y) ==
  IF y.pc = "unsubscribe" THEN y.subscribed \cup y.target ELSE y.subscribed

\* What the task will have subscribed when it waits again.
Heading(y) == IF y.pc = "wait" THEN y.subscribed ELSE y.target

FollowsRoute(r) ==
  link[r] = "up" =>
    /\ server[r] = Streamed(sync[r])
    /\ ~changed[r] => Heading(sync[r]) = desired

\* The inductive invariant.
IInv == TypeOK /\ \A r \in Route : FollowsRoute(r)

-----------------------------------------------------------------------------

\* Stepping to the next message or to the event keeps the types, the streamed
\* set and the set the task is heading for.
LEMMA NextMessage ==
  ASSUME NEW y \in Sync
  PROVE  /\ Waits(y) \in Sync /\ Unsubscribes(y) \in Sync /\ Subscribes(y) \in Sync
         /\ Heading(Unsubscribes(y)) = y.target
         /\ Heading(Subscribes(y)) = y.target
         /\ Streamed(Waits(y)) = y.target
         /\ Streamed(Unsubscribes(y)) = y.subscribed \cup y.target
         /\ Streamed(Subscribes(y)) = y.subscribed
<1>1. /\ Waits(y) \in Sync /\ Waits(y).pc = "wait" /\ Waits(y).subscribed = y.target
  BY DEF Waits, Sync
<1>2. /\ Unsubscribes(y) \in Sync
      /\ Heading(Unsubscribes(y)) = y.target
      /\ Streamed(Unsubscribes(y)) = y.subscribed \cup y.target
  <2>1. CASE Removals(y) # {}
    BY <2>1 DEF Unsubscribes, Sync, Heading, Streamed
  <2>2. CASE Removals(y) = {}
    <3>1. y.subscribed \subseteq y.target
      BY <2>2 DEF Removals
    <3> QED BY <1>1, <2>2, <3>1 DEF Unsubscribes, Heading, Streamed
  <2> QED BY <2>1, <2>2
<1>3. /\ Subscribes(y) \in Sync
      /\ Heading(Subscribes(y)) = y.target
      /\ Streamed(Subscribes(y)) = y.subscribed
  <2>1. CASE Additions(y) # {}
    BY <2>1 DEF Subscribes, Sync, Heading, Streamed
  <2>2. CASE Additions(y) = {}
    <3>1. y.subscribed \cup y.target = y.subscribed
      BY <2>2 DEF Additions
    <3> QED BY <1>2, <2>2, <3>1 DEF Subscribes
  <2> QED BY <2>1, <2>2
<1> QED BY <1>1, <1>2, <1>3 DEF Streamed

\* Nothing is connected at first.
LEMMA InitFollows == Init => IInv
<1> SUFFICES ASSUME Init PROVE IInv
  OBVIOUS
<1>1. Started \in Sync
  BY DEF Started, Sync
<1>2. TypeOK
  BY <1>1, BoundAssumption DEF Init, TypeOK, Link
<1> QED BY <1>2 DEF Init, IInv, FollowsRoute

\* One step of one route leaves the other routes as they are.
LEMMA NextFollows == IInv /\ [Next]_vars => IInv'
<1> SUFFICES ASSUME IInv, [Next]_vars PROVE IInv'
  OBVIOUS
<1> USE DEF IInv
<1>1. ASSUME NEW symbols \in SUBSET Symbol, SetSymbols(symbols) PROVE IInv'
  <2>1. TypeOK'
    BY <1>1, BoundAssumption DEF SetSymbols, TypeOK
  <2>2. \A r \in Route : FollowsRoute(r)'
    BY <1>1 DEF SetSymbols, FollowsRoute, TypeOK
  <2> QED BY <2>1, <2>2
<1>2. ASSUME NEW r \in Route, Connect(r) PROVE IInv'
  <2>1. TypeOK'
    BY <1>2 DEF Connect, Connected, TypeOK, Link
  <2>2. FollowsRoute(r)'
    <3>1. sync'[r] = Started /\ server'[r] = {} /\ changed'[r]
      BY <1>2 DEF Connect, Connected, TypeOK
    <3>2. Streamed(Started) = {}
      BY DEF Streamed, Started
    <3> QED BY <3>1, <3>2 DEF FollowsRoute
  <2>3. \A q \in Route \ {r} : FollowsRoute(q)'
    BY <1>2 DEF Connect, Connected, FollowsRoute, TypeOK
  <2> QED BY <2>1, <2>2, <2>3
<1>3. ASSUME NEW r \in Route, Wake(r) PROVE IInv'
  <2> DEFINE y == [sync[r] EXCEPT !.target = desired]
  <2>1. y \in Sync /\ y.target = desired /\ y.subscribed = sync[r].subscribed
    <3>1. sync[r] \in Sync /\ desired \subseteq Symbol
      BY <1>3 DEF TypeOK
    <3> QED BY <3>1 DEF Sync
  <2>2. sync'[r] = Subscribes(y) /\ Subscribes(y) \in Sync
    BY <1>3, <2>1, NextMessage DEF Wake, TypeOK
  <2>3. TypeOK'
    BY <1>3, <2>2 DEF Wake, TypeOK
  <2>4. FollowsRoute(r)'
    <3>1. Heading(Subscribes(y)) = desired /\ Streamed(Subscribes(y)) = sync[r].subscribed
      BY <2>1, NextMessage
    <3>2. Streamed(sync[r]) = sync[r].subscribed
      BY <1>3 DEF Wake, Streamed
    <3> HIDE DEF y
    <3> QED BY <1>3, <2>2, <3>1, <3>2 DEF Wake, FollowsRoute, TypeOK
  <2>5. \A q \in Route \ {r} : FollowsRoute(q)'
    BY <1>3 DEF Wake, FollowsRoute, TypeOK
  <2> QED BY <2>3, <2>4, <2>5
<1>4. ASSUME NEW r \in Route, SendSubscribe(r) PROVE IInv'
  <2>1. sync[r] \in Sync /\ server[r] = sync[r].subscribed /\ link[r] = "up"
    BY <1>4 DEF SendSubscribe, TypeOK, FollowsRoute, Streamed
  <2>2. /\ sync'[r] = Unsubscribes(sync[r]) /\ Unsubscribes(sync[r]) \in Sync
        /\ server'[r] = sync[r].subscribed \cup sync[r].target
        /\ server'[r] \subseteq Symbol
    BY <1>4, <2>1, NextMessage DEF SendSubscribe, TypeOK, Additions, Sync
  <2>3. TypeOK'
    BY <1>4, <2>1, <2>2 DEF SendSubscribe, TypeOK
  <2>4. FollowsRoute(r)'
    <3>1. Heading(sync[r]) = sync[r].target
      BY <1>4 DEF SendSubscribe, Heading
    <3> QED BY <1>4, <2>1, <2>2, <3>1, NextMessage DEF SendSubscribe, FollowsRoute
  <2>5. \A q \in Route \ {r} : FollowsRoute(q)'
    BY <1>4 DEF SendSubscribe, FollowsRoute, TypeOK
  <2> QED BY <2>3, <2>4, <2>5
<1>5. ASSUME NEW r \in Route, SendUnsubscribe(r) PROVE IInv'
  <2>1. /\ sync[r] \in Sync /\ link[r] = "up"
        /\ server[r] = sync[r].subscribed \cup sync[r].target
    BY <1>5 DEF SendUnsubscribe, TypeOK, FollowsRoute, Streamed
  <2>2. /\ sync'[r] = Waits(sync[r]) /\ Waits(sync[r]) \in Sync
        /\ server'[r] = sync[r].target /\ server'[r] \subseteq Symbol
    BY <1>5, <2>1, NextMessage DEF SendUnsubscribe, TypeOK, Removals, Sync
  <2>3. TypeOK'
    BY <1>5, <2>1, <2>2 DEF SendUnsubscribe, TypeOK
  <2>4. FollowsRoute(r)'
    <3>1. Heading(sync[r]) = sync[r].target
      BY <1>5 DEF SendUnsubscribe, Heading
    <3>2. Heading(Waits(sync[r])) = sync[r].target
      BY <2>1 DEF Waits, Heading, Sync
    <3> QED BY <1>5, <2>1, <2>2, <3>1, <3>2, NextMessage
            DEF SendUnsubscribe, FollowsRoute
  <2>5. \A q \in Route \ {r} : FollowsRoute(q)'
    BY <1>5 DEF SendUnsubscribe, FollowsRoute, TypeOK
  <2> QED BY <2>3, <2>4, <2>5
<1>6. ASSUME NEW r \in Route, Break(r) \/ SendFails(r) PROVE IInv'
  <2>1. Started \in Sync
    BY DEF Started, Sync
  <2>2. TypeOK'
    BY <1>6, <2>1, BoundAssumption DEF Break, SendFails, Lost, TypeOK, Link
  <2>3. \A q \in Route : FollowsRoute(q)'
    BY <1>6 DEF Break, SendFails, Lost, FollowsRoute, TypeOK
  <2> QED BY <2>2, <2>3
<1>7. ASSUME NEW r \in Route, Close(r) PROVE IInv'
  <2>1. TypeOK'
    BY <1>7, BoundAssumption DEF Close, TypeOK, Link
  <2>2. \A q \in Route : FollowsRoute(q)'
    BY <1>7 DEF Close, FollowsRoute, TypeOK
  <2> QED BY <2>1, <2>2
<1>8. CASE UNCHANGED vars
  BY <1>8 DEF vars, TypeOK, FollowsRoute
<1> QED BY <1>1, <1>2, <1>3, <1>4, <1>5, <1>6, <1>7, <1>8 DEF Next, Task, Listen

\* Type correctness, for any symbols, routes and bounds.
THEOREM TypeCorrect == Spec => []TypeOK
<1>1. IInv => TypeOK
  BY DEF IInv
<1> QED BY <1>1, InitFollows, NextFollows, PTL DEF Spec

\* No change of the desired set is ever lost by a connected, waiting route.
THEOREM ChangesAreFollowed == Spec => []NoLostChange
<1>1. IInv => NoLostChange
  BY DEF IInv, FollowsRoute, NoLostChange, InStep, Streamed, Heading
<1> QED BY <1>1, InitFollows, NextFollows, PTL DEF Spec

=============================================================================

----------------------- MODULE PortfolioAccount_proofs -----------------------
(***************************************************************************)
(* The safety of PortfolioAccount for any streams and any number of        *)
(* requests, changes, faults and disconnections.  The account's lock is    *)
(* what the argument is about: a reconciliation that is about to write     *)
(* holds it since it read, so nothing newer than its own reading can be in *)
(* the tables.                                                             *)
(***************************************************************************)
EXTENDS PortfolioAccount, TLAPS

Phase == {"idle", "waiting", "fetching", "writing", "failing"}

\* Between the start of its transaction and its end.
Holds(c) == task[c].phase \notin {"idle", "waiting"}

\* The lock keeps the reconciliations of the account apart.
OneHolder == \A b, c \in Caller : Holds(b) /\ Holds(c) => b = c

\* No table is ahead of version v.
Within(v) == holdings.ver =< v /\ earn.ver =< v /\ snapshot.ver =< v

\* Nothing is newer than Binance, and who is about to write read last.
InOrder ==
  /\ Within(world)
  /\ \A c \in Caller :
       task[c].phase = "writing" => Within(task[c].ver) /\ task[c].ver =< world

\* The inductive invariant.
IInv == TypeOK /\ OneHolder /\ InOrder /\ FreshIsWhole

-----------------------------------------------------------------------------

\* Idle is a task, and cancelling keeps tasks tasks.
LEMMA TaskTypes ==
  /\ Idle \in Task
  /\ NoPost \in Post
  /\ [NoPost EXCEPT !.phase = "done"] \in Post
  /\ \A callers : task \in [Caller -> Task] => Cancelled(callers) \in [Caller -> Task]
<1>1. 0 \in Version /\ NoKey \in Key \cup {NoKey}
  BY BoundAssumption DEF Version, NoKey
<1>2. Idle \in Task /\ NoPost \in Post /\ [NoPost EXCEPT !.phase = "done"] \in Post
  BY <1>1 DEF Idle, Task, NoPost, Post, Status
<1> QED BY <1>2 DEF Cancelled

\* Nothing has been read at first.
LEMMA InitSafe == Init => IInv
<1> SUFFICES ASSUME Init PROVE IInv
  OBVIOUS
<1>1. 0 \in Version
  BY BoundAssumption DEF Version
<1>2. TypeOK
  BY <1>1, TaskTypes, BoundAssumption
     DEF Init, TypeOK, Nothing, Reading, Resting, Status, NoKey
<1>3. OneHolder /\ InOrder /\ FreshIsWhole
  BY DEF Init, OneHolder, InOrder, FreshIsWhole, Holds, Within, Idle, Nothing
<1> QED BY <1>2, <1>3 DEF IInv

\* A step that writes no reading and gives nobody the lock, nor anything to
\* write, disturbs nothing but the types.
LEMMA Aside ==
  ASSUME IInv, UNCHANGED <<holdings, earn, snapshot>>,
         world' \in Version, world =< world',
         \A c \in Caller : Holds(c)' => Holds(c),
         \A c \in Caller : task'[c].phase = "writing" => task'[c] = task[c]
  PROVE  OneHolder' /\ InOrder' /\ FreshIsWhole'
<1>1. OneHolder'
  BY DEF IInv, OneHolder, Holds
<1>2. InOrder'
  <2>1. Within(world)'
    BY DEF IInv, InOrder, Within, TypeOK, Reading, Version
  <2>2. ASSUME NEW c \in Caller, task'[c].phase = "writing"
        PROVE  Within(task[c].ver)' /\ (task[c].ver =< world)'
    BY <2>2 DEF IInv, InOrder, Within, TypeOK, Task, Version
  <2> QED BY <2>1, <2>2 DEF InOrder
<1>3. FreshIsWhole'
  BY DEF IInv, FreshIsWhole, Nothing
<1> QED BY <1>1, <1>2, <1>3

-----------------------------------------------------------------------------

\* The transactions of the handlers.
LEMMA HandlersSafe ==
  ASSUME IInv,
         (\E r \in Request : Accept(r) \/ Connect(r)) \/ Leave \/ Disconnect
  PROVE  IInv'
<1>1. TypeOK
  BY DEF IInv
<1>2. ASSUME NEW r \in Request, Accept(r) PROVE IInv'
  <2>1. TypeOK'
    BY <1>1, <1>2 DEF Accept, TypeOK, Post, rows, bounds
  <2>2. OneHolder' /\ InOrder' /\ FreshIsWhole'
    BY <1>1, <1>2, Aside DEF Accept, TypeOK, Version, Holds, rows
  <2> QED BY <2>1, <2>2 DEF IInv
<1>3. ASSUME NEW r \in Request, Connect(r) PROVE IInv'
  <2>1. TypeOK'
    <3>1. posts[r] \in Post
      BY <1>1 DEF TypeOK
    <3>2. account' \in [status: Status, key: Key \cup {NoKey}]
      BY <1>1, <1>3, <3>1 DEF Connect, TypeOK, Post, Column, Status, Key
    <3>3. posts' \in [Request -> Post]
      BY <1>1, <1>3, TaskTypes DEF Connect, TypeOK
    <3> QED BY <1>1, <1>3, <3>2, <3>3 DEF Connect, TypeOK, bounds
  <2>2. OneHolder' /\ InOrder' /\ FreshIsWhole'
    BY <1>1, <1>3, Aside DEF Connect, TypeOK, Version, Holds
  <2> QED BY <2>1, <2>2 DEF IInv
<1>4. CASE Leave
  <2>1. TypeOK'
    BY <1>1, <1>4, BoundAssumption DEF Leave, TypeOK, rows
  <2>2. OneHolder' /\ InOrder' /\ FreshIsWhole'
    BY <1>1, <1>4, Aside DEF Leave, TypeOK, Version, Holds, rows
  <2> QED BY <2>1, <2>2 DEF IInv
<1>5. CASE Disconnect
  <2>1. Nothing \in Reading
    BY BoundAssumption DEF Nothing, Reading, Version, NoKey
  <2>2. TypeOK'
    BY <1>1, <1>5, <2>1 DEF Disconnect, TypeOK, Column, Status, bounds
  <2>3. OneHolder'
    BY <1>5 DEF IInv, Disconnect, OneHolder, Holds
  <2>4. InOrder'
    <3>1. \A v \in Version : Within(v) => Within(v)'
      BY <1>5 DEF Disconnect, Within, Nothing, Version
    <3>2. world \in Version /\ \A c \in Caller : task[c].ver \in Version
      BY <1>1 DEF TypeOK, Task
    <3>3. world' = world /\ task' = task
      BY <1>5 DEF Disconnect
    <3> QED BY <3>1, <3>2, <3>3 DEF IInv, InOrder, Within
  <2>5. FreshIsWhole'
    BY <1>5 DEF IInv, Disconnect, FreshIsWhole
  <2> QED BY <2>2, <2>3, <2>4, <2>5 DEF IInv
<1> QED BY <1>2, <1>3, <1>4, <1>5

-----------------------------------------------------------------------------

\* Asking for a reconciliation takes no lock.
LEMMA CallsSafe ==
  ASSUME IInv, NEW c \in Caller, task' = Called(task, c),
         UNCHANGED <<rows, world>>
  PROVE  /\ task' \in [Caller -> Task]
         /\ OneHolder' /\ InOrder' /\ FreshIsWhole'
<1>1. TypeOK
  BY DEF IInv
<1>2. task' \in [Caller -> Task]
  BY <1>1 DEF Called, TypeOK, Task
<1>3. \A b \in Caller : Holds(b)' => Holds(b)
  BY <1>1 DEF Called, Holds, TypeOK, Idle
<1>4. \A b \in Caller : task'[b].phase = "writing" => task'[b] = task[b]
  BY <1>1 DEF Called, TypeOK, Task
<1>5. world \in Version /\ world =< world
  BY <1>1 DEF TypeOK, Version
<1> QED BY <1>2, <1>3, <1>4, <1>5, Aside DEF rows

\* Reconciliations: Begin takes the lock, Fetch reads under it, and the steps
\* that write let it go.
LEMMA ReconcilingSafe ==
  ASSUME IInv, NEW c \in Caller, Reconciling(c)
  PROVE  IInv'
<1>1. TypeOK /\ task[c] \in Task /\ account.key \in Key \cup {NoKey}
  BY DEF IInv, TypeOK
<1>2. CASE Begin(c)
  <2>1. \A b \in Caller : ~Holds(b)
    BY <1>1, <1>2 DEF Begin, Unlocked, Holds, TypeOK, Task
  <2>2. task' \in [Caller -> Task]
    BY <1>1, <1>2, TaskTypes DEF Begin, TypeOK, Task
  <2>3. TypeOK'
    BY <1>1, <1>2, <2>2 DEF Begin, TypeOK, rows, bounds
  <2>4. OneHolder' /\ \A b \in Caller : task'[b].phase # "writing"
    BY <1>1, <1>2, <2>1 DEF Begin, TypeOK, OneHolder, Holds, Idle
  <2>5. InOrder' /\ FreshIsWhole'
    BY <1>2, <2>4 DEF IInv, Begin, InOrder, Within, FreshIsWhole, Nothing, rows
  <2> QED BY <2>3, <2>4, <2>5 DEF IInv
<1>3. CASE Fetch(c)
  <2>1. PICK whole \in BOOLEAN :
          task' = [task EXCEPT ![c].phase = "writing", ![c].ver = world, ![c].earn = whole]
    BY <1>3 DEF Fetch
  <2>2. task' \in [Caller -> Task]
    BY <1>1, <2>1 DEF TypeOK, Task
  <2>3. TypeOK'
    BY <1>1, <1>3, <2>2 DEF Fetch, TypeOK, rows, bounds
  <2>4. /\ Holds(c)
        /\ task'[c].phase = "writing" /\ task'[c].ver = world
        /\ \A b \in Caller \ {c} : task'[b] = task[b]
    BY <1>1, <1>3, <2>1 DEF Fetch, TypeOK, Task, Holds
  <2>5. OneHolder'
    BY <2>4 DEF IInv, OneHolder, Holds
  <2>6. InOrder' /\ FreshIsWhole'
    <3>1. world \in Nat /\ Within(world)
      BY <1>1 DEF IInv, InOrder, TypeOK, Version
    <3>2. UNCHANGED <<holdings, earn, snapshot, world>>
      BY <1>3 DEF Fetch, rows
    <3>3. ASSUME NEW b \in Caller, task'[b].phase = "writing"
          PROVE  Within(task'[b].ver) /\ task'[b].ver =< world
      BY <2>4, <3>1, <3>3 DEF IInv, InOrder
    <3> QED BY <3>1, <3>2, <3>3 DEF IInv, InOrder, Within, FreshIsWhole, Nothing
  <2> QED BY <2>3, <2>5, <2>6 DEF IInv
<1>4. CASE Fails(c)
  <2>1. task' \in [Caller -> Task]
    BY <1>1, <1>4, TaskTypes DEF Fails, TypeOK, Task
  <2>2. TypeOK'
    BY <1>1, <1>4, <2>1, BoundAssumption DEF Fails, TypeOK, rows
  <2>3. /\ \A b \in Caller : Holds(b)' => Holds(b)
        /\ \A b \in Caller : task'[b].phase = "writing" => task'[b] = task[b]
    BY <1>1, <1>4 DEF Fails, TypeOK, Task, Holds, Idle
  <2>4. OneHolder' /\ InOrder' /\ FreshIsWhole'
    BY <1>1, <1>4, <2>3, Aside DEF Fails, TypeOK, Version, rows
  <2> QED BY <2>2, <2>4 DEF IInv
<1>5. CASE Commit(c)
  <2> DEFINE new == [key |-> task[c].key, ver |-> task[c].ver]
  <2>1. new \in Reading /\ new.ver = task[c].ver
    BY <1>1 DEF Task, Reading
  <2>2. /\ task' = [task EXCEPT ![c] = Idle]
        /\ holdings' = new
        /\ earn' \in {new, earn}
        /\ task[c].earn => earn' = new
        /\ snapshot' = [key |-> task[c].key, ver |-> task[c].ver,
                        quality |-> Quality(task[c])]
        /\ account' = [account EXCEPT !.status = Column(task[c].status, "ACTIVE")]
        /\ task[c].phase = "writing"
        /\ UNCHANGED <<world, worker, orphan, news, posts, leaving, bounds>>
    BY <1>5 DEF Commit
  <2>3. TypeOK'
    <3>1. account' \in [status: Status, key: Key \cup {NoKey}]
      BY <1>1, <2>2 DEF TypeOK, Column, Status
    <3>2. snapshot' \in [key: Key \cup {NoKey}, ver: Version,
                         quality: {"NONE", "FRESH", "PARTIAL", "STALE"}]
      BY <1>1, <2>2 DEF Task, Quality
    <3>3. holdings' \in Reading /\ earn' \in Reading
      BY <1>1, <2>1, <2>2 DEF TypeOK
    <3> HIDE DEF new
    <3> QED BY <1>1, <2>2, <3>1, <3>2, <3>3, TaskTypes DEF TypeOK, bounds
  <2>4. /\ Holds(c) /\ ~Holds(c)'
        /\ \A b \in Caller \ {c} : task'[b] = task[b]
    BY <1>1, <2>2 DEF TypeOK, Holds, Idle
  <2>5. \A b \in Caller : ~Holds(b)'
    BY <2>4 DEF IInv, OneHolder, Holds
  <2>6. Within(task[c].ver) /\ Within(world) /\ task[c].ver =< world
    BY <1>1, <2>2 DEF IInv, InOrder
  <2>7. InOrder' /\ OneHolder'
    <3>1. earn'.ver =< world /\ holdings'.ver =< world /\ snapshot'.ver =< world
      BY <2>1, <2>2, <2>6 DEF Within
    <3>2. \A b \in Caller : task'[b].phase # "writing"
      BY <2>5 DEF Holds
    <3> HIDE DEF new
    <3> QED BY <2>2, <2>5, <3>1, <3>2 DEF InOrder, Within, OneHolder
  <2>8. FreshIsWhole'
    BY <2>2 DEF FreshIsWhole, Quality
  <2> QED BY <2>3, <2>7, <2>8 DEF IInv
<1>6. CASE MarkStale(c)
  <2>1. TypeOK'
    BY <1>1, <1>6, TaskTypes DEF MarkStale, TypeOK, Status, bounds
  <2>2. /\ snapshot'.ver = snapshot.ver /\ snapshot'.quality # "FRESH"
        /\ \A b \in Caller : Holds(b)' => Holds(b)
        /\ \A b \in Caller : task'[b].phase = "writing" => task'[b] = task[b]
    BY <1>1, <1>6 DEF MarkStale, TypeOK, Task, Holds, Idle
  <2>3. OneHolder'
    BY <2>2 DEF IInv, OneHolder
  <2>4. InOrder' /\ FreshIsWhole'
    BY <1>6, <2>2 DEF IInv, MarkStale, InOrder, Within, FreshIsWhole
  <2> QED BY <2>1, <2>3, <2>4 DEF IInv
<1> QED BY <1>2, <1>3, <1>4, <1>5, <1>6 DEF Reconciling

\* The periodic pass, the refresh button, the worker and its streams: what they
\* do on their own, apart from reconciling.
LEMMA StreamsSafe ==
  ASSUME IInv,
         \/ Sweep \/ Refresh
         \/ StartWorker \/ CancelWorker \/ Open \/ Subscribe \/ QuietEnds \/ Hangup
         \/ \E s \in Stream : Hear(s) \/ OrphanHears(s)
         \/ OrphanEnds
  PROVE  IInv'
<1>1. /\ TypeOK /\ world \in Version /\ world =< world
      /\ {"loop", "refresh", "worker"} \subseteq Caller /\ Stream \subseteq Caller
  BY DEF IInv, TypeOK, Version, Caller
<1>2. ASSUME UNCHANGED <<rows, world, task>>
      PROVE  OneHolder' /\ InOrder' /\ FreshIsWhole'
  BY <1>1, <1>2, Aside DEF Holds, rows
<1>3. ASSUME NEW callers, UNCHANGED <<rows, world>>, task' = Cancelled(callers)
      PROVE  /\ task' \in [Caller -> Task]
             /\ OneHolder' /\ InOrder' /\ FreshIsWhole'
  <2>1. /\ \A b \in Caller : Holds(b)' => Holds(b)
        /\ \A b \in Caller : task'[b].phase = "writing" => task'[b] = task[b]
    BY <1>3 DEF Cancelled, Holds, Idle
  <2> QED BY <1>1, <1>3, <2>1, TaskTypes, Aside DEF TypeOK, rows
<1>4. CASE Sweep \/ Refresh
  <2>1. task' \in [Caller -> Task] /\ OneHolder' /\ InOrder' /\ FreshIsWhole'
    BY <1>1, <1>4, CallsSafe DEF Sweep, Refresh
  <2> QED BY <1>1, <1>4, <2>1 DEF Sweep, Refresh, IInv, TypeOK, rows, bounds
<1>5. CASE StartWorker \/ Subscribe \/ QuietEnds
  <2>1. TypeOK'
    BY <1>1, <1>5 DEF StartWorker, Subscribe, QuietEnds, Resting, TypeOK, rows, bounds
  <2> QED BY <1>2, <1>5, <2>1 DEF StartWorker, Subscribe, QuietEnds, IInv
<1>6. CASE CancelWorker
  <2>1. task' \in [Caller -> Task] /\ OneHolder' /\ InOrder' /\ FreshIsWhole'
    BY <1>3, <1>6 DEF CancelWorker
  <2>2. TypeOK'
    BY <1>1, <1>6, <2>1 DEF CancelWorker, Resting, TypeOK, rows, bounds
  <2> QED BY <2>1, <2>2 DEF IInv
<1>7. CASE Hangup
  <2>1. task' \in [Caller -> Task] /\ OneHolder' /\ InOrder' /\ FreshIsWhole'
    BY <1>3, <1>7 DEF Hangup
  <2>2. TypeOK'
    BY <1>1, <1>7, <2>1 DEF Hangup, Redial, TypeOK, rows, bounds
  <2> QED BY <2>1, <2>2 DEF IInv
<1>8. CASE Open
  <2>1. task' = task \/ task' = Called(task, "worker")
    BY <1>8 DEF Open, Changed
  <2>2. task' \in [Caller -> Task] /\ OneHolder' /\ InOrder' /\ FreshIsWhole'
    BY <1>1, <1>2, <1>8, <2>1, CallsSafe DEF Open, TypeOK
  <2>3. TypeOK'
    BY <1>1, <1>8, <2>2 DEF Open, TypeOK, rows, bounds
  <2> QED BY <2>2, <2>3 DEF IInv
<1>9. ASSUME NEW s \in Stream, Hear(s) \/ OrphanHears(s) PROVE IInv'
  <2>1. task' = task \/ task' = Called(task, s)
    BY <1>9 DEF Hear, OrphanHears, Changed
  <2>2. task' \in [Caller -> Task] /\ OneHolder' /\ InOrder' /\ FreshIsWhole'
    BY <1>1, <1>2, <1>9, <2>1, CallsSafe DEF Hear, OrphanHears, TypeOK
  <2>3. TypeOK'
    BY <1>1, <1>9, <2>2 DEF Hear, OrphanHears, TypeOK, rows, bounds
  <2> QED BY <2>2, <2>3 DEF IInv
<1>10. CASE OrphanEnds
  <2>1. TypeOK'
    BY <1>1, <1>10 DEF OrphanEnds, TypeOK, rows, bounds
  <2> QED BY <1>2, <1>10, <2>1 DEF OrphanEnds, IInv
<1> QED BY <1>4, <1>5, <1>6, <1>7, <1>8, <1>9, <1>10

\* Balances change, and the process dies with whatever held the lock.
LEMMA EnvironmentSafe ==
  ASSUME IInv, Change \/ Restart
  PROVE  IInv'
<1>1. TypeOK /\ world \in Version
  BY DEF IInv, TypeOK
<1>2. CASE Change
  <2>1. world' \in Version /\ world =< world'
    BY <1>1, <1>2, BoundAssumption DEF Change, Version
  <2>2. OneHolder' /\ InOrder' /\ FreshIsWhole'
    BY <1>2, <2>1, Aside DEF Change, Holds, rows
  <2>3. TypeOK'
    BY <1>1, <1>2, <2>1 DEF Change, TypeOK, rows, bounds
  <2> QED BY <2>2, <2>3 DEF IInv
<1>3. CASE Restart
  <2>1. /\ \A c \in Caller : ~Holds(c)'
        /\ \A c \in Caller : task'[c].phase # "writing"
    BY <1>3 DEF Restart, Holds, Idle
  <2>2. OneHolder' /\ InOrder' /\ FreshIsWhole'
    BY <1>3, <2>1 DEF IInv, Restart, OneHolder, InOrder, Within, FreshIsWhole, Nothing,
                      rows
  <2>3. TypeOK'
    BY <1>1, <1>3, TaskTypes, BoundAssumption
       DEF Restart, Resting, TypeOK, Status, Reading, rows
  <2> QED BY <2>2, <2>3 DEF IInv
<1> QED BY <1>2, <1>3

\* Every step keeps the invariant.
LEMMA NextSafe == IInv /\ [Next]_vars => IInv'
<1> SUFFICES ASSUME IInv, [Next]_vars PROVE IInv'
  OBVIOUS
<1>1. CASE UNCHANGED vars
  BY <1>1 DEF vars, rows, bounds, IInv, TypeOK, OneHolder, Holds, InOrder, Within,
              FreshIsWhole
<1>2. CASE Next
  BY <1>2, HandlersSafe, ReconcilingSafe, StreamsSafe, EnvironmentSafe DEF Next
<1> QED BY <1>1, <1>2

-----------------------------------------------------------------------------

\* The invariant, for any streams and bounds.
THEOREM Invariance == Spec => []IInv
BY InitSafe, NextSafe, PTL DEF Spec

\* Rows, tasks, streams and requests keep their types.
THEOREM TypeCorrect == Spec => []TypeOK
<1>1. IInv => TypeOK
  BY DEF IInv
<1> QED BY <1>1, Invariance, PTL

\* A snapshot that calls itself FRESH is of one reading, whoever reconciled,
\* failed, disconnected or died in between.
THEOREM FreshSnapshots == Spec => []FreshIsWhole
<1>1. IInv => FreshIsWhole
  BY DEF IInv
<1> QED BY <1>1, Invariance, PTL

\* No reconciliation replaces a later reading by an earlier one.
THEOREM LaterReadings == Spec => ReadingsAdvance
<1> DEFINE Advance ==
      /\ holdings'.key # NoKey => holdings'.ver >= holdings.ver
      /\ snapshot'.ver >= snapshot.ver
      /\ earn'.ver >= earn.ver
<1>1. IInv /\ [Next]_vars => [Advance]_vars
  <2> SUFFICES ASSUME IInv, Next PROVE Advance
    OBVIOUS
  <2>1. holdings.ver \in Nat /\ snapshot.ver \in Nat /\ earn.ver \in Nat
    BY DEF IInv, TypeOK, Reading, Version
  <2>2. CASE UNCHANGED <<holdings, snapshot, earn>>
    BY <2>1, <2>2
  <2>3. ASSUME NEW c \in Caller, Commit(c) PROVE Advance
    BY <2>1, <2>3 DEF Commit, IInv, InOrder, Within
  <2>4. ASSUME NEW c \in Caller, MarkStale(c) PROVE Advance
    BY <2>1, <2>4 DEF MarkStale, IInv, TypeOK
  <2>5. CASE Disconnect
    BY <2>1, <2>5 DEF Disconnect, Nothing
  <2>6. \/ UNCHANGED <<holdings, snapshot, earn>>
        \/ \E c \in Caller : Commit(c) \/ MarkStale(c)
        \/ Disconnect
    BY DEF Next, Reconciling, Accept, Connect, Leave, Sweep, Refresh, Begin, Fetch, Fails,
           StartWorker, CancelWorker, Open, Subscribe, QuietEnds, Hangup, Hear,
           OrphanHears, OrphanEnds, Change, Restart, rows
  <2> QED BY <2>2, <2>3, <2>4, <2>5, <2>6
<1>2. Spec => [][Advance]_vars
  BY <1>1, Invariance, PTL DEF Spec
<1> QED BY <1>2 DEF ReadingsAdvance

=============================================================================

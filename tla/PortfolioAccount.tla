--------------------------- MODULE PortfolioAccount ---------------------------
(***************************************************************************)
(* One user's exchange account: the request that connects it (webapp/),    *)
(* the handler that disconnects it, the reconciliation that copies it from *)
(* Binance into the tables (portfolio/service.py), and the worker that     *)
(* keeps its private streams and asks for reconciliations                  *)
(* (portfolio/private_stream.py).  Every one of them reads the account     *)
(* some time before it writes it.                                          *)
(*                                                                         *)
(* What Binance would answer is a version number, which grows whenever the *)
(* balances change.  Accounts share no row; the semaphore that bounds how  *)
(* many are reconciled at a time is left out.                              *)
(***************************************************************************)
EXTENDS Integers

CONSTANTS
  Stream,       \* the private streams, "futures" and "spot"
  MaxRequest,   \* bound of the model: connect requests Binance accepts
  MaxWorld,     \* bound of the model: changes of the balances
  MaxFault,     \* bound of the model: failures of Binance, deaths of the process
  MaxLeave      \* bound of the model: disconnections

ASSUME StreamAssumption ==
  Stream \cap {"loop", "refresh", "worker"} = {}

ASSUME BoundAssumption ==
  MaxRequest \in Nat /\ MaxWorld \in Nat /\ MaxFault \in Nat /\ MaxLeave \in Nat

\* Who calls reconcile_now: the periodic pass, the refresh button, the worker
\* before it opens its streams, and each stream on an event.
Caller == {"loop", "refresh", "worker"} \cup Stream

\* Every request brings a key pair of its own, which has its number.
Request == 1..MaxRequest

Key == Request

NoKey == 0

Status == {"NONE", "ACTIVE", "STALE", "DISCONNECTED"}

Version == 0..MaxWorld

\* Rows read from Binance with a key, at a version.
Reading == [key: Key \cup {NoKey}, ver: Version]

Task ==
  [phase: {"idle", "waiting", "fetching", "writing", "failing"}, status: Status,
   key: Key \cup {NoKey}, ver: Version, earn: BOOLEAN]

Post ==
  [phase: {"idle", "commit", "done"}, status: Status, held: BOOLEAN]

VARIABLES
  account,      \* exchange_accounts.status, and the credential row's key
  holdings,     \* spot_holdings and positions: the reading they are of
  earn,         \* earn_holdings and funding_holdings: the oldest reading there
  snapshot,     \* the latest row of portfolio_snapshots
  world,        \* the version Binance is at
  task,         \* [Caller -> Task]: reconcile_now; its locals
  worker,       \* _account_worker: its phase, its client's key, its debounce
  orphan,       \* the key of streams whose worker was cancelled
  news,         \* streams with an event not handled
  posts,        \* [Request -> Post]: connect_account and its locals
  leaving,      \* the status confirm_disconnect_callback read, "NONE" when idle
  faults, leaves

rows == <<account, holdings, earn, snapshot>>
bounds == <<faults, leaves>>
vars == <<rows, world, task, worker, orphan, news, posts, leaving, bounds>>

Nothing == [key |-> NoKey, ver |-> 0]

Idle == [phase |-> "idle", status |-> "NONE", key |-> NoKey, ver |-> 0, earn |-> FALSE]

NoPost == [phase |-> "idle", status |-> "NONE", held |-> FALSE]

Resting == [phase |-> "none", key |-> NoKey, quiet |-> FALSE]

Init ==
  /\ account = [status |-> "NONE", key |-> NoKey]
  /\ holdings = Nothing /\ earn = Nothing
  /\ snapshot = [key |-> NoKey, ver |-> 0, quality |-> "NONE"]
  /\ world = 0
  /\ task = [c \in Caller |-> Idle]
  /\ worker = Resting /\ orphan = NoKey
  /\ news = {}
  /\ posts = [r \in Request |-> NoPost]
  /\ leaving = "NONE"
  /\ faults = 0 /\ leaves = 0

-----------------------------------------------------------------------------
(* Connecting and disconnecting.                                           *)

\* Binance accepted the key and the link is consumed (module Onboarding): the
\* transaction reads the account and whether it has a credential.
Accept(r) ==
  /\ posts[r].phase = "idle" /\ \A q \in Request : q < r => posts[q].phase # "idle"
  /\ posts' = [posts EXCEPT ![r] =
       [phase |-> "commit", status |-> account.status, held |-> account.key # NoKey]]
  /\ UNCHANGED <<rows, world, task, worker, orphan, news, leaving, bounds>>

\* An ORM attribute is written only when it differs from what was read.
Column(read, new) == IF read = new THEN account.status ELSE new

\* connect_binance commits.  A row that appeared meanwhile breaks a unique
\* key, one that disappeared makes the update match nothing: both roll back.
Connect(r) ==
  LET p == posts[r]
      clash == \/ (p.status = "NONE") # (account.status = "NONE")
               \/ p.held # (account.key # NoKey)
  IN /\ p.phase = "commit"
     /\ posts' = [posts EXCEPT ![r] = [NoPost EXCEPT !.phase = "done"]]
     /\ IF clash THEN UNCHANGED account
        ELSE account' = [status |-> Column(p.status, "ACTIVE"), key |-> r]
     /\ UNCHANGED <<holdings, earn, snapshot, world, task, worker, orphan, news, leaving,
                    bounds>>

\* confirm_disconnect_callback, up to its commit.
Leave ==
  /\ leaving = "NONE" /\ account.status # "NONE" /\ leaves < MaxLeave
  /\ leaving' = account.status
  /\ leaves' = leaves + 1
  /\ UNCHANGED <<rows, world, task, worker, orphan, news, posts, faults>>

\* It deletes the credential, spot and positions; earn, funding and snapshots
\* stay.
Disconnect ==
  /\ leaving # "NONE"
  /\ leaving' = "NONE"
  /\ account' = [status |-> Column(leaving, "DISCONNECTED"), key |-> NoKey]
  /\ holdings' = Nothing
  /\ UNCHANGED <<earn, snapshot, world, task, worker, orphan, news, posts, bounds>>

-----------------------------------------------------------------------------
(* Reconciliation.                                                         *)

\* Faulty: an account whose last sync failed is left alone.
WatchedActive == account.status = "ACTIVE"

\* The accounts the periodic pass and the stream manager select.
Watched == account.status \in {"ACTIVE", "STALE"}

Called(t, c) == [t EXCEPT ![c].phase = "waiting"]

\* The pass of run: it waits for its reconciliations before the next one.
Sweep ==
  /\ Watched /\ task["loop"] = Idle
  /\ task' = Called(task, "loop")
  /\ UNCHANGED <<rows, world, worker, orphan, news, posts, leaving, bounds>>

Refresh ==
  /\ account.status \notin {"NONE", "DISCONNECTED"} /\ task["refresh"] = Idle
  /\ task' = Called(task, "refresh")
  /\ UNCHANGED <<rows, world, worker, orphan, news, posts, leaving, bounds>>

\* Faulty: nothing serialises the reconciliations of an account.
NoLock == TRUE

\* The account's lock.
Unlocked == \A c \in Caller : task[c].phase \in {"idle", "waiting"}

\* The transaction begins: the account and its credential are read.
Begin(c) ==
  /\ task[c].phase = "waiting" /\ Unlocked
  /\ task' = [task EXCEPT ![c] =
       IF account.key = NoKey THEN Idle
       ELSE [Idle EXCEPT !.phase = "fetching", !.status = account.status,
                         !.key = account.key]]
  /\ UNCHANGED <<rows, world, worker, orphan, news, posts, leaving, bounds>>

\* Binance answers for spot, futures, positions and prices, and for the earn
\* and funding sources, each of which may fail alone; so may a price be missing.
Fetch(c) ==
  /\ task[c].phase = "fetching"
  /\ \E whole \in BOOLEAN :
       task' = [task EXCEPT ![c].phase = "writing", ![c].ver = world, ![c].earn = whole]
  /\ UNCHANGED <<rows, world, worker, orphan, news, posts, leaving, bounds>>

\* A BinanceCredentialError; any other error, of the commit too, rolls back.
Fails(c) ==
  /\ task[c].phase \in {"fetching", "writing"} /\ faults < MaxFault
  /\ faults' = faults + 1
  /\ \/ task[c].phase = "fetching" /\ task' = [task EXCEPT ![c].phase = "failing"]
     \/ task' = [task EXCEPT ![c] = Idle]
  /\ UNCHANGED <<rows, world, worker, orphan, news, posts, leaving, leaves>>

\* Faulty: the snapshot takes the status of its worst source.
WorstQuality(t) == IF t.earn THEN "FRESH" ELSE "UNAVAILABLE"

\* Faulty: only the sources that cannot be missing count.
CoreQuality(t) == "FRESH"

Quality(t) == IF t.earn THEN "FRESH" ELSE "PARTIAL"

\* The rows of the sources that answered are replaced, a snapshot is added,
\* and the account is ACTIVE unless it was read so.
Commit(c) ==
  LET t == task[c]
      new == [key |-> t.key, ver |-> t.ver]
  IN /\ t.phase = "writing"
     /\ task' = [task EXCEPT ![c] = Idle]
     /\ account' = [account EXCEPT !.status = Column(t.status, "ACTIVE")]
     /\ holdings' = new
     /\ earn' \in IF t.earn THEN {new} ELSE {new, earn}
     /\ snapshot' = [key |-> t.key, ver |-> t.ver, quality |-> Quality(t)]
     /\ UNCHANGED <<world, worker, orphan, news, posts, leaving, bounds>>

\* _mark_stale, in a transaction of its own and still under the lock.
MarkStale(c) ==
  /\ task[c].phase = "failing"
  /\ task' = [task EXCEPT ![c] = Idle]
  /\ account' = [account EXCEPT !.status = "STALE"]
  /\ snapshot' = [snapshot EXCEPT !.quality = IF @ = "NONE" THEN @ ELSE "STALE"]
  /\ UNCHANGED <<holdings, earn, world, worker, orphan, news, posts, leaving, bounds>>

-----------------------------------------------------------------------------
(* The private streams.                                                    *)

\* The manager's discovery, every five seconds.
StartWorker ==
  /\ Watched /\ worker.phase = "none"
  /\ worker' = [Resting EXCEPT !.phase = "opening"]
  /\ UNCHANGED <<rows, world, task, orphan, news, posts, leaving, bounds>>

\* A cancelled task rolls back and releases the lock.  The worker's streams are
\* tasks of their own: asyncio.wait does not cancel them with it.
Cancelled(callers) == [c \in Caller |-> IF c \in callers THEN Idle ELSE task[c]]

CancelWorker ==
  /\ ~Watched /\ worker.phase # "none"
  /\ worker' = Resting
  /\ orphan' = IF worker.phase = "streaming" THEN worker.key ELSE orphan
  /\ task' = Cancelled({"worker"})
  /\ news' = {}
  /\ UNCHANGED <<rows, world, posts, leaving, bounds>>

\* A stream without a worker hears of something and calls changed.
OrphanHears(s) ==
  /\ orphan # NoKey /\ task[s] = Idle
  /\ task' = Called(task, s)
  /\ UNCHANGED <<rows, world, worker, orphan, news, posts, leaving, bounds>>

\* Its listen key expires, or its connection does.
OrphanEnds ==
  /\ orphan # NoKey
  /\ orphan' = NoKey
  /\ UNCHANGED <<rows, world, task, worker, news, posts, leaving, bounds>>

\* changed: a caller within a second of the last reconciliation returns.
Changed(c) ==
  IF worker.quiet THEN UNCHANGED task ELSE task' = Called(task, c)

\* The worker reads the credentials and opens a client.  Without credentials it
\* backs off and tries again.
Open ==
  /\ worker.phase = "opening" /\ account.key # NoKey
  /\ Changed("worker")
  /\ worker' = [phase |-> "greeting", key |-> account.key, quiet |-> TRUE]
  /\ UNCHANGED <<rows, world, orphan, news, posts, leaving, bounds>>

\* Both streams are opened once the first reconciliation has returned.
Subscribe ==
  /\ worker.phase = "greeting" /\ task["worker"] = Idle
  /\ worker' = [worker EXCEPT !.phase = "streaming"]
  /\ UNCHANGED <<rows, world, task, orphan, news, posts, leaving, bounds>>

Hear(s) ==
  /\ worker.phase = "streaming" /\ s \in news /\ task[s] = Idle
  /\ news' = news \ {s}
  /\ Changed(s)
  /\ worker' = [worker EXCEPT !.quiet = TRUE]
  /\ UNCHANGED <<rows, world, orphan, posts, leaving, bounds>>

\* The debounce second passes.
QuietEnds ==
  /\ worker.quiet
  /\ worker' = [worker EXCEPT !.quiet = FALSE]
  /\ UNCHANGED <<rows, world, task, orphan, news, posts, leaving, bounds>>

\* Faulty: the streams are opened again with the client at hand.
Redialled == [worker EXCEPT !.phase = "greeting"]

Redial == [worker EXCEPT !.phase = "opening", !.key = NoKey]

\* A stream ends, at the latest after a day: the other one is cancelled, and
\* the worker begins again.
Hangup ==
  /\ worker.phase = "streaming"
  /\ worker' = Redial
  /\ task' = Cancelled(Stream)
  /\ news' = {}
  /\ UNCHANGED <<rows, world, orphan, posts, leaving, bounds>>

-----------------------------------------------------------------------------
(* The environment.                                                        *)

Change ==
  /\ world < MaxWorld
  /\ world' = world + 1
  /\ IF worker.phase = "streaming" THEN \E s \in Stream : news' = news \cup {s}
     ELSE UNCHANGED news
  /\ UNCHANGED <<rows, task, worker, orphan, posts, leaving, bounds>>

\* The process dies, and what it had begun with it.
Restart ==
  /\ faults < MaxFault
  /\ faults' = faults + 1
  /\ task' = [c \in Caller |-> Idle]
  /\ worker' = Resting /\ orphan' = NoKey
  /\ news' = {}
  /\ posts' = [r \in Request |-> IF posts[r] = NoPost THEN NoPost
                                 ELSE [NoPost EXCEPT !.phase = "done"]]
  /\ leaving' = "NONE"
  /\ UNCHANGED <<rows, world, leaves>>

Reconciling(c) == Begin(c) \/ Fetch(c) \/ Fails(c) \/ Commit(c) \/ MarkStale(c)

Next ==
  \/ \E r \in Request : Accept(r) \/ Connect(r)
  \/ Leave \/ Disconnect
  \/ Sweep \/ Refresh
  \/ \E c \in Caller : Reconciling(c)
  \/ StartWorker \/ CancelWorker \/ Open \/ Subscribe \/ QuietEnds \/ Hangup
  \/ \E s \in Stream : Hear(s) \/ OrphanHears(s)
  \/ OrphanEnds
  \/ Change \/ Restart

\* asyncio.Lock is first come, first served, so whoever holds it goes on and the
\* worker gets its turn; a stream is closed by Binance after a day; faults are
\* bounded.
Fairness ==
  /\ WF_vars(Sweep)
  /\ WF_vars(\E c \in Caller : Begin(c) \/ Fetch(c) \/ Commit(c) \/ MarkStale(c))
  /\ SF_vars(Begin("worker"))
  /\ WF_vars(CancelWorker)
  /\ WF_vars(StartWorker \/ Open \/ Subscribe \/ Hangup)
  /\ WF_vars(OrphanEnds)

Spec == Init /\ [][Next]_vars /\ Fairness

-----------------------------------------------------------------------------
(* Properties.                                                             *)

TypeOK ==
  /\ account \in [status: Status, key: Key \cup {NoKey}]
  /\ holdings \in Reading /\ earn \in Reading
  /\ snapshot \in [key: Key \cup {NoKey}, ver: Version,
                   quality: {"NONE", "FRESH", "PARTIAL", "STALE"}]
  /\ world \in Version
  /\ task \in [Caller -> Task]
  /\ worker \in [phase: {"none", "opening", "greeting", "streaming"},
                 key: Key \cup {NoKey}, quiet: BOOLEAN]
  /\ orphan \in Key \cup {NoKey} /\ news \subseteq Stream
  /\ posts \in [Request -> Post]
  /\ leaving \in Status
  /\ faults \in 0..MaxFault /\ leaves \in 0..MaxLeave

\* A reconciliation never replaces a later reading by an earlier one, whoever
\* asked for it: the lock spans what is read and what is written
\* (service.py:251).
ReadingsAdvance ==
  [][/\ holdings'.key # NoKey => holdings'.ver >= holdings.ver
     /\ snapshot'.ver >= snapshot.ver
     /\ earn'.ver >= earn.ver]_vars

\* A snapshot that calls itself FRESH is of one reading: no earn or funding row
\* beside it was kept from an earlier one, and the spot rows are its own unless
\* the user disconnected (service.py:112).
FreshIsWhole ==
  snapshot.quality = "FRESH" =>
    LET reading == [key |-> snapshot.key, ver |-> snapshot.ver]
    IN earn = reading /\ holdings \in {reading, Nothing}

\* Whatever is lost on the way (an event the debounce drops, a stream that is
\* down, a failed or cancelled reconciliation), a connected account ends up
\* ACTIVE with a snapshot of the present balances taken with the present key.
Converges ==
  <>[](account.key # NoKey /\ account.status # "DISCONNECTED" =>
         /\ account.status = "ACTIVE"
         /\ snapshot.key = account.key /\ snapshot.ver = world
         /\ snapshot.quality # "STALE")

\* No stream runs for ever with a key the user replaced or took away, not even
\* one whose worker is gone (private_stream.py:61, 98, 111).
StreamsFollowKey == <>[]({worker.key, orphan} \subseteq {NoKey, account.key})

\* handlers.py:437 offers to delete the key and stop the monitoring, and 463
\* reports that it is done: only connecting again brings the account back.
StaysDisconnected ==
  [][account.status = "DISCONNECTED" /\ account'.status # "DISCONNECTED"
       => account'.key # NoKey]_vars

=============================================================================

------------------------ MODULE SignalDelivery_proofs ------------------------
(***************************************************************************)
(* The safety of SignalDelivery for any symbols, users and bounds: types,  *)
(* ClosingIsShown whatever restarts do, and OneThread and ChatSettles as   *)
(* long as the process lives (a restart may bring a row back to a stage    *)
(* that was announced before).  Three things carry the argument.           *)
(* Deliveries are numbered in the order of their transactions and the      *)
(* worker takes the oldest, so whatever is older than a delivery that was  *)
(* once taken is over (InQueue).  While the process lives, a row climbs    *)
(* its stages, so the delivery of its present stage is the last one of     *)
(* each user (LastWord, JobsFollow).  And whoever holds a text read        *)
(* earlier knows that it is the present one, or that the delivery of the   *)
(* present one is still to come (Current).                                 *)
(***************************************************************************)
EXTENDS SignalDelivery, SignalLifecycle_proofs, FiniteSetTheorems, SequenceTheorems

Row == [symbol: Symbol, direction: Direction, state: State, active: BOOLEAN]

Message == [row: 1..MaxRow, text: State, gone: BOOLEAN]

Outcome == {"sent", "unchanged", "refused", "forbidden"}

Workers ==
  [phase: {"idle"}] \cup [phase: {"claimed"}, job: JobId]
    \cup [phase: {"prepared"}, job: JobId, text: State, target: Nat]
    \cup [phase: {"answered"}, job: JobId, outcome: Outcome, message: Nat]

Types ==
  /\ TypeOK
  /\ rows \in Seq(Row) /\ Len(rows) <= MaxRow
  /\ jobs \in [JobId -> Job]
  /\ worker \in Workers
  /\ chat \in [User -> Seq(Message)]
  /\ faults \in Nat /\ crashes \in 0..MaxCrash /\ cleanups \in 0..MaxCleanup

-----------------------------------------------------------------------------
(* Rows.                                                                   *)

\* A row is active until COOLDOWN, one at a time for a symbol and direction,
\* and follows its lifecycle while the process lives.
RowsFollow ==
  \A r \in DOMAIN rows :
    /\ rows[r].active = RowActive(rows[r].state)
    /\ rows[r].active =>
         \A q \in DOMAIN rows :
           /\ rows[q].active
           /\ rows[q].symbol = rows[r].symbol /\ rows[q].direction = rows[r].direction
           => q = r
    /\ rows[r].active /\ crashes = 0 =>
         rows[r].state = stage[rows[r].symbol][rows[r].direction]

\* The delivery of the same signal and user for the present stage.
Last(i) == [i EXCEPT !.stage = rows[i.row].state]

\* The two deliveries are of one signal and user.
Alike(i, k) == i.row = k.row /\ i.user = k.user

\* Deliveries are of rows that reached their stage; without a restart a row
\* reaches a stage once and every user who follows it hears of it.
JobsFollow ==
  \A i \in JobId :
    IF ~Exists(i) THEN jobs[i] = NoJob
    ELSE /\ i.row \in DOMAIN rows
         /\ i.stage = "COOLDOWN" => rows[i.row].state = "COOLDOWN"
         /\ jobs[i].action = "SEND" => i.stage \in Threads
         /\ crashes = 0 =>
              /\ Rank[i.stage] <= Rank[rows[i.row].state]
              /\ Last(i) \in JobId /\ Exists(Last(i))
              /\ \E k \in JobId : Alike(i, k) /\ k.stage \in Threads /\ Exists(k)

-----------------------------------------------------------------------------
(* The queue.                                                              *)

Handled(i) == worker.phase # "idle" /\ worker.job = i

\* Neither waiting nor in the worker's hands: it will not change any more.
Over(i) == jobs[i].status # "PENDING" /\ ~Handled(i)

\* Transactions number their deliveries 1, 2, ...
Numbered == \E n \in Nat : {jobs[i].at : i \in JobId} \cup {0} = 0..n

Busy == worker.phase # "idle" => jobs[worker.job].status = "PROCESSING"

\* What is older than a delivery that was taken is over.
InQueue ==
  \A i, k \in JobId :
    /\ Exists(i) /\ Exists(k)
    /\ jobs[i].at < jobs[k].at
    /\ jobs[k].status # "PENDING"
    => Over(i)

\* Deliveries of one signal and user belong to different transactions.
Distinct ==
  \A i, k \in JobId :
    Exists(i) /\ Exists(k) /\ Alike(i, k) /\ jobs[i].at = jobs[k].at => i = k

\* A message is only sent anew before every other of its thread.
SendsFirst ==
  crashes = 0 =>
    \A i, k \in JobId :
      /\ Exists(i) /\ Exists(k) /\ Alike(i, k)
      /\ jobs[i].action = "SEND" /\ k.stage \in Threads
      => jobs[i].at <= jobs[k].at

\* Restarts may bring a row back to an earlier stage, but not from COOLDOWN.
Lasting(i) == i.stage = rows[i.row].state /\ (crashes = 0 \/ i.stage = "COOLDOWN")

LastWord ==
  \A i, k \in JobId :
    Exists(i) /\ Exists(k) /\ Alike(i, k) /\ Lasting(k) => jobs[i].at <= jobs[k].at

\* What the status says of retries, errors and the thread.
Accounts ==
  \A i \in JobId :
    /\ Unfinished(i) => jobs[i].retries <= MaxRetry
    /\ jobs[i].status = "FAILED" =>
         /\ jobs[i].error # "none"
         /\ jobs[i].error = "unchanged" => Sent(i.row, i.user) # {}

Queue ==
  Numbered /\ Busy /\ InQueue /\ Distinct /\ SendsFirst /\ LastWord /\ Accounts

-----------------------------------------------------------------------------
(* The chats.                                                              *)

\* The first delivery of its signal and user that was sent.
First(k) ==
  k \in Sent(k.row, k.user) /\ \A n \in Sent(k.row, k.user) : jobs[k].at <= jobs[n].at

\* The delivery of the present stage is still to come.
Coming(i) ==
  \A k \in JobId : Alike(i, k) /\ Lasting(k) => jobs[k].status \in {"NONE", "PENDING"}

\* A text for the message of i is of the present stage, or will be replaced.
Current(i, text) == text = rows[i.row].state \/ Coming(i)

\* i starts its thread, or edits message m of the first delivery.
Starts(i) == jobs[i].action = "SEND" \/ Sent(i.row, i.user) = {}

Edits(i, m) ==
  /\ jobs[i].action = "EDIT"
  /\ \E k \in JobId : Alike(i, k) /\ First(k) /\ m = jobs[k].message

Placed(i, m) == m \in DOMAIN chat[i.user] /\ chat[i.user][m].row = i.row

Delivered ==
  /\ \A i \in JobId : jobs[i].status = "SENT" => Placed(i, jobs[i].message)
  /\ \A u \in User : \A m \in DOMAIN chat[u] : chat[u][m].row \in DOMAIN rows

\* What the worker knows on its way.
Knows ==
  /\ worker.phase = "prepared" =>
       /\ Current(worker.job, worker.text)
       /\ \/ worker.target = 0 /\ Starts(worker.job)
          \/ Edits(worker.job, worker.target)
  /\ worker.phase = "answered" /\ worker.outcome = "sent" =>
       /\ Placed(worker.job, worker.message)
       /\ Current(worker.job, chat[worker.job.user][worker.message].text)
       /\ Starts(worker.job) \/ Edits(worker.job, worker.message)
  /\ worker.phase = "answered" /\ worker.outcome = "unchanged" =>
       \E m \in Nat :
         Edits(worker.job, m) /\ Current(worker.job, chat[worker.job.user][m].text)

\* The delivery got through, or had nothing left to change.
Fulfilled(i) ==
  jobs[i].status = "SENT" \/ (jobs[i].status = "FAILED" /\ jobs[i].error = "unchanged")

\* Once the delivery of the present stage got through, the thread shows it.
Told ==
  \A i, k \in JobId :
    Alike(i, k) /\ Fulfilled(i) /\ Lasting(i) /\ First(k) =>
      chat[k.user][jobs[k].message].text = rows[i.row].state

\* The inductive invariant.
IInv ==
  Types /\ RowsFollow /\ JobsFollow /\ Queue /\ Delivered /\ Knows /\ Told

-----------------------------------------------------------------------------
(* What a transition does, in the terms of the invariant.                  *)

\* The row r of the lifecycle reaches the stage state.
Reaches(s, d, r, state) ==
  /\ r \in 1..MaxRow /\ state \in State
  /\ TypeOK' /\ stage'[s][d] = state
  /\ \A q \in Symbol, e \in Direction :
       <<q, e>> # <<s, d>> => stage'[q][e] = stage[q][e]
  /\ rows' \in Seq(Row) /\ Len(rows') <= MaxRow
  /\ DOMAIN rows' = DOMAIN rows \cup {r}
  /\ rows'[r] = [symbol |-> s, direction |-> d, state |-> state,
                 active |-> RowActive(state)]
  /\ \A q \in DOMAIN rows \ {r} : rows'[q] = rows[q]
  /\ r \notin DOMAIN rows => ActiveRows(s, d) = {}
  /\ r \in DOMAIN rows =>
       /\ rows[r].active /\ rows[r].symbol = s /\ rows[r].direction = d
       /\ crashes = 0 => /\ Rank[state] > Rank[rows[r].state]
                         /\ state = "EARLY" => rows[r].state = "CANDIDATE"

\* One stage changes, upwards unless the signal is rearmed.
LEMMA StageMoves ==
  ASSUME TypeOK, NEW s \in Symbol, NEW d \in Direction,
         \/ Open(s, d) \/ Promote(s, d) \/ Close(s, d) \/ Settle(s, d) \/ Rearm(s, d)
  PROVE  /\ TypeOK' /\ stage'[s][d] \in State
         /\ \A q \in Symbol, e \in Direction :
              <<q, e>> # <<s, d>> => stage'[q][e] = stage[q][e]
         /\ stage[s][d] # "COOLDOWN" => Rank[stage'[s][d]] > Rank[stage[s][d]]
         /\ stage'[s][d] = "EARLY" => stage[s][d] = "CANDIDATE"
<1>1. stage[s][d] \in State
  BY DEF TypeOK
<1>2. PICK to \in State :
        /\ Enter(s, d, to)
        /\ \/ stage[s][d] = "NORMAL" /\ to = "CANDIDATE"
           \/ to \in Promotions(stage[s][d])
           \/ to \in Closings(stage[s][d])
           \/ to \in Settlings(stage[s][d])
           \/ stage[s][d] = "COOLDOWN" /\ to = "NORMAL"
  <2>1. "CANDIDATE" \in State /\ "NORMAL" \in State
    BY DEF State
  <2> QED BY <1>1, <2>1, EdgesFromActive DEF Open, Promote, Close, Settle, Rearm
<1>3. stage'[s][d] = to
  BY <1>2 DEF Enter, TypeOK
<1>4. TypeOK' /\ \A q \in Symbol, e \in Direction :
                   <<q, e>> # <<s, d>> => stage'[q][e] = stage[q][e]
  BY <1>2 DEF Enter, TypeOK
<1>5. stage[s][d] # "COOLDOWN" => Rank[to] > Rank[stage[s][d]]
  BY <1>1, <1>2, EdgesClimb
<1>6. to = "EARLY" => stage[s][d] = "CANDIDATE"
  BY <1>2 DEF Promotions, Closings, Settlings
<1> QED BY <1>2, <1>3, <1>4, <1>5, <1>6

\* The row is the one active one, or the next one.
LEMMA RowOfIs ==
  ASSUME NEW s, NEW d, rows \in Seq(Row)
  PROVE  \/ /\ RowOf(s, d) \in DOMAIN rows
            /\ RowOf(s, d) \in ActiveRows(s, d)
         \/ /\ ActiveRows(s, d) = {}
            /\ RowOf(s, d) = Len(rows) + 1
            /\ RowOf(s, d) \notin DOMAIN rows
<1>1. DOMAIN rows = 1..Len(rows) /\ Len(rows) \in Nat
  BY LenProperties
<1>2. CASE ActiveRows(s, d) = {}
  BY <1>1, <1>2 DEF RowOf
<1>3. CASE ActiveRows(s, d) # {}
  <2>1. (CHOOSE r \in ActiveRows(s, d) : TRUE) \in ActiveRows(s, d)
    BY <1>3
  <2> QED BY <1>3, <2>1 DEF RowOf, ActiveRows
<1> QED BY <1>2, <1>3

LEMMA RowReaches ==
  ASSUME Types, RowsFollow, NEW s \in Symbol, NEW d \in Direction, Transition(s, d)
  PROVE  Reaches(s, d, RowOf(s, d), stage'[s][d])
<1> DEFINE r == RowOf(s, d)
           state == stage'[s][d]
           row == [symbol |-> s, direction |-> d, state |-> state,
                   active |-> RowActive(state)]
<1>1. /\ TypeOK' /\ state \in State
      /\ \A q \in Symbol, e \in Direction :
           <<q, e>> # <<s, d>> => stage'[q][e] = stage[q][e]
      /\ stage[s][d] # "COOLDOWN" => Rank[state] > Rank[stage[s][d]]
      /\ state = "EARLY" => stage[s][d] = "CANDIDATE"
  BY StageMoves DEF Types, Transition
<1>2. /\ r <= MaxRow
      /\ rows' = IF r \in DOMAIN rows THEN [rows EXCEPT ![r] = row]
                 ELSE Append(rows, row)
  BY DEF Transition, FanOut, Persisted
<1>3. rows \in Seq(Row) /\ DOMAIN rows = 1..Len(rows) /\ Len(rows) \in Nat
  BY LenProperties DEF Types
<1>4. row \in Row
  BY <1>1 DEF Row, RowActive
<1>5. CASE r \in DOMAIN rows
  <2>1. rows[r].symbol = s /\ rows[r].direction = d /\ rows[r].active
    BY <1>3, <1>5, RowOfIs DEF ActiveRows
  <2>2. rows' = [rows EXCEPT ![r] = row]
    BY <1>2, <1>5
  <2>3. rows' \in Seq(Row) /\ Len(rows') = Len(rows)
    BY <1>3, <1>4, <1>5, <2>2, ExceptSeq
  <2>4. DOMAIN rows' = DOMAIN rows /\ rows'[r] = row
        /\ \A q \in DOMAIN rows \ {r} : rows'[q] = rows[q]
    BY <1>5, <2>2
  <2>5. rows[r].state # "COOLDOWN"
        /\ (crashes = 0 => rows[r].state = stage[s][d])
    BY <1>5, <2>1 DEF RowsFollow, RowActive
  <2>6. r \in 1..MaxRow
    BY <1>2, <1>3, <1>5
  <2> QED BY <1>1, <1>3, <1>5, <2>1, <2>3, <2>4, <2>5, <2>6 DEF Reaches, Types
<1>6. CASE r \notin DOMAIN rows
  <2>1. ActiveRows(s, d) = {} /\ r = Len(rows) + 1
    BY <1>3, <1>6, RowOfIs
  <2>2. rows' = Append(rows, row)
    BY <1>2, <1>6
  <2>3. /\ rows' \in Seq(Row) /\ Len(rows') = r
        /\ DOMAIN rows' = DOMAIN rows \cup {r} /\ rows'[r] = row
        /\ \A q \in DOMAIN rows \ {r} : rows'[q] = rows[q]
    <3>1. rows' \in Seq(Row) /\ Len(rows') = r /\ DOMAIN rows' = 1..r
      BY <1>3, <1>4, <2>1, <2>2, AppendProperties, LenProperties
    <3>2. rows'[r] = row /\ \A q \in 1..Len(rows) : rows'[q] = rows[q]
      BY <1>3, <1>4, <2>1, <2>2, AppendProperties
    <3> QED BY <1>3, <2>1, <3>1, <3>2
  <2>4. r \in 1..MaxRow
    BY <1>2, <1>3, <2>1, BoundAssumption
  <2> QED BY <1>1, <1>2, <1>6, <2>1, <2>3, <2>4 DEF Reaches
<1> QED BY <1>5, <1>6

\* The job a transition adds, and which it adds.
Added(action) ==
  [action |-> action, status |-> "PENDING", retries |-> 0, error |-> "none",
   message |-> 0, deleted |-> FALSE, at |-> Stamp]

Adds(r, state, users, i) ==
  i.row = r /\ i.stage = state /\ i.user \in users /\ ~Exists(i)

\* The transition adds deliveries for these users, numbered after all others.
Issues(r, state, users, action) ==
  /\ users \subseteq User /\ action \in {"SEND", "EDIT"}
  /\ jobs' \in [JobId -> Job]
  /\ \A i \in JobId : ~Adds(r, state, users, i) => jobs'[i] = jobs[i]
  /\ \A i \in JobId : Adds(r, state, users, i) =>
       jobs'[i] = Added(action) /\ \A k \in JobId : jobs[k].at < Stamp
  /\ action = "SEND" => state \in Threads /\ (state = "WATCH" => Existing(r) = {})
  /\ action = "EDIT" => users \subseteq Existing(r)
  /\ state \notin {"NORMAL", "CANDIDATE", "EARLY"} =>
       Existing(r) = {} \/ users = Existing(r)

\* The next number is above every number given so far.
LEMMA StampIsNext ==
  ASSUME Types, Numbered, NEW i \in JobId, jobs[i] = NoJob
  PROVE  /\ Stamp \in Nat
         /\ \A k \in JobId : jobs[k].at < Stamp
         /\ {jobs[k].at : k \in JobId} = 0..(Stamp - 1)
<1> DEFINE ats == {jobs[k].at : k \in JobId}
<1>1. PICK n \in Nat : ats \cup {0} = 0..n
  BY DEF Numbered
<1>2. 0 \in ats
  BY DEF NoJob
<1>3. ats = 0..n
  BY <1>1, <1>2
<1>4. Cardinality(0..n) = n + 1
  BY FS_Interval
<1>5. Stamp = n + 1
  BY <1>3, <1>4 DEF Stamp
<1>6. \A k \in JobId : jobs[k].at \in 0..n
  BY <1>3
<1> QED BY <1>3, <1>5, <1>6

LEMMA TransitionIssues ==
  ASSUME Types, Numbered, JobsFollow,
         NEW s \in Symbol, NEW d \in Direction, Transition(s, d)
  PROVE  \E users \in SUBSET User, action \in {"SEND", "EDIT"} :
           Issues(RowOf(s, d), stage'[s][d], users, action)
<1> DEFINE r == RowOf(s, d)
           state == stage'[s][d]
<1>1. PICK call \in Calls(r, state) : jobs' = Enqueued(r, state, call)
  BY DEF Transition, FanOut
<1> DEFINE users == call.users
           action == call.action
<1>2. /\ users \subseteq User /\ action \in {"SEND", "EDIT"}
      /\ action = "SEND" => state \in Threads /\ (state = "WATCH" => Existing(r) = {})
      /\ action = "EDIT" => users \subseteq Existing(r)
      /\ state \notin {"NORMAL", "CANDIDATE", "EARLY"} =>
           Existing(r) = {} \/ users = Existing(r)
  <2>1. Existing(r) \subseteq User
    BY DEF Existing
  <2>2. CASE state \in {"NORMAL", "CANDIDATE"}
    BY <2>1, <2>2 DEF Calls
  <2>3. CASE state = "EARLY"
    <3>1. call \in [users: IF Shadow THEN {{}} ELSE SUBSET User, action: {"SEND"}]
      BY <2>3 DEF Calls
    <3> QED BY <2>3, <3>1 DEF Threads
  <2>4. CASE state = "WATCH" /\ Existing(r) = {}
    <3>1. call \in [users: SUBSET User, action: {"SEND"}]
      BY <2>4 DEF Calls
    <3> QED BY <2>4, <3>1 DEF Threads
  <2>5. CASE state \notin {"NORMAL", "CANDIDATE", "EARLY"}
             /\ ~(state = "WATCH" /\ Existing(r) = {})
    <3>1. call = [users |-> Existing(r), action |-> "EDIT"]
      BY <2>5 DEF Calls
    <3> QED BY <2>1, <2>5, <3>1
  <2> QED BY <2>2, <2>3, <2>4, <2>5
<1> HIDE DEF users, action
<1>3. ASSUME NEW i \in JobId, Adds(r, state, users, i)
      PROVE  /\ jobs'[i] = Added(action) /\ jobs'[i] \in Job
             /\ \A k \in JobId : jobs[k].at < Stamp
  <2>1. jobs[i] = NoJob
    BY <1>3 DEF Adds, JobsFollow
  <2>2. Stamp \in Nat /\ \A k \in JobId : jobs[k].at < Stamp
    BY <2>1, StampIsNext
  <2>3. jobs'[i] = [NoJob EXCEPT !.action = action, !.status = "PENDING", !.at = Stamp]
    BY <1>1, <1>3 DEF Enqueued, Adds, users, action
  <2>4. jobs'[i] = Added(action)
    BY <2>3 DEF NoJob, Added
  <2> QED BY <1>2, <2>2, <2>4, RetryAssumption DEF Added, Job
<1>4. ASSUME NEW i \in JobId, ~Adds(r, state, users, i)
      PROVE  jobs'[i] = jobs[i] /\ jobs'[i] \in Job
  BY <1>1, <1>4 DEF Enqueued, Adds, users, Types
<1>5. jobs' \in [JobId -> Job]
  <2>1. jobs' = [i \in JobId |-> jobs'[i]]
    BY <1>1 DEF Enqueued
  <2> QED BY <1>3, <1>4, <2>1
<1> QED BY <1>2, <1>3, <1>4, <1>5 DEF Issues

LEMMA Ids ==
  /\ \A i \in JobId : /\ i.row \in 1..MaxRow /\ i.user \in User /\ i.stage \in Announced
                      /\ i.stage \in State
                      /\ i = [row |-> i.row, user |-> i.user, stage |-> i.stage]
  /\ \A i, k \in JobId : Alike(i, k) /\ i.stage = k.stage => i = k
  /\ \A i \in JobId, x \in Announced :
       /\ [i EXCEPT !.stage = x] \in JobId
       /\ Alike(i, [i EXCEPT !.stage = x]) /\ [i EXCEPT !.stage = x].stage = x
<1>1. \A i \in JobId : i = [row |-> i.row, user |-> i.user, stage |-> i.stage]
  BY DEF JobId
<1>2. \A i, k \in JobId : Alike(i, k) /\ i.stage = k.stage => i = k
  BY <1>1 DEF Alike
<1> QED BY <1>1, <1>2 DEF JobId, Announced, Alike

LEMMA Ranks ==
  /\ Rank \in [State -> Nat]
  /\ Rank["NORMAL"] = 0 /\ Rank["CANDIDATE"] = 1
  /\ \A x \in Announced : Rank[x] >= 2
  BY DEF Rank, State, Announced

LEMMA RowTypes ==
  ASSUME Types
  PROVE  /\ DOMAIN rows = 1..Len(rows) /\ Len(rows) \in Nat /\ Len(rows) <= MaxRow
         /\ \A q \in DOMAIN rows : rows[q] \in Row /\ rows[q].state \in State
<1>1. rows \in Seq(Row) /\ DOMAIN rows = 1..Len(rows) /\ Len(rows) \in Nat
  BY LenProperties DEF Types
<1>2. \A q \in DOMAIN rows : rows[q] \in Row
  BY <1>1, ElementOfSeq
<1> QED BY <1>1, <1>2 DEF Types, Row

\* A transition of row r: it reaches the stage and its deliveries are added.
Announces(s, d, r, state, users, action) ==
  /\ Reaches(s, d, r, state) /\ Issues(r, state, users, action)
  /\ UNCHANGED <<worker, chat, faults, crashes, cleanups>>

LEMMA TransitionAnnounces ==
  ASSUME IInv, NEW s \in Symbol, NEW d \in Direction, Transition(s, d)
  PROVE  \E users \in SUBSET User, action \in {"SEND", "EDIT"} :
           Announces(s, d, RowOf(s, d), stage'[s][d], users, action)
<1>1. Reaches(s, d, RowOf(s, d), stage'[s][d])
  BY RowReaches DEF IInv
<1>2. PICK users \in SUBSET User, action \in {"SEND", "EDIT"} :
        Issues(RowOf(s, d), stage'[s][d], users, action)
  BY TransitionIssues DEF IInv, Queue
<1>3. UNCHANGED <<worker, chat, faults, crashes, cleanups>>
  BY DEF Transition, FanOut
<1> QED BY <1>1, <1>2, <1>3 DEF Announces

\* What was there stays as it is, and nothing of the new stage was there.
LEMMA Steady ==
  ASSUME IInv, NEW s, NEW d, NEW r, NEW state, NEW users, NEW action,
         Announces(s, d, r, state, users, action)
  PROVE  /\ \A i \in JobId : Exists(i) => jobs'[i] = jobs[i] /\ i.row \in DOMAIN rows
         /\ \A i \in JobId : Exists(i)' => Exists(i) \/ Adds(r, state, users, i)
         /\ \A i \in JobId : jobs'[i].status \notin {"NONE", "PENDING"} => Exists(i)
         /\ \A i \in JobId : Exists(i) /\ i.row = r =>
              /\ r \in DOMAIN rows /\ rows[r].active
              /\ i.stage # "COOLDOWN"
              /\ crashes = 0 => Rank[i.stage] < Rank[state]
         /\ \A k \in JobId : k.row = r /\ Lasting(k)' => ~Exists(k)
         /\ \A q, u : Sent(q, u)' = Sent(q, u)
         /\ \A k \in JobId : First(k)' = First(k)
<1> USE DEF Announces
<1>1. \A i \in JobId : Exists(i) => jobs'[i] = jobs[i] /\ i.row \in DOMAIN rows
  BY DEF Issues, Adds, IInv, JobsFollow
<1>2. \A i \in JobId : ~Adds(r, state, users, i) => jobs'[i] = jobs[i]
  BY DEF Issues
<1>3. \A i \in JobId : Adds(r, state, users, i) =>
        ~Exists(i) /\ jobs'[i].status = "PENDING" /\ jobs[i].status = "NONE"
  BY DEF Issues, Added, Adds, Exists
<1>4. \A i \in JobId : Exists(i)' => Exists(i) \/ Adds(r, state, users, i)
  BY <1>2 DEF Exists
<1>5. \A i \in JobId : jobs'[i].status \notin {"NONE", "PENDING"} => Exists(i)
  BY <1>2, <1>3 DEF Exists
<1>6. ASSUME NEW i \in JobId, Exists(i), i.row = r
      PROVE  /\ r \in DOMAIN rows /\ rows[r].active
             /\ i.stage # "COOLDOWN"
             /\ crashes = 0 => Rank[i.stage] < Rank[state]
  <2>1. r \in DOMAIN rows /\ rows[r].active
    BY <1>1, <1>6 DEF Reaches
  <2>2. rows[r].state # "COOLDOWN" /\ rows[r].state \in State
    BY <2>1, RowTypes DEF IInv, RowsFollow, RowActive
  <2>3. /\ i.stage = "COOLDOWN" => rows[r].state = "COOLDOWN"
        /\ crashes = 0 => Rank[i.stage] <= Rank[rows[r].state]
    BY <1>6 DEF IInv, JobsFollow
  <2>4. crashes = 0 => Rank[state] > Rank[rows[r].state]
    BY <2>1 DEF Reaches
  <2>5. Rank[i.stage] \in Nat /\ Rank[rows[r].state] \in Nat /\ Rank[state] \in Nat
    BY <2>2, Ids, Ranks DEF Reaches
  <2> QED BY <2>1, <2>2, <2>3, <2>4, <2>5
<1>7. ASSUME NEW k \in JobId, k.row = r, Lasting(k)', Exists(k)
      PROVE  FALSE
  <2>1. k.stage = state /\ (crashes = 0 \/ k.stage = "COOLDOWN")
    BY <1>7 DEF Lasting, Reaches
  <2>2. Rank[state] \in Nat
    BY Ranks DEF Reaches
  <2> QED BY <1>6, <1>7, <2>1, <2>2
<1>8. \A i \in JobId : jobs'[i].status = "SENT" <=> jobs[i].status = "SENT"
  BY <1>2, <1>3
<1>9. \A q, u : Sent(q, u)' = Sent(q, u)
  BY <1>8 DEF Sent
<1>10. ASSUME NEW k \in JobId
       PROVE  First(k)' = First(k)
  <2>1. \A n \in Sent(k.row, k.user) : n \in JobId /\ jobs'[n] = jobs[n]
    BY <1>1 DEF Sent, Exists
  <2>2. CASE k \notin Sent(k.row, k.user)
    BY <1>9, <2>2 DEF First
  <2>3. CASE k \in Sent(k.row, k.user)
    BY <1>9, <2>1, <2>3 DEF First
  <2> QED BY <2>2, <2>3
<1> HIDE DEF Announces
<1> QED BY <1>1, <1>4, <1>5, <1>6, <1>7, <1>9, <1>10

LEMMA RowsKept ==
  ASSUME IInv, NEW s \in Symbol, NEW d \in Direction, NEW r, NEW state,
         NEW users, NEW action, Announces(s, d, r, state, users, action)
  PROVE  RowsFollow'
<1>1. /\ DOMAIN rows' = DOMAIN rows \cup {r}
      /\ rows'[r] = [symbol |-> s, direction |-> d, state |-> state,
                     active |-> RowActive(state)]
      /\ \A q \in DOMAIN rows \ {r} : rows'[q] = rows[q]
      /\ stage'[s][d] = state
      /\ \A q \in Symbol, e \in Direction :
           <<q, e>> # <<s, d>> => stage'[q][e] = stage[q][e]
      /\ crashes' = crashes
  BY DEF Announces, Reaches
<1>2. \A q \in DOMAIN rows : rows[q].symbol \in Symbol /\ rows[q].direction \in Direction
  BY RowTypes DEF IInv, Row
\* No other row was active for the signal.
<1>3. \A q \in ActiveRows(s, d) : q = r
  <2>1. CASE r \notin DOMAIN rows
    BY <2>1 DEF Announces, Reaches
  <2>2. CASE r \in DOMAIN rows
    BY <2>2 DEF Announces, Reaches, IInv, RowsFollow, ActiveRows
  <2> QED BY <2>1, <2>2
<1>4. ASSUME NEW q \in DOMAIN rows'
      PROVE  /\ rows'[q].active = RowActive(rows'[q].state)
             /\ rows'[q].active =>
                  \A p \in DOMAIN rows' :
                    /\ rows'[p].active
                    /\ rows'[p].symbol = rows'[q].symbol
                    /\ rows'[p].direction = rows'[q].direction
                    => p = q
             /\ rows'[q].active /\ crashes' = 0 =>
                  rows'[q].state = stage'[rows'[q].symbol][rows'[q].direction]
  <2>1. CASE q = r
    <3>1. \A p \in DOMAIN rows' :
            rows'[p].active /\ rows'[p].symbol = s /\ rows'[p].direction = d => p = r
      BY <1>1, <1>3 DEF ActiveRows
    <3> QED BY <1>1, <2>1, <3>1
  <2>2. CASE q # r
    <3>1. q \in DOMAIN rows /\ rows'[q] = rows[q]
      BY <1>1, <2>2
    <3>2. rows[q].active => ~(rows[q].symbol = s /\ rows[q].direction = d)
      BY <1>3, <2>2, <3>1 DEF ActiveRows
    <3> QED BY <1>1, <1>2, <3>1, <3>2 DEF IInv, RowsFollow
  <2> QED BY <2>1, <2>2
<1> QED BY <1>4 DEF RowsFollow

LEMMA JobsKept ==
  ASSUME IInv, NEW s \in Symbol, NEW d \in Direction, NEW r, NEW state,
         NEW users, NEW action, Announces(s, d, r, state, users, action)
  PROVE  JobsFollow'
<1>1. /\ DOMAIN rows' = DOMAIN rows \cup {r} /\ rows'[r].state = state
      /\ \A q \in DOMAIN rows \ {r} : rows'[q] = rows[q]
      /\ crashes' = crashes /\ state \in State
  BY DEF Announces, Reaches
<1>2. /\ \A i \in JobId : ~Adds(r, state, users, i) => jobs'[i] = jobs[i]
      /\ \A i \in JobId : Adds(r, state, users, i) =>
           Exists(i)' /\ jobs'[i].action = action /\ state \in Announced
  BY Ids DEF Announces, Issues, Added, Adds, Exists
<1>3. \A i \in JobId : Exists(i) => Exists(i)' /\ jobs'[i] = jobs[i]
  BY Steady DEF Exists
<1>4. \A i \in JobId : i.row = r /\ i.user \in users /\ i.stage = state => Exists(i)'
  BY <1>2, <1>3 DEF Adds
<1>5. ASSUME NEW i \in JobId
      PROVE  IF ~Exists(i)' THEN jobs'[i] = NoJob
             ELSE /\ i.row \in DOMAIN rows'
                  /\ i.stage = "COOLDOWN" => rows'[i.row].state = "COOLDOWN"
                  /\ jobs'[i].action = "SEND" => i.stage \in Threads
                  /\ crashes' = 0 =>
                       /\ Rank[i.stage] <= Rank[rows'[i.row].state]
                       /\ Last(i)' \in JobId /\ Exists(Last(i))'
                       /\ \E k \in JobId : Alike(i, k) /\ k.stage \in Threads /\ Exists(k)'
  <2>1. CASE Adds(r, state, users, i)
    <3>1. i.row = r /\ i.stage = state /\ Exists(i)' /\ jobs'[i].action = action
      BY <1>2, <2>1 DEF Adds
    <3>2. Last(i)' = i
      BY <1>1, <3>1, Ids DEF Last
    <3>3. Rank[i.stage] <= Rank[state]
      BY <1>1, <3>1, Ranks
    <3>4. action = "SEND" => i.stage \in Threads
      BY <3>1 DEF Announces, Issues
    <3>5. \E k \in JobId : Alike(i, k) /\ k.stage \in Threads /\ Exists(k)'
      <4>1. CASE action = "SEND"
        BY <3>1, <3>4, <4>1 DEF Alike
      <4>2. CASE action = "EDIT"
        <5>1. i.user \in Existing(r)
          BY <2>1, <4>2 DEF Announces, Issues, Adds
        <5>2. PICK st \in Threads : Exists([row |-> r, user |-> i.user, stage |-> st])
          BY <5>1 DEF Existing
        <5>3. [row |-> r, user |-> i.user, stage |-> st] = [i EXCEPT !.stage = st]
              /\ st \in Announced
          BY <3>1, Ids DEF Threads, Announced, State
        <5> QED BY <1>3, <5>2, <5>3, Ids
      <4> QED BY <4>1, <4>2 DEF Announces, Issues
    <3> QED BY <1>1, <3>1, <3>2, <3>3, <3>4, <3>5
  <2>2. CASE ~Adds(r, state, users, i) /\ ~Exists(i)
    BY <1>2, <2>2 DEF IInv, JobsFollow, Exists, NoJob
  <2>3. CASE Exists(i) /\ i.row # r
    <3>1. Exists(i)' /\ jobs'[i] = jobs[i] /\ i.row \in DOMAIN rows
          /\ rows'[i.row] = rows[i.row]
      BY <1>1, <1>3, <2>3, Steady
    <3>2. Last(i)' = Last(i)
      BY <3>1 DEF Last
    <3> QED BY <1>1, <1>3, <2>3, <3>1, <3>2 DEF IInv, JobsFollow
  <2>4. CASE Exists(i) /\ i.row = r
    <3>1. Exists(i)' /\ jobs'[i] = jobs[i] /\ i.row \in DOMAIN rows
      BY <1>3, <2>4, Steady
    <3>2. i.stage # "COOLDOWN" /\ (jobs[i].action = "SEND" => i.stage \in Threads)
      BY <2>4, Steady DEF IInv, JobsFollow
    <3>3. ASSUME crashes = 0
          PROVE  /\ Rank[i.stage] <= Rank[state]
                 /\ Last(i)' \in JobId /\ Exists(Last(i))'
                 /\ \E k \in JobId : Alike(i, k) /\ k.stage \in Threads /\ Exists(k)'
      <4>1. Rank[i.stage] < Rank[state] /\ i.stage \in Announced /\ i.stage \in State
        BY <2>4, <3>3, Steady, Ids
      <4>2. PICK k \in JobId : Alike(i, k) /\ k.stage \in Threads /\ Exists(k)
        BY <2>4, <3>3 DEF IInv, JobsFollow
      <4>3. state \notin {"NORMAL", "CANDIDATE"}
        BY <1>1, <4>1, Ranks
      <4>4. state # "EARLY"
        <5>1. SUFFICES ASSUME state = "EARLY" PROVE FALSE
          OBVIOUS
        <5>2. rows[r].state = "CANDIDATE"
          BY <2>4, <3>1, <3>3, <5>1 DEF Announces, Reaches
        <5>3. Rank[i.stage] <= Rank[rows[r].state]
          BY <2>4, <3>3 DEF IInv, JobsFollow
        <5> QED BY <4>1, <5>2, <5>3, Ranks
      <4>5. i.user \in Existing(r)
        <5>1. k = [row |-> r, user |-> i.user, stage |-> k.stage] /\ i.user \in User
          BY <2>4, <4>2, Ids DEF Alike
        <5> QED BY <4>2, <5>1 DEF Existing
      <4>6. users = Existing(r)
        BY <4>3, <4>4, <4>5 DEF Announces, Issues
      <4>7. Last(i)' = [i EXCEPT !.stage = state] /\ state \in Announced
        BY <1>1, <2>4, <4>3 DEF Last, Announced
      <4>8. Last(i)' \in JobId /\ Exists(Last(i))'
        <5>1. [i EXCEPT !.stage = state] \in JobId
              /\ [i EXCEPT !.stage = state].row = r
              /\ [i EXCEPT !.stage = state].user = i.user
              /\ [i EXCEPT !.stage = state].stage = state
          BY <2>4, <4>7, Ids DEF Alike
        <5> QED BY <1>4, <4>5, <4>6, <4>7, <5>1 DEF Exists
      <4>9. Rank[i.stage] <= Rank[state]
        BY <1>1, <4>1, Ranks
      <4> QED BY <1>3, <4>2, <4>8, <4>9
    <3> QED BY <1>1, <2>4, <3>1, <3>2, <3>3
  <2> QED BY <2>1, <2>2, <2>3, <2>4
<1> QED BY <1>5 DEF JobsFollow

LEMMA QueueKept ==
  ASSUME IInv, NEW s \in Symbol, NEW d \in Direction, NEW r, NEW state,
         NEW users, NEW action, Announces(s, d, r, state, users, action)
  PROVE  Queue'
<1>1. /\ DOMAIN rows' = DOMAIN rows \cup {r} /\ rows'[r].state = state
      /\ \A q \in DOMAIN rows \ {r} : rows'[q] = rows[q]
      /\ crashes' = crashes /\ worker' = worker /\ state \in State
  BY DEF Announces, Reaches
<1>2. /\ \A i \in JobId : ~Adds(r, state, users, i) => jobs'[i] = jobs[i]
      /\ \A i \in JobId : Adds(r, state, users, i) => jobs'[i] = Added(action)
  BY DEF Announces, Issues
<1>3. /\ \A i \in JobId : Exists(i) => Exists(i)' /\ jobs'[i] = jobs[i]
      /\ \A i \in JobId : Exists(i)' => Exists(i) \/ Adds(r, state, users, i)
      /\ \A i \in JobId : jobs'[i].status \notin {"NONE", "PENDING"} => Exists(i)
  BY Steady DEF Exists
<1>4. \A i \in JobId : jobs[i].at \in Nat
  BY DEF IInv, Types, Job
<1>5. \A i \in JobId : Adds(r, state, users, i) =>
        /\ jobs'[i].at = Stamp /\ Stamp \in Nat
        /\ \A k \in JobId : jobs[k].at < Stamp
  BY <1>2, StampIsNext DEF Added, Adds, IInv, Queue, JobsFollow
<1>6. Numbered'
  <2>1. CASE \A i \in JobId : ~Adds(r, state, users, i)
    BY <1>2, <2>1 DEF IInv, Queue, Numbered
  <2>2. CASE \E i \in JobId : Adds(r, state, users, i)
    <3>1. PICK i \in JobId : Adds(r, state, users, i)
      BY <2>2
    <3>2. Stamp \in Nat /\ {jobs[k].at : k \in JobId} = 0..(Stamp - 1)
      BY <3>1, StampIsNext DEF Adds, IInv, Queue, JobsFollow
    <3>3. jobs'[i].at = Stamp
      BY <1>5, <3>1
    <3>4. \A k \in JobId : jobs'[k].at \in 0..Stamp
      BY <1>2, <1>5, <3>2
    <3>5. ASSUME NEW n \in 0..(Stamp - 1)
          PROVE  n \in {jobs'[k].at : k \in JobId} \cup {0}
      <4>1. PICK k \in JobId : jobs[k].at = n
        BY <3>2, <3>5
      <4>2. CASE Adds(r, state, users, k)
        <5>1. jobs[k] = NoJob
          BY <4>2 DEF Adds, IInv, JobsFollow
        <5> QED BY <4>1, <5>1 DEF NoJob
      <4>3. CASE ~Adds(r, state, users, k)
        BY <1>2, <4>1, <4>3
      <4> QED BY <4>2, <4>3
    <3>6. {jobs'[k].at : k \in JobId} \cup {0} = 0..Stamp
      <4>1. \A n \in 0..Stamp : n = Stamp \/ n \in 0..(Stamp - 1)
        BY <3>2
      <4> QED BY <3>2, <3>3, <3>4, <3>5, <4>1
    <3> QED BY <3>2, <3>6 DEF Numbered
  <2> QED BY <2>1, <2>2
<1>7. Busy'
  BY <1>1, <1>3 DEF Busy, IInv, Queue, Types, Workers, Exists
<1>8. InQueue'
  <2>1. SUFFICES ASSUME NEW i \in JobId, NEW k \in JobId, Exists(i)', Exists(k)',
                        jobs'[i].at < jobs'[k].at, jobs'[k].status # "PENDING"
                 PROVE  Over(i)'
    BY DEF InQueue
  <2>2. Exists(k) /\ jobs'[k] = jobs[k]
    BY <1>3, <2>1 DEF Exists
  <2>3. Exists(i) /\ jobs'[i] = jobs[i]
    BY <1>3, <1>4, <1>5, <2>1, <2>2
  <2>4. Over(i)
    BY <2>1, <2>2, <2>3 DEF IInv, Queue, InQueue
  <2> QED BY <1>1, <2>3, <2>4 DEF Over, Handled
<1>9. Distinct'
  <2>1. SUFFICES ASSUME NEW i \in JobId, NEW k \in JobId, Exists(i)', Exists(k)',
                        Alike(i, k), jobs'[i].at = jobs'[k].at
                 PROVE  i = k
    BY DEF Distinct
  <2>2. CASE Exists(i) /\ Exists(k)
    BY <1>3, <2>1, <2>2 DEF IInv, Queue, Distinct
  <2>3. CASE Adds(r, state, users, i) /\ Adds(r, state, users, k)
    BY <2>1, <2>3, Ids DEF Adds
  <2>4. CASE Exists(i) /\ Adds(r, state, users, k)
    BY <1>3, <1>4, <1>5, <2>1, <2>4
  <2>5. CASE Adds(r, state, users, i) /\ Exists(k)
    BY <1>3, <1>4, <1>5, <2>1, <2>5
  <2> QED BY <1>3, <2>1, <2>2, <2>3, <2>4, <2>5
<1>10. SendsFirst'
  <2>1. SUFFICES ASSUME crashes = 0,
                        NEW i \in JobId, NEW k \in JobId, Exists(i)', Exists(k)',
                        Alike(i, k), jobs'[i].action = "SEND", k.stage \in Threads
                 PROVE  jobs'[i].at <= jobs'[k].at
    BY <1>1 DEF SendsFirst
  <2>2. CASE Exists(i) /\ Exists(k)
    BY <1>3, <2>1, <2>2 DEF IInv, Queue, SendsFirst
  <2>3. CASE Adds(r, state, users, i) /\ Adds(r, state, users, k)
    BY <1>5, <2>3
  <2>4. CASE Exists(i) /\ Adds(r, state, users, k)
    BY <1>3, <1>4, <1>5, <2>4
  <2>5. CASE Adds(r, state, users, i) /\ Exists(k)
    <3>1. action = "SEND"
      BY <1>2, <2>1, <2>5 DEF Added
    <3>2. state \in Threads /\ (state = "WATCH" => Existing(r) = {})
      BY <3>1 DEF Announces, Issues
    <3>3. k.row = r
      BY <2>1, <2>5 DEF Adds, Alike
    <3>4. Existing(r) # {}
      <4>1. k = [row |-> r, user |-> k.user, stage |-> k.stage] /\ k.user \in User
        BY <3>3, Ids
      <4> QED BY <2>1, <2>5, <4>1 DEF Existing
    <3>5. state = "EARLY"
      BY <3>2, <3>4 DEF Threads
    <3>6. r \in DOMAIN rows /\ Rank[k.stage] <= Rank[rows[r].state]
      BY <2>1, <2>5, <3>3, Steady DEF IInv, JobsFollow
    <3>7. rows[r].state = "CANDIDATE"
      BY <2>1, <3>5, <3>6 DEF Announces, Reaches
    <3> QED BY <3>6, <3>7, Ranks, Ids
  <2> QED BY <1>3, <2>1, <2>2, <2>3, <2>4, <2>5
<1>11. LastWord'
  <2>1. SUFFICES ASSUME NEW i \in JobId, NEW k \in JobId, Exists(i)', Exists(k)',
                        Alike(i, k), Lasting(k)'
                 PROVE  jobs'[i].at <= jobs'[k].at
    BY DEF LastWord
  <2>2. CASE k.row = r
    <3>1. Adds(r, state, users, k)
      BY <1>3, <2>1, <2>2, Steady
    <3> QED BY <1>3, <1>4, <1>5, <2>1, <3>1
  <2>3. CASE k.row # r
    <3>1. Exists(i) /\ Exists(k) /\ jobs'[i] = jobs[i] /\ jobs'[k] = jobs[k]
      BY <1>3, <2>1, <2>3 DEF Adds, Alike
    <3>2. rows'[k.row] = rows[k.row]
      BY <1>1, <2>3, <3>1, Steady
    <3> QED BY <1>1, <2>1, <3>1, <3>2 DEF IInv, Queue, LastWord, Lasting
  <2> QED BY <2>2, <2>3
<1>12. Accounts'
  <2>1. SUFFICES ASSUME NEW i \in JobId
                 PROVE  /\ Unfinished(i)' => jobs'[i].retries <= MaxRetry
                        /\ jobs'[i].status = "FAILED" =>
                             /\ jobs'[i].error # "none"
                             /\ jobs'[i].error = "unchanged" => Sent(i.row, i.user)' # {}
    BY DEF Accounts
  <2>2. CASE Adds(r, state, users, i)
    BY <1>2, <2>2, RetryAssumption DEF Added
  <2>3. CASE ~Adds(r, state, users, i)
    BY <1>2, <2>3, Steady DEF IInv, Queue, Accounts, Unfinished
  <2> QED BY <2>2, <2>3
<1> QED BY <1>6, <1>7, <1>8, <1>9, <1>10, <1>11, <1>12 DEF Queue

LEMMA ChatsKept ==
  ASSUME IInv, NEW s \in Symbol, NEW d \in Direction, NEW r, NEW state,
         NEW users, NEW action, Announces(s, d, r, state, users, action)
  PROVE  Delivered' /\ Knows' /\ Told'
<1>1. /\ DOMAIN rows' = DOMAIN rows \cup {r} /\ rows'[r].state = state
      /\ \A q \in DOMAIN rows \ {r} : rows'[q] = rows[q]
      /\ crashes' = crashes /\ worker' = worker /\ chat' = chat
  BY DEF Announces, Reaches
<1>2. /\ \A i \in JobId : Exists(i) => jobs'[i] = jobs[i] /\ i.row \in DOMAIN rows
      /\ \A i \in JobId : jobs'[i].status \notin {"NONE", "PENDING"} => Exists(i)
      /\ \A i \in JobId : Exists(i)' => Exists(i) \/ Adds(r, state, users, i)
      /\ \A i \in JobId : Adds(r, state, users, i) => jobs'[i].status = "PENDING"
  <2>1. \A i \in JobId : Adds(r, state, users, i) => jobs'[i].status = "PENDING"
    BY DEF Announces, Issues, Added
  <2> QED BY <2>1, Steady
<1>3. ASSUME NEW i \in JobId, Exists(i), NEW text, Current(i, text)
      PROVE  Current(i, text)'
  <2>1. CASE i.row = r
    <3>1. ASSUME NEW k \in JobId, Alike(i, k), Lasting(k)'
          PROVE  jobs'[k].status \in {"NONE", "PENDING"}
      <4>1. ~Exists(k)
        BY <2>1, <3>1, Steady DEF Alike
      <4> QED BY <1>2, <4>1
    <3> QED BY <3>1 DEF Current, Coming
  <2>2. CASE i.row # r
    <3>1. rows'[i.row] = rows[i.row]
      BY <1>1, <1>2, <1>3, <2>2
    <3>2. \A k \in JobId : Alike(i, k) => jobs'[k] = jobs[k]
      BY <2>2 DEF Alike, Announces, Issues, Adds
    <3>3. \A k \in JobId : Alike(i, k) => Lasting(k)' = Lasting(k)
      BY <1>1, <3>1 DEF Alike, Lasting
    <3> QED BY <1>3, <3>1, <3>2, <3>3 DEF Current, Coming
  <2> QED BY <2>1, <2>2
<1>4. ASSUME NEW i \in JobId, Exists(i)
      PROVE  Starts(i)' = Starts(i) /\ \A m : Edits(i, m) => Edits(i, m)'
  <2>1. Starts(i)' = Starts(i)
    BY <1>2, <1>4, Steady DEF Starts
  <2>2. \A k \in JobId : First(k) => First(k)' /\ jobs'[k] = jobs[k]
    BY <1>2, Steady DEF First, Sent, Exists
  <2> QED BY <1>2, <1>4, <2>1, <2>2 DEF Edits
<1>5. Delivered'
  <2>1. \A i \in JobId :
          jobs'[i].status = "SENT" => jobs[i].status = "SENT" /\ jobs'[i] = jobs[i]
    BY <1>2
  <2> QED BY <1>1, <2>1 DEF IInv, Delivered, Placed
<1>6. Knows'
  <2>1. CASE worker.phase \in {"idle", "claimed"}
    BY <1>1, <2>1 DEF Knows
  <2>2. CASE worker.phase \in {"prepared", "answered"}
    <3>1. worker.job \in JobId /\ Exists(worker.job)
      BY <2>2 DEF IInv, Types, Workers, Queue, Busy, Exists
    <3> QED BY <1>1, <1>3, <1>4, <2>2, <3>1 DEF IInv, Knows, Placed
  <2> QED BY <2>1, <2>2 DEF IInv, Types, Workers
<1>7. Told'
  <2>1. SUFFICES ASSUME NEW i \in JobId, NEW k \in JobId, Alike(i, k), Fulfilled(i)',
                        Lasting(i)', First(k)'
                 PROVE  chat'[k.user][jobs'[k].message].text = rows'[i.row].state
    BY DEF Told
  <2>2. Exists(i) /\ jobs'[i] = jobs[i] /\ i.row # r
    BY <1>2, <2>1, Steady DEF Fulfilled
  <2>3. First(k) /\ jobs'[k] = jobs[k]
    BY <1>2, <2>1, Steady DEF First, Sent, Exists
  <2>4. rows'[i.row] = rows[i.row]
    BY <1>1, <1>2, <2>2
  <2> QED BY <1>1, <2>1, <2>2, <2>3, <2>4 DEF IInv, Told, Fulfilled, Lasting
<1> QED BY <1>5, <1>6, <1>7

LEMMA TransitionKeeps ==
  ASSUME IInv, NEW s \in Symbol, NEW d \in Direction, Transition(s, d)
  PROVE  IInv'
<1> DEFINE r == RowOf(s, d)
           state == stage'[s][d]
<1>1. PICK users \in SUBSET User, action \in {"SEND", "EDIT"} :
        Announces(s, d, r, state, users, action)
  BY TransitionAnnounces
<1> HIDE DEF r, state
<1>2. Types'
  BY <1>1 DEF IInv, Types, Announces, Reaches, Issues
<1> QED BY <1>1, <1>2, RowsKept, JobsKept, QueueKept, ChatsKept DEF IInv

-----------------------------------------------------------------------------
(* The worker and the cleanup: deliveries keep their place.                *)

\* Rows stay, and deliveries keep their number, action and existence.
Keeping ==
  /\ UNCHANGED <<stage, rows, crashes>>
  /\ \A i \in JobId :
       /\ jobs'[i].at = jobs[i].at /\ jobs'[i].action = jobs[i].action
       /\ jobs[i].status = "NONE" => jobs'[i] = jobs[i]
       /\ jobs[i].status # "NONE" => jobs'[i].status # "NONE"

LEMMA KeepingKeeps ==
  ASSUME IInv, Keeping
  PROVE  /\ RowsFollow' /\ JobsFollow'
         /\ Numbered' /\ Distinct' /\ SendsFirst' /\ LastWord'
         /\ \A i \in JobId : Exists(i)' = Exists(i)
         /\ \A i \in JobId : Lasting(i)' = Lasting(i)
<1>1. /\ stage' = stage /\ rows' = rows /\ crashes' = crashes
      /\ \A i \in JobId : jobs'[i].at = jobs[i].at /\ jobs'[i].action = jobs[i].action
      /\ \A i \in JobId : Exists(i)' = Exists(i)
      /\ \A i \in JobId : ~Exists(i) => jobs'[i] = jobs[i]
  BY DEF Keeping, Exists
<1>2. RowsFollow'
  BY <1>1 DEF IInv, RowsFollow
<1>3. \A i \in JobId : Last(i)' = Last(i)
  BY <1>1 DEF Last
<1>4. JobsFollow'
  <2>1. \A i \in JobId : Last(i) \in JobId => Exists(Last(i))' = Exists(Last(i))
    BY <1>1, <1>3 DEF Exists
  <2> QED BY <1>1, <1>3, <2>1 DEF IInv, JobsFollow
<1>5. Numbered'
  <2>1. {jobs'[i].at : i \in JobId} = {jobs[i].at : i \in JobId}
    BY <1>1
  <2> QED BY <2>1 DEF IInv, Queue, Numbered
<1>6. Distinct'
  BY <1>1 DEF IInv, Queue, Distinct
<1>7. SendsFirst'
  BY <1>1 DEF IInv, Queue, SendsFirst
<1>8. \A i \in JobId : Lasting(i)' = Lasting(i)
  BY <1>1 DEF Lasting
<1>9. LastWord'
  BY <1>1, <1>8 DEF IInv, Queue, LastWord
<1> QED BY <1>1, <1>2, <1>4, <1>5, <1>6, <1>7, <1>8, <1>9

\* When something was sent in a thread, there is one first delivery of it.
LEMMA FirstExists ==
  ASSUME IInv, NEW r, NEW u, Sent(r, u) # {}
  PROVE  \E k \in Sent(r, u) : First(k) /\ \A n \in Sent(r, u) : jobs[k].at <= jobs[n].at
<1>1. PICK a \in Sent(r, u) : TRUE
  OBVIOUS
<1>2. \A n \in Sent(r, u) : /\ n \in JobId /\ n.row = r /\ n.user = u
                            /\ n.stage \in Threads /\ jobs[n].at \in Nat
  BY DEF Sent, IInv, Types, Job
<1>3. \A m, n \in Sent(r, u) : m.stage = n.stage => m = n
  BY <1>2, Ids DEF Alike
<1>4. \E k \in Sent(r, u) : \A n \in Sent(r, u) : jobs[k].at <= jobs[n].at
  <2>1. CASE \A n \in Sent(r, u) : jobs[a].at <= jobs[n].at
    BY <1>1, <2>1
  <2>2. CASE \E n \in Sent(r, u) : ~(jobs[a].at <= jobs[n].at)
    <3>1. PICK b \in Sent(r, u) : ~(jobs[a].at <= jobs[b].at)
      BY <2>2
    <3>2. jobs[b].at < jobs[a].at /\ b.stage # a.stage
      BY <1>1, <1>2, <1>3, <3>1
    <3>3. \A n \in Sent(r, u) : n = a \/ n = b
      BY <1>1, <1>2, <1>3, <3>1, <3>2 DEF Threads
    <3>4. \A n \in Sent(r, u) : jobs[b].at <= jobs[n].at
      BY <1>1, <1>2, <3>1, <3>2, <3>3
    <3> QED BY <3>1, <3>4
  <2> QED BY <2>1, <2>2
<1> QED BY <1>2, <1>4 DEF First

LEMMA FirstUnique ==
  ASSUME IInv, NEW k \in JobId, NEW n \in JobId, Alike(k, n), First(k), First(n)
  PROVE  k = n
<1>1. /\ k \in Sent(k.row, k.user) /\ n \in Sent(k.row, k.user)
      /\ jobs[k].at <= jobs[n].at /\ jobs[n].at <= jobs[k].at
  BY DEF Alike, First
<1>2. jobs[k].at = jobs[n].at /\ Exists(k) /\ Exists(n)
  BY <1>1 DEF Sent, Exists, IInv, Types, Job
<1> QED BY <1>2 DEF IInv, Queue, Distinct

LEMMA ClaimKeeps ==
  ASSUME IInv, NEW i \in JobId, Claim(i)
  PROVE  IInv'
<1>1. /\ worker.phase = "idle" /\ jobs[i].status = "PENDING"
      /\ worker' = [phase |-> "claimed", job |-> i]
      /\ jobs' = [jobs EXCEPT ![i].status = "PROCESSING"]
      /\ stage' = stage /\ rows' = rows /\ chat' = chat
      /\ faults' = faults /\ crashes' = crashes /\ cleanups' = cleanups
      /\ \A k \in JobId : jobs[k].status = "PENDING" => jobs[i].at <= jobs[k].at
  BY DEF Claim, Oldest, Waiting
<1>2. jobs \in [JobId -> Job]
  BY DEF IInv, Types
<1>3. /\ jobs'[i] = [jobs[i] EXCEPT !.status = "PROCESSING"]
      /\ \A k \in JobId : k # i => jobs'[k] = jobs[k]
  BY <1>1, <1>2
<1>4. /\ jobs'[i] \in Job /\ jobs'[i].status = "PROCESSING"
      /\ jobs'[i].at = jobs[i].at /\ jobs'[i].action = jobs[i].action
      /\ jobs'[i].retries = jobs[i].retries
  BY <1>2, <1>3 DEF Job
<1>5. Keeping
  BY <1>1, <1>3, <1>4 DEF Keeping
<1>6. Types'
  BY <1>1, <1>2, <1>4 DEF IInv, Types, TypeOK, Workers
<1>7. Busy'
  BY <1>1, <1>4 DEF Busy
<1>8. InQueue'
  <2>1. SUFFICES ASSUME NEW a \in JobId, NEW b \in JobId, Exists(a), Exists(b),
                        jobs[a].at < jobs[b].at, jobs'[b].status # "PENDING"
                 PROVE  Over(a)'
    BY <1>5, KeepingKeeps DEF InQueue, Keeping
  <2>2. CASE b = i
    <3>1. jobs[a].status # "PENDING" /\ a # i
      BY <1>1, <1>2, <2>1, <2>2 DEF Job
    <3> QED BY <1>1, <1>3, <3>1 DEF Over, Handled
  <2>3. CASE b # i
    <3>1. Over(a)
      BY <1>3, <2>1, <2>3 DEF IInv, Queue, InQueue
    <3>2. a # i
      BY <1>1, <3>1 DEF Over
    <3> QED BY <1>1, <1>3, <3>1, <3>2 DEF Over, Handled
  <2> QED BY <2>2, <2>3
<1>9. \A k \in JobId : /\ jobs'[k].status = "SENT" <=> jobs[k].status = "SENT"
                       /\ jobs'[k].status = "FAILED" <=> jobs[k].status = "FAILED"
                       /\ jobs[k].status \in {"SENT", "FAILED"} => jobs'[k] = jobs[k]
  BY <1>1, <1>3, <1>4
<1>10. \A q, u : Sent(q, u)' = Sent(q, u)
  BY <1>9 DEF Sent
<1>11. Accounts'
  BY <1>1, <1>3, <1>4, <1>9, <1>10 DEF IInv, Queue, Accounts, Unfinished
<1>12. \A k \in JobId : First(k)' => First(k)
  BY <1>9, <1>10 DEF First, Sent
<1>13. Delivered'
  BY <1>1, <1>9 DEF IInv, Delivered, Placed
<1>14. Knows'
  BY <1>1 DEF Knows
<1>15. Told'
  <2>1. \A k \in JobId : First(k) => jobs'[k] = jobs[k]
    BY <1>9 DEF First, Sent
  <2> QED BY <1>1, <1>5, <1>9, <1>12, <2>1, KeepingKeeps DEF IInv, Told, Fulfilled
<1> QED BY <1>5, <1>6, <1>7, <1>8, <1>11, <1>13, <1>14, <1>15, KeepingKeeps DEF IInv, Queue

\* The worker reads and calls: the tables stay as they are.
Calling == UNCHANGED <<stage, rows, jobs, crashes, cleanups>>

LEMMA CallingKeeps ==
  ASSUME IInv, Calling, worker.phase \in {"claimed", "prepared"},
         worker'.phase # "idle", worker'.job = worker.job
  PROVE  /\ RowsFollow' /\ JobsFollow' /\ Queue'
         /\ \A i \in JobId : \A text : Current(i, text)' = Current(i, text)
         /\ \A i \in JobId : /\ Starts(i)' = Starts(i)
                             /\ \A m : Edits(i, m)' = Edits(i, m)
         /\ \A k \in JobId : First(k)' = First(k)
<1>1. /\ stage' = stage /\ rows' = rows /\ crashes' = crashes /\ jobs' = jobs
  BY DEF Calling
<1>2. Keeping
  BY <1>1 DEF Keeping
<1>3. \A i \in JobId : Handled(i)' = Handled(i)
  BY DEF Handled
<1>4. Busy' /\ InQueue' /\ Accounts'
  <2>1. Busy'
    BY <1>1 DEF IInv, Queue, Busy
  <2>2. InQueue'
    BY <1>1, <1>3 DEF IInv, Queue, InQueue, Over, Exists
  <2>3. Accounts'
    BY <1>1 DEF IInv, Queue, Accounts, Unfinished, Sent
  <2> QED BY <2>1, <2>2, <2>3
<1>5. \A i \in JobId : \A text : Current(i, text)' = Current(i, text)
  BY <1>1 DEF Current, Coming, Lasting
<1>6. \A q, u : Sent(q, u)' = Sent(q, u)
  BY <1>1 DEF Sent
<1>7. \A k \in JobId : First(k)' = First(k)
  BY <1>1, <1>6 DEF First
<1>8. \A i \in JobId : Starts(i)' = Starts(i)
  BY <1>1, <1>6 DEF Starts
<1>9. \A i \in JobId : \A m : Edits(i, m)' = Edits(i, m)
  BY <1>1, <1>7 DEF Edits
<1> QED BY <1>2, <1>4, <1>5, <1>7, <1>8, <1>9, KeepingKeeps DEF Queue

\* What the worker's job is while it is in its hands.
LEMMA Hands ==
  ASSUME IInv, worker.phase # "idle"
  PROVE  /\ worker.job \in JobId /\ jobs[worker.job].status = "PROCESSING"
         /\ Exists(worker.job) /\ worker.job.row \in DOMAIN rows
         /\ worker.job.user \in User /\ worker.job.row \in 1..MaxRow
         /\ chat[worker.job.user] \in Seq(Message)
         /\ DOMAIN chat[worker.job.user] = 1..Len(chat[worker.job.user])
         /\ Len(chat[worker.job.user]) \in Nat
<1>1. worker.job \in JobId
  BY DEF IInv, Types, Workers
<1>2. jobs[worker.job].status = "PROCESSING"
  BY DEF IInv, Queue, Busy
<1>3. worker.job.row \in DOMAIN rows /\ Exists(worker.job)
  BY <1>1, <1>2 DEF IInv, JobsFollow, Exists
<1>4. worker.job.user \in User /\ worker.job.row \in 1..MaxRow
  BY <1>1, Ids
<1>5. chat[worker.job.user] \in Seq(Message)
  BY <1>4 DEF IInv, Types
<1> QED BY <1>1, <1>2, <1>3, <1>4, <1>5, LenProperties

LEMMA PrepareKeeps == IInv /\ Prepare => IInv'
<1> SUFFICES ASSUME IInv, Prepare PROVE IInv'
  OBVIOUS
<1>0. PICK i, text, target :
        i = worker.job /\ text = rows[i.row].state /\ target = Target(i)
  OBVIOUS
<1>1. /\ worker.phase = "claimed" /\ worker.job = i
      /\ worker' = [phase |-> "prepared", job |-> i, text |-> text, target |-> target]
      /\ stage' = stage /\ rows' = rows /\ jobs' = jobs /\ chat' = chat
      /\ faults' = faults /\ crashes' = crashes /\ cleanups' = cleanups
  BY <1>0 DEF Prepare
<1>2. i \in JobId /\ Exists(i) /\ i.row \in DOMAIN rows
  BY <1>1, Hands
<1>3. text \in State /\ Current(i, text)
  BY <1>0, <1>2, RowTypes DEF IInv, Current
<1>4. target \in Nat /\ ((target = 0 /\ Starts(i)) \/ Edits(i, target))
  <2>1. CASE jobs[i].action = "SEND" \/ Sent(i.row, i.user) = {}
    BY <1>0, <2>1 DEF Target, Starts
  <2>2. CASE ~(jobs[i].action = "SEND" \/ Sent(i.row, i.user) = {})
    <3> DEFINE sent == Sent(i.row, i.user)
               first == CHOOSE k \in sent : \A n \in sent : jobs[k].at <= jobs[n].at
    <3>1. \E k \in sent : \A n \in sent : jobs[k].at <= jobs[n].at
      BY <2>2, FirstExists
    <3>2. first \in sent /\ \A n \in sent : jobs[first].at <= jobs[n].at
      BY <3>1
    <3>3. target = jobs[first].message
      BY <1>0, <2>2 DEF Target
    <3> HIDE DEF first
    <3>4. first \in JobId /\ Alike(i, first) /\ First(first)
      BY <3>2 DEF Sent, Alike, First
    <3>5. jobs[i].action = "EDIT" /\ jobs[first].message \in Nat
      BY <1>2, <2>2, <3>4 DEF IInv, Types, Job
    <3> QED BY <3>3, <3>4, <3>5 DEF Edits
  <2> QED BY <2>1, <2>2
<1>5. Types'
  BY <1>1, <1>2, <1>3, <1>4 DEF IInv, Types, TypeOK, Workers
<1>6. Calling
  BY <1>1 DEF Calling
<1>7. /\ RowsFollow' /\ JobsFollow' /\ Queue'
      /\ Current(i, text)' = Current(i, text)
      /\ Starts(i)' = Starts(i) /\ Edits(i, target)' = Edits(i, target)
      /\ \A k \in JobId : First(k)' = First(k)
  BY <1>1, <1>2, <1>6, CallingKeeps
<1>8. Delivered' /\ Told'
  BY <1>1, <1>7 DEF IInv, Delivered, Placed, Told, Fulfilled, Lasting
<1>9. Knows'
  BY <1>1, <1>3, <1>4, <1>7 DEF Knows
<1> QED BY <1>5, <1>7, <1>8, <1>9 DEF IInv

\* A message that appears or is edited leaves what the chats tell.
LEMMA ShowsKeep ==
  ASSUME IInv, worker.phase = "prepared", Shows, Calling,
         NEW i, NEW m, i = worker.job,
         m = IF worker.target = 0 THEN Len(chat[i.user]) + 1 ELSE worker.target
  PROVE  /\ chat' \in [User -> Seq(Message)]
         /\ Delivered' /\ Told'
         /\ m \in Nat /\ Placed(i, m)' /\ chat'[i.user][m].text = worker.text
<1>0. PICK u, text, target :
        /\ i = worker.job /\ u = i.user /\ text = worker.text /\ target = worker.target
        /\ m = IF target = 0 THEN Len(chat[u]) + 1 ELSE target
  OBVIOUS
<1> DEFINE new == [row |-> i.row, text |-> text, gone |-> FALSE]
<1>1. /\ i \in JobId /\ jobs[i].status = "PROCESSING" /\ i.row \in DOMAIN rows
      /\ u \in User /\ i.row \in 1..MaxRow
      /\ chat[u] \in Seq(Message)
      /\ DOMAIN chat[u] = 1..Len(chat[u]) /\ Len(chat[u]) \in Nat
  BY <1>0, Hands
<1>2. /\ text \in State /\ target \in Nat /\ Current(i, text)
      /\ target = 0 \/ Edits(i, target)
  BY <1>0 DEF IInv, Types, Workers, Knows
<1>3. /\ new \in Message /\ new.row = i.row /\ new.text = text
  BY <1>1, <1>2 DEF Message
<1> HIDE DEF new
<1>4. chat' = [chat EXCEPT ![u] = IF target = 0 THEN Append(@, new)
                                 ELSE [@ EXCEPT ![target] = new]]
  BY <1>0 DEF Shows, new
<1>5. chat \in [User -> Seq(Message)]
  BY DEF IInv, Types
<1>6. /\ chat'[u] = IF target = 0 THEN Append(chat[u], new)
                    ELSE [chat[u] EXCEPT ![target] = new]
      /\ \A v \in User : v # u => chat'[v] = chat[v]
  BY <1>1, <1>4, <1>5
<1>7. target # 0 => target \in 1..Len(chat[u]) /\ chat[u][target].row = i.row
  <2>1. SUFFICES ASSUME target # 0
                 PROVE  target \in DOMAIN chat[u] /\ chat[u][target].row = i.row
    BY <1>1
  <2>2. PICK k \in JobId : Alike(i, k) /\ First(k) /\ target = jobs[k].message
    BY <1>2, <2>1 DEF Edits
  <2>3. jobs[k].status = "SENT"
    BY <2>2 DEF First, Sent
  <2>4. Placed(k, target)
    BY <2>2, <2>3 DEF IInv, Delivered
  <2> QED BY <1>0, <2>2, <2>4 DEF Placed, Alike
\* Only message m of u's chat is another one now.
<1>8. /\ chat'[u] \in Seq(Message)
      /\ DOMAIN chat'[u] = DOMAIN chat[u] \cup {m}
      /\ chat'[u][m] = new
      /\ \A n \in DOMAIN chat[u] : n # m => chat'[u][n] = chat[u][n]
      /\ m \in Nat
  <2>1. CASE target = 0
    <3>1. chat'[u] = Append(chat[u], new)
      BY <1>6, <2>1
    <3>2. chat'[u] \in Seq(Message) /\ Len(chat'[u]) = Len(chat[u]) + 1
          /\ chat'[u][Len(chat[u]) + 1] = new
          /\ \A n \in 1..Len(chat[u]) : chat'[u][n] = chat[u][n]
      BY <1>1, <1>3, <3>1, AppendProperties
    <3>3. DOMAIN chat'[u] = 1..(Len(chat[u]) + 1)
      BY <3>2, LenProperties
    <3>4. m = Len(chat[u]) + 1 /\ m \in Nat
      BY <1>0, <1>1, <2>1
    <3>5. DOMAIN chat'[u] = DOMAIN chat[u] \cup {m}
      <4>1. 1..(Len(chat[u]) + 1) = 1..Len(chat[u]) \cup {Len(chat[u]) + 1}
        BY <1>1
      <4> QED BY <1>1, <3>3, <3>4, <4>1
    <3>6. chat'[u][m] = new
      BY <3>2, <3>4
    <3>7. \A n \in DOMAIN chat[u] : chat'[u][n] = chat[u][n]
      BY <1>1, <3>2
    <3> QED BY <3>2, <3>4, <3>5, <3>6, <3>7
  <2>2. CASE target # 0
    <3>1. chat'[u] = [chat[u] EXCEPT ![target] = new] /\ target \in 1..Len(chat[u])
      BY <1>6, <1>7, <2>2
    <3>2. chat'[u] \in Seq(Message)
      BY <1>1, <1>3, <3>1, ExceptSeq
    <3>3. m = target /\ m \in Nat /\ m \in DOMAIN chat[u]
      BY <1>0, <1>1, <2>2, <3>1
    <3>4. DOMAIN chat'[u] = DOMAIN chat[u] \cup {m} /\ chat'[u][m] = new
      BY <3>1, <3>3
    <3>5. \A n \in DOMAIN chat[u] : n # m => chat'[u][n] = chat[u][n]
      BY <3>1, <3>3
    <3> QED BY <3>2, <3>3, <3>4, <3>5
  <2> QED BY <2>1, <2>2
<1>9. m \in DOMAIN chat[u] => chat[u][m].row = i.row
  BY <1>0, <1>1, <1>7
<1>10. chat' \in [User -> Seq(Message)]
  BY <1>4, <1>5, <1>6, <1>8
<1>11. rows' = rows /\ jobs' = jobs /\ crashes' = crashes
  BY DEF Calling
<1>12. \A k \in JobId, n \in Nat : Placed(k, n) =>
         /\ n \in DOMAIN chat'[k.user] /\ chat'[k.user][n].row = k.row
         /\ k.user # u \/ n # m => chat'[k.user][n].text = chat[k.user][n].text
         /\ k.user = u /\ n = m => Alike(i, k) /\ chat'[k.user][n].text = text
  <2>1. SUFFICES ASSUME NEW k \in JobId, NEW n \in Nat, Placed(k, n)
                 PROVE  /\ n \in DOMAIN chat'[k.user] /\ chat'[k.user][n].row = k.row
                        /\ k.user # u \/ n # m =>
                             chat'[k.user][n].text = chat[k.user][n].text
                        /\ k.user = u /\ n = m =>
                             Alike(i, k) /\ chat'[k.user][n].text = text
    OBVIOUS
  <2>2. n \in DOMAIN chat[k.user] /\ chat[k.user][n].row = k.row /\ k.user \in User
    BY <2>1, Ids DEF Placed
  <2>3. CASE k.user # u
    BY <1>6, <2>2, <2>3
  <2>4. CASE k.user = u /\ n # m
    BY <1>8, <2>2, <2>4
  <2>5. CASE k.user = u /\ n = m
    BY <1>0, <1>3, <1>8, <1>9, <2>2, <2>5 DEF Alike
  <2> QED BY <2>3, <2>4, <2>5
<1>13. Delivered'
  <2>1. \A k \in JobId : jobs[k].status = "SENT" =>
          jobs[k].message \in DOMAIN chat'[k.user]
          /\ chat'[k.user][jobs[k].message].row = k.row
    BY <1>12 DEF IInv, Types, Job, Delivered
  <2>2. ASSUME NEW v \in User, NEW n \in DOMAIN chat'[v]
        PROVE  chat'[v][n].row \in DOMAIN rows
    <3>1. CASE v = u /\ n = m
      BY <1>1, <1>3, <1>8, <3>1
    <3>2. CASE ~(v = u /\ n = m)
      <4>1. n \in DOMAIN chat[v] /\ chat'[v][n] = chat[v][n]
        BY <1>6, <1>8, <2>2, <3>2
      <4> QED BY <4>1 DEF IInv, Delivered
    <3> QED BY <3>1, <3>2
  <2> QED BY <1>11, <2>1, <2>2 DEF Delivered, Placed
<1>14. Told'
  <2>1. \A k \in JobId : First(k)' = First(k)
    BY <1>11 DEF First, Sent
  <2>2. SUFFICES ASSUME NEW j \in JobId, NEW k \in JobId, Alike(j, k), Fulfilled(j),
                        Lasting(j), First(k)
                 PROVE  chat'[k.user][jobs[k].message].text = rows[j.row].state
    BY <1>11, <2>1 DEF Told, Fulfilled, Lasting
  <2>3. Placed(k, jobs[k].message) /\ jobs[k].message \in Nat
    BY <2>2 DEF First, Sent, IInv, Delivered, Types, Job
  <2>4. chat[k.user][jobs[k].message].text = rows[j.row].state
    BY <2>2 DEF IInv, Told
  <2>5. CASE ~(k.user = u /\ jobs[k].message = m)
    BY <1>12, <2>3, <2>4, <2>5
  <2>6. CASE k.user = u /\ jobs[k].message = m
    <3>1. Alike(i, k) /\ chat'[k.user][jobs[k].message].text = text
      BY <1>12, <2>3, <2>6
    <3>2. Alike(i, j) /\ rows[i.row].state = rows[j.row].state
      BY <2>2, <3>1 DEF Alike
    <3>3. ~Coming(i)
      BY <2>2, <3>2 DEF Coming, Fulfilled
    <3>4. text = rows[i.row].state
      BY <1>2, <3>3 DEF Current
    <3> QED BY <3>1, <3>2, <3>4
  <2> QED BY <2>5, <2>6
<1>15. m \in Nat /\ m \in DOMAIN chat'[u] /\ chat'[u][m].row = i.row
       /\ chat'[u][m].text = text
  BY <1>3, <1>8
<1> QED BY <1>0, <1>10, <1>13, <1>14, <1>15 DEF Placed

LEMMA DeliverKeeps == IInv /\ Deliver => IInv'
<1> SUFFICES ASSUME IInv, Deliver PROVE IInv'
  OBVIOUS
<1>0. PICK i, text, target, message :
        /\ i = worker.job /\ text = worker.text /\ target = worker.target
        /\ message = IF target = 0 THEN Len(chat[i.user]) + 1 ELSE target
  OBVIOUS
<1>1. /\ worker.phase = "prepared" /\ worker.job = i /\ Shows
      /\ worker' = [phase |-> "answered", job |-> i, outcome |-> "sent",
                    message |-> message]
      /\ stage' = stage /\ rows' = rows /\ jobs' = jobs
      /\ faults' = faults /\ crashes' = crashes /\ cleanups' = cleanups
  BY <1>0 DEF Deliver, Answered
<1>2. i \in JobId
  BY <1>1, Hands
<1>3. Calling
  BY <1>1 DEF Calling
<1>4. /\ chat' \in [User -> Seq(Message)]
      /\ Delivered' /\ Told'
      /\ message \in Nat /\ Placed(i, message)' /\ chat'[i.user][message].text = text
  <2>1. message = IF worker.target = 0 THEN Len(chat[i.user]) + 1 ELSE worker.target
    BY <1>0
  <2>2. worker'.phase # "idle" /\ worker'.job = worker.job
    BY <1>1
  <2> QED BY <1>0, <1>1, <1>3, <2>1, <2>2, ShowsKeep
<1>5. Types'
  BY <1>1, <1>2, <1>4 DEF IInv, Types, TypeOK, Workers, Outcome
<1>6. /\ RowsFollow' /\ JobsFollow' /\ Queue'
      /\ Current(i, text)' = Current(i, text)
      /\ Starts(i)' = Starts(i) /\ Edits(i, target)' = Edits(i, target)
  BY <1>1, <1>2, <1>3, CallingKeeps
<1>7. Current(i, text) /\ ((target = 0 /\ Starts(i)) \/ Edits(i, target))
  BY <1>0, <1>1 DEF IInv, Knows
<1>8. Knows'
  <2>1. Starts(i)' \/ Edits(i, message)'
    <3>1. CASE target = 0 /\ Starts(i)
      BY <1>6, <3>1
    <3>2. CASE Edits(i, target) /\ target # 0
      <4>1. message = target
        BY <1>0, <3>2
      <4> QED BY <1>6, <3>2, <4>1
    <3>3. CASE Edits(i, target) /\ target = 0
      <4>1. PICK k \in JobId : First(k) /\ jobs[k].message = 0
        BY <3>3 DEF Edits
      <4>2. Placed(k, 0) /\ k.user \in User
        BY <4>1, Ids DEF First, Sent, IInv, Delivered
      <4>3. 0 \notin DOMAIN chat[k.user]
        BY <4>2, LenProperties DEF IInv, Types
      <4> QED BY <4>2, <4>3 DEF Placed
    <3> QED BY <1>7, <3>1, <3>2, <3>3
  <2>2. Current(worker.job, chat[worker.job.user][worker.message].text)'
    BY <1>1, <1>4, <1>6, <1>7 DEF Current, Coming, Alike
  <2> QED BY <1>1, <1>4, <2>1, <2>2 DEF Knows, Placed, Starts, Edits, Alike
<1> QED BY <1>4, <1>5, <1>6, <1>8 DEF IInv

LEMMA LoseAnswerKeeps == IInv /\ LoseAnswer => IInv'
<1> SUFFICES ASSUME IInv, LoseAnswer PROVE IInv'
  OBVIOUS
<1>0. PICK i, message :
        /\ i = worker.job
        /\ message = IF worker.target = 0 THEN Len(chat[i.user]) + 1 ELSE worker.target
  OBVIOUS
<1>1. /\ worker.phase = "prepared" /\ worker.job = i /\ Shows
      /\ worker' = [phase |-> "answered", job |-> i, outcome |-> "refused",
                    message |-> 0]
      /\ stage' = stage /\ rows' = rows /\ jobs' = jobs
      /\ faults' = faults + 1 /\ crashes' = crashes /\ cleanups' = cleanups
  BY <1>0 DEF LoseAnswer, Answered, Fault
<1>2. i \in JobId
  BY <1>1, Hands
<1>3. Calling /\ worker'.phase # "idle" /\ worker'.job = worker.job
  BY <1>1 DEF Calling
<1>4. chat' \in [User -> Seq(Message)] /\ Delivered' /\ Told'
  BY <1>0, <1>1, <1>3, ShowsKeep
<1>5. Types'
  <2>1. worker' \in Workers
    BY <1>1, <1>2 DEF Workers, Outcome
  <2>2. faults' \in Nat
    BY <1>1 DEF IInv, Types
  <2> QED BY <1>1, <1>4, <2>1, <2>2 DEF IInv, Types, TypeOK
<1>6. RowsFollow' /\ JobsFollow' /\ Queue'
  BY <1>1, <1>3, CallingKeeps
<1>7. Knows'
  BY <1>1 DEF Knows
<1> QED BY <1>4, <1>5, <1>6, <1>7 DEF IInv

LEMMA RefusalsKeep == IInv /\ (RefuseUnchanged \/ Refuse) => IInv'
<1> SUFFICES ASSUME IInv, RefuseUnchanged \/ Refuse PROVE IInv'
  OBVIOUS
<1>1. PICK i, text, target, outcome :
        /\ worker.phase = "prepared"
        /\ i = worker.job /\ text = worker.text /\ target = worker.target
        /\ worker' = [phase |-> "answered", job |-> i, outcome |-> outcome,
                      message |-> 0]
        /\ \/ outcome = "unchanged" /\ target # 0 /\ chat[i.user][target].text = text
           \/ outcome \in {"refused", "forbidden"}
        /\ faults' \in {faults, faults + 1}
        /\ stage' = stage /\ rows' = rows /\ jobs' = jobs /\ chat' = chat
        /\ crashes' = crashes /\ cleanups' = cleanups
  BY DEF RefuseUnchanged, Refuse, Unchanged, Edited, Answered, Fault
<1>2. i \in JobId /\ target \in Nat
  BY <1>1, Hands DEF IInv, Types, Workers
<1>3. Calling /\ worker'.phase # "idle" /\ worker'.job = worker.job
  BY <1>1 DEF Calling
<1>4. Types'
  <2>1. worker' \in Workers
    BY <1>1, <1>2 DEF Workers, Outcome
  <2>2. faults' \in Nat
    BY <1>1 DEF IInv, Types
  <2> QED BY <1>1, <2>1, <2>2 DEF IInv, Types, TypeOK
<1>5. /\ RowsFollow' /\ JobsFollow' /\ Queue'
      /\ Current(i, text)' = Current(i, text)
      /\ Edits(i, target)' = Edits(i, target)
      /\ \A k \in JobId : First(k)' = First(k)
  BY <1>1, <1>2, <1>3, CallingKeeps
<1>6. Delivered' /\ Told'
  BY <1>1, <1>5 DEF IInv, Delivered, Placed, Told, Fulfilled, Lasting
<1>7. Current(i, text) /\ (target = 0 \/ Edits(i, target))
  BY <1>1 DEF IInv, Knows
<1>8. Knows'
  <2>1. CASE outcome # "unchanged"
    BY <1>1, <2>1 DEF Knows
  <2>2. CASE outcome = "unchanged"
    <3>1. Edits(i, target)' /\ Current(i, text)' /\ chat'[i.user][target].text = text
      BY <1>1, <1>5, <1>7, <2>2
    <3>2. Edits(worker.job, target)'
          /\ Current(worker.job, chat[worker.job.user][target].text)'
      BY <1>1, <3>1 DEF Edits, Current, Coming, Alike
    <3> QED BY <1>1, <1>2, <2>2, <3>2 DEF Knows
  <2> QED BY <2>1, <2>2
<1> QED BY <1>4, <1>5, <1>6, <1>8 DEF IInv

\* Whatever was sent in the thread of the worker's delivery was sent before it.
LEMMA SentBefore ==
  ASSUME IInv, worker.phase # "idle",
         NEW k \in JobId, Alike(worker.job, k), First(k)
  PROVE  k # worker.job /\ jobs[k].at < jobs[worker.job].at
<1> DEFINE i == worker.job
<1>1. i \in JobId /\ jobs[i].status = "PROCESSING" /\ Exists(i)
  BY Hands
<1>2. jobs[k].status = "SENT" /\ Exists(k)
  BY DEF First, Sent, Exists
<1>3. ~(jobs[i].at < jobs[k].at)
  BY <1>1, <1>2 DEF IInv, Queue, InQueue, Over, Handled
<1>4. jobs[i].at # jobs[k].at
  BY <1>1, <1>2 DEF IInv, Queue, Distinct
<1> QED BY <1>1, <1>2, <1>3, <1>4 DEF IInv, Types, Job

\* A delivery that sends anew finds that nothing was sent, without a restart.
LEMMA StartsFirst ==
  ASSUME IInv, worker.phase # "idle", crashes = 0, jobs[worker.job].action = "SEND"
  PROVE  Sent(worker.job.row, worker.job.user) = {}
<1> DEFINE i == worker.job
<1>1. i \in JobId /\ Exists(i)
  BY Hands
<1>2. SUFFICES ASSUME Sent(i.row, i.user) # {} PROVE FALSE
  OBVIOUS
<1>3. PICK k \in Sent(i.row, i.user) : First(k)
  BY <1>2, FirstExists
<1>4. k \in JobId /\ Alike(i, k) /\ k.stage \in Threads /\ Exists(k)
  BY <1>3 DEF Sent, Alike, Exists
<1>5. jobs[i].at <= jobs[k].at
  BY <1>1, <1>4 DEF IInv, Queue, SendsFirst
<1>6. jobs[k].at < jobs[i].at /\ jobs[k].at \in Nat /\ jobs[i].at \in Nat
  BY <1>1, <1>3, <1>4, SentBefore DEF IInv, Types, Job
<1> QED BY <1>5, <1>6

\* The message the worker reports is that of the first delivery of its thread,
\* which is the worker's own when it started the thread.
LEMMA Reports ==
  ASSUME IInv, worker.phase = "answered", worker.outcome \in {"sent", "unchanged"},
         Lasting(worker.job)
  PROVE  \/ /\ Sent(worker.job.row, worker.job.user) = {} /\ worker.outcome = "sent"
            /\ Current(worker.job, chat[worker.job.user][worker.message].text)
         \/ \E k \in JobId :
              /\ Alike(worker.job, k) /\ First(k) /\ k # worker.job
              /\ jobs[k].at < jobs[worker.job].at
              /\ worker.outcome = "sent" => worker.message = jobs[k].message
              /\ Current(worker.job, chat[worker.job.user][jobs[k].message].text)
<1> DEFINE i == worker.job
<1>1. i \in JobId /\ jobs[i].status = "PROCESSING" /\ Exists(i)
  BY Hands
<1>2. \A k \in JobId : Alike(i, k) /\ First(k) => k # i /\ jobs[k].at < jobs[i].at
  BY SentBefore
<1>3. CASE worker.outcome = "unchanged"
  <2>1. PICK m \in Nat : Edits(i, m) /\ Current(i, chat[i.user][m].text)
    BY <1>3 DEF IInv, Knows
  <2> QED BY <1>2, <1>3, <2>1 DEF Edits
<1>4. CASE worker.outcome = "sent"
  <2>1. /\ Current(i, chat[i.user][worker.message].text)
        /\ Starts(i) \/ Edits(i, worker.message)
    BY <1>4 DEF IInv, Knows
  <2>2. CASE Edits(i, worker.message)
    BY <1>2, <1>4, <2>1, <2>2 DEF Edits
  <2>3. CASE Starts(i)
    <3>1. crashes = 0 \/ jobs[i].action # "SEND"
      BY <1>1 DEF Lasting, IInv, JobsFollow, Threads
    <3> QED BY <1>4, <2>1, <2>3, <3>1, StartsFirst DEF Starts
  <2> QED BY <2>1, <2>2, <2>3
<1> QED BY <1>3, <1>4

LEMMA FinishKeeps == IInv /\ Finish => IInv'
<1> SUFFICES ASSUME IInv, Finish PROVE IInv'
  OBVIOUS
<1>0. PICK c, outcome, message :
        c = worker.job /\ outcome = worker.outcome /\ message = worker.message
  OBVIOUS
<1>1. /\ worker.phase = "answered" /\ worker.job = c /\ worker.outcome = outcome
      /\ worker.message = message
      /\ jobs' = [jobs EXCEPT ![c] = Settled(@)] /\ worker' = Idle
      /\ stage' = stage /\ rows' = rows /\ chat' = chat
      /\ faults' = faults /\ crashes' = crashes /\ cleanups' = cleanups
  BY <1>0 DEF Finish
<1>2. /\ c \in JobId /\ jobs[c].status = "PROCESSING" /\ Exists(c) /\ jobs[c] \in Job
      /\ outcome \in Outcome /\ message \in Nat /\ jobs \in [JobId -> Job]
  BY <1>1, Hands DEF IInv, Types, Workers
<1>3. jobs'[c] = Settled(jobs[c]) /\ \A i \in JobId : i # c => jobs'[i] = jobs[i]
  BY <1>1, <1>2
<1>4. jobs[c].retries \in 0..MaxRetry
  BY <1>2, RetryAssumption DEF IInv, Queue, Accounts, Unfinished, Job
\* What becomes of the worker's delivery.
<1>5. /\ jobs'[c] \in Job
      /\ jobs'[c].at = jobs[c].at /\ jobs'[c].action = jobs[c].action
      /\ outcome = "sent" => jobs'[c].status = "SENT" /\ jobs'[c].message = message
      /\ outcome = "forbidden" =>
           jobs'[c].status = "FAILED" /\ jobs'[c].error = "forbidden"
      /\ outcome \in {"unchanged", "refused"} =>
           /\ jobs'[c].error = outcome /\ jobs'[c].status \in {"PENDING", "FAILED"}
           /\ jobs'[c].status = "PENDING" => jobs'[c].retries <= MaxRetry
  <2>1. CASE outcome = "sent"
    <3>1. jobs'[c] = [jobs[c] EXCEPT !.status = "SENT", !.error = "none",
                                     !.message = message]
      BY <1>1, <1>3, <2>1 DEF Settled
    <3> QED BY <1>2, <2>1, <3>1 DEF Job
  <2>2. CASE outcome = "forbidden"
    <3>1. jobs'[c] = [jobs[c] EXCEPT !.status = "FAILED", !.error = "forbidden"]
      BY <1>1, <1>3, <2>2 DEF Settled
    <3> QED BY <1>2, <2>2, <3>1 DEF Job
  <2>3. CASE outcome \in {"unchanged", "refused"}
    <3>1. jobs'[c] = Retried(jobs[c], outcome)
      BY <1>1, <1>3, <2>3 DEF Settled
    <3>2. jobs[c].retries + 1 \in 0..(MaxRetry + 1)
      BY <1>4, RetryAssumption
    <3> QED BY <1>2, <2>3, <3>1, <3>2 DEF Job, Retried
  <2> QED BY <1>2, <2>1, <2>2, <2>3 DEF Outcome
<1>6. Keeping
  BY <1>1, <1>2, <1>3, <1>5 DEF Keeping, Outcome
<1>7. Types'
  <2>1. worker' \in Workers
    BY <1>1 DEF Workers, Idle
  <2>2. jobs' \in [JobId -> Job]
    BY <1>1, <1>2, <1>3, <1>5
  <2> QED BY <1>1, <2>1, <2>2 DEF IInv, Types, TypeOK
<1>8. Busy' /\ Knows'
  BY <1>1 DEF Busy, Knows, Idle
<1>9. InQueue'
  <2>1. SUFFICES ASSUME NEW a \in JobId, NEW b \in JobId, Exists(a), Exists(b),
                        jobs[a].at < jobs[b].at, jobs'[b].status # "PENDING"
                 PROVE  jobs'[a].status # "PENDING"
    BY <1>1, <1>6, KeepingKeeps DEF InQueue, Keeping, Over, Handled, Idle
  <2>2. jobs[b].status # "PENDING"
    BY <1>2, <1>3, <2>1
  <2>3. Over(a)
    BY <2>1, <2>2 DEF IInv, Queue, InQueue
  <2> QED BY <1>1, <1>3, <2>3 DEF Over, Handled
<1>10. \A q, u : Sent(q, u) \subseteq Sent(q, u)'
  BY <1>2, <1>3 DEF Sent
<1>11. Accounts'
  <2>1. SUFFICES ASSUME NEW i \in JobId
                 PROVE  /\ Unfinished(i)' => jobs'[i].retries <= MaxRetry
                        /\ jobs'[i].status = "FAILED" =>
                             /\ jobs'[i].error # "none"
                             /\ jobs'[i].error = "unchanged" => Sent(i.row, i.user)' # {}
    BY DEF Accounts
  <2>2. CASE i # c
    BY <1>3, <1>10, <2>2 DEF IInv, Queue, Accounts, Unfinished
  <2>3. CASE i = c
    <3>1. outcome = "unchanged" => Sent(c.row, c.user) # {}
      <4>1. SUFFICES ASSUME outcome = "unchanged" PROVE Sent(c.row, c.user) # {}
        OBVIOUS
      <4>2. PICK k \in JobId : Alike(c, k) /\ First(k)
        BY <1>1, <4>1 DEF IInv, Knows, Edits
      <4> QED BY <4>2 DEF Alike, First
    <3> QED BY <1>2, <1>5, <1>10, <2>3, <3>1 DEF Unfinished, Outcome
  <2> QED BY <2>2, <2>3
<1>12. Delivered'
  <2>1. \A i \in JobId : jobs'[i].status = "SENT" => Placed(i, jobs'[i].message)
    <3>1. outcome = "sent" => Placed(c, message)
      BY <1>1 DEF IInv, Knows
    <3> QED BY <1>2, <1>3, <1>5, <3>1 DEF IInv, Delivered, Outcome
  <2> QED BY <1>1, <2>1 DEF IInv, Delivered, Placed
<1>13. Told'
  <2>1. SUFFICES ASSUME NEW i \in JobId, NEW k \in JobId, Alike(i, k), Fulfilled(i)',
                        Lasting(i), First(k)'
                 PROVE  chat[k.user][jobs'[k].message].text = rows[i.row].state
    BY <1>1, <1>6, KeepingKeeps DEF Told
  <2>2. k \in Sent(k.row, k.user)' /\ \A n \in Sent(k.row, k.user)' : jobs'[k].at <= jobs'[n].at
    BY <2>1 DEF First
  <2>3. \A n \in JobId : n \in Sent(k.row, k.user) => n \in Sent(k.row, k.user)'
    BY <1>10
  \* Unless the worker's own delivery is the first one now, nothing changed.
  <2>4. k # c => First(k) /\ jobs'[k] = jobs[k]
    <3>1. SUFFICES ASSUME k # c PROVE First(k)
      BY <1>3
    <3>2. k \in Sent(k.row, k.user)
      BY <1>3, <2>2, <3>1 DEF Sent
    <3>3. ASSUME NEW n \in Sent(k.row, k.user)
          PROVE  jobs[k].at <= jobs[n].at
      <4>1. n \in JobId /\ jobs[n].status = "SENT"
        BY <3>3 DEF Sent
      <4>2. jobs'[n] = jobs[n] /\ jobs'[k] = jobs[k]
        BY <1>2, <1>3, <3>1, <4>1
      <4>3. jobs'[k].at <= jobs'[n].at
        BY <2>2, <2>3, <3>3, <4>1
      <4> QED BY <4>2, <4>3
    <3> QED BY <3>2, <3>3 DEF First
  <2>5. CASE i # c
    <3>1. Fulfilled(i)
      BY <1>3, <2>1, <2>5 DEF Fulfilled
    <3>2. k # c
      <4>1. SUFFICES ASSUME k = c PROVE FALSE
        OBVIOUS
      <4>2. Exists(i) /\ jobs[i].status # "PENDING"
        BY <3>1 DEF Fulfilled, Exists
      <4>3. jobs[c].at <= jobs[i].at /\ jobs[c].at # jobs[i].at
        BY <1>2, <2>1, <2>5, <4>1, <4>2 DEF IInv, Queue, LastWord, Distinct, Alike
      <4>4. Over(c)
        BY <1>2, <4>2, <4>3 DEF IInv, Types, Job, Queue, InQueue
      <4> QED BY <1>1, <4>4 DEF Over, Handled
    <3> QED BY <2>1, <2>4, <3>1, <3>2 DEF IInv, Told
  <2>6. CASE i = c
    <3>1. outcome \in {"sent", "unchanged"}
      BY <1>2, <1>5, <2>1, <2>6 DEF Fulfilled, Outcome
    <3>2. \A text : Current(c, text) => text = rows[c.row].state
      BY <1>2, <2>1, <2>6 DEF Current, Coming, Alike
    <3>3. CASE /\ Sent(c.row, c.user) = {} /\ outcome = "sent"
               /\ Current(c, chat[c.user][message].text)
      <4>1. k = c
        BY <2>1, <2>4, <2>6, <3>3 DEF Alike, First
      <4> QED BY <1>5, <2>6, <3>2, <3>3, <4>1
    <3>4. ASSUME NEW f \in JobId, Alike(c, f), First(f), f # c,
                 jobs[f].at < jobs[c].at,
                 Current(c, chat[c.user][jobs[f].message].text)
          PROVE  chat[k.user][jobs'[k].message].text = rows[i.row].state
      <4>1. k # c
        <5>1. f \in Sent(k.row, k.user)
          BY <2>1, <2>6, <3>4 DEF Alike, First
        <5>2. jobs'[k].at <= jobs[f].at
          BY <1>3, <2>2, <2>3, <3>4, <5>1
        <5> QED BY <1>2, <1>5, <3>4, <5>2 DEF Job
      <4>2. k = f /\ jobs'[k] = jobs[k]
        BY <2>1, <2>4, <2>6, <3>4, <4>1, FirstUnique DEF Alike
      <4> QED BY <2>6, <3>2, <3>4, <4>2 DEF Alike
    <3>5. \/ /\ Sent(c.row, c.user) = {} /\ outcome = "sent"
             /\ Current(c, chat[c.user][message].text)
          \/ \E f \in JobId : /\ Alike(c, f) /\ First(f) /\ f # c
                              /\ jobs[f].at < jobs[c].at
                              /\ Current(c, chat[c.user][jobs[f].message].text)
      BY <1>1, <2>1, <2>6, <3>1, Reports
    <3> QED BY <3>3, <3>4, <3>5
  <2> QED BY <2>5, <2>6
<1> QED BY <1>6, <1>7, <1>8, <1>9, <1>11, <1>12, <1>13, KeepingKeeps DEF IInv, Queue

LEMMA CleanUpKeeps ==
  ASSUME IInv, NEW c \in JobId, CleanUp(c)
  PROVE  IInv'
<1>0. PICK u, m : u = c.user /\ m = jobs[c].message
  OBVIOUS
<1>1. /\ jobs[c].status = "SENT" /\ jobs' = [jobs EXCEPT ![c].deleted = TRUE]
      /\ \/ chat' = [chat EXCEPT ![u][m].gone = TRUE]
         \/ chat' = chat
      /\ cleanups < MaxCleanup /\ cleanups' = cleanups + 1
      /\ stage' = stage /\ rows' = rows /\ worker' = worker
      /\ faults' = faults /\ crashes' = crashes
  BY <1>0 DEF CleanUp, Kept
<1>2. /\ jobs \in [JobId -> Job] /\ jobs[c] \in Job /\ u \in User
      /\ chat \in [User -> Seq(Message)]
      /\ m \in DOMAIN chat[u] /\ chat[u][m].row = c.row
  BY <1>0, <1>1, Ids DEF IInv, Types, Delivered, Placed
<1>3. /\ jobs'[c] = [jobs[c] EXCEPT !.deleted = TRUE]
      /\ \A i \in JobId : i # c => jobs'[i] = jobs[i]
  BY <1>1, <1>2
<1>4. \A i \in JobId :
        /\ jobs'[i] \in Job
        /\ jobs'[i].status = jobs[i].status /\ jobs'[i].at = jobs[i].at
        /\ jobs'[i].action = jobs[i].action /\ jobs'[i].message = jobs[i].message
        /\ jobs'[i].error = jobs[i].error /\ jobs'[i].retries = jobs[i].retries
        /\ jobs[i].status # "SENT" => jobs'[i] = jobs[i]
  BY <1>1, <1>2, <1>3 DEF Job
<1>5. Keeping
  BY <1>1, <1>4 DEF Keeping
\* No message moves or changes its text; one may be gone.
<1>6. /\ chat' \in [User -> Seq(Message)]
      /\ \A v \in User : DOMAIN chat'[v] = DOMAIN chat[v]
      /\ \A v \in User : \A n \in DOMAIN chat[v] :
           /\ chat'[v][n].row = chat[v][n].row
           /\ chat'[v][n].text = chat[v][n].text
  <2>1. CASE chat' = chat
    BY <1>2, <2>1
  <2>2. CASE chat' = [chat EXCEPT ![u][m].gone = TRUE]
    <3> DEFINE gone == [chat[u][m] EXCEPT !.gone = TRUE]
    <3>1. chat' = [chat EXCEPT ![u] = [chat[u] EXCEPT ![m] = gone]]
      BY <1>2, <2>2
    <3>2. chat[u] \in Seq(Message) /\ DOMAIN chat[u] = 1..Len(chat[u])
      BY <1>2, LenProperties
    <3>3. chat[u][m] \in Message
      BY <1>2, <3>2, ElementOfSeq
    <3>4. /\ gone \in Message
          /\ gone.row = chat[u][m].row /\ gone.text = chat[u][m].text
      BY <3>3 DEF Message
    <3> HIDE DEF gone
    <3>5. [chat[u] EXCEPT ![m] = gone] \in Seq(Message)
      BY <1>2, <3>2, <3>4, ExceptSeq
    <3>6. chat'[u] = [chat[u] EXCEPT ![m] = gone] /\ \A v \in User : v # u => chat'[v] = chat[v]
      BY <1>2, <3>1
    <3>7. \A n \in DOMAIN chat[u] : chat'[u][n] = IF n = m THEN gone ELSE chat[u][n]
      BY <1>2, <3>6
    <3> QED BY <1>2, <3>1, <3>4, <3>5, <3>6, <3>7
  <2> QED BY <1>1, <2>1, <2>2
<1>7. /\ \A q, v : Sent(q, v)' = Sent(q, v)
      /\ \A k \in JobId : First(k)' = First(k)
  <2>1. \A q, v : Sent(q, v)' = Sent(q, v)
    BY <1>4 DEF Sent
  <2> QED BY <1>4, <2>1 DEF First, Sent
<1>8. Types'
  <2>1. jobs' \in [JobId -> Job]
    BY <1>1, <1>2, <1>4
  <2>2. cleanups' \in 0..MaxCleanup
    BY <1>1, BoundAssumption DEF IInv, Types
  <2> QED BY <1>1, <1>6, <2>1, <2>2 DEF IInv, Types, TypeOK
<1>9. Busy' /\ InQueue' /\ Accounts'
  <2>1. Busy'
    BY <1>1, <1>4, Hands DEF IInv, Queue, Busy
  <2>2. InQueue'
    BY <1>1, <1>4 DEF IInv, Queue, InQueue, Over, Handled, Exists
  <2>3. Accounts'
    BY <1>4, <1>7 DEF IInv, Queue, Accounts, Unfinished
  <2> QED BY <2>1, <2>2, <2>3
<1>10. Delivered'
  <2>1. \A i \in JobId : jobs[i].status = "SENT" =>
          jobs[i].message \in DOMAIN chat'[i.user]
          /\ chat'[i.user][jobs[i].message].row = i.row
    <3>1. SUFFICES ASSUME NEW i \in JobId, jobs[i].status = "SENT"
                   PROVE  jobs[i].message \in DOMAIN chat'[i.user]
                          /\ chat'[i.user][jobs[i].message].row = i.row
      OBVIOUS
    <3>2. jobs[i].message \in DOMAIN chat[i.user]
          /\ chat[i.user][jobs[i].message].row = i.row /\ i.user \in User
      BY <3>1, Ids DEF IInv, Delivered, Placed
    <3> QED BY <1>6, <3>2
  <2>2. \A v \in User : \A n \in DOMAIN chat'[v] : chat'[v][n].row \in DOMAIN rows
    BY <1>6 DEF IInv, Delivered
  <2> QED BY <1>1, <1>4, <2>1, <2>2 DEF Delivered, Placed
<1>11. ASSUME NEW i \in JobId, NEW n \in DOMAIN chat[i.user], Current(i, chat[i.user][n].text)
       PROVE  Current(i, chat[i.user][n].text)'
  <2>1. chat'[i.user][n].text = chat[i.user][n].text
    BY <1>6, <1>11, Ids
  <2> QED BY <1>1, <1>4, <1>11, <2>1 DEF Current, Coming, Lasting
<1>12. ASSUME NEW i \in JobId
       PROVE  /\ Starts(i)' = Starts(i)
              /\ \A n : Edits(i, n)' = Edits(i, n)
              /\ \A text : Current(i, text)' = Current(i, text)
              /\ \A n : Edits(i, n) => n \in DOMAIN chat[i.user]
  <2>1. Starts(i)' = Starts(i)
    BY <1>4, <1>7 DEF Starts
  <2>2. \A n : Edits(i, n)' = Edits(i, n)
    BY <1>4, <1>7 DEF Edits
  <2>3. \A text : Current(i, text)' = Current(i, text)
    BY <1>1, <1>4 DEF Current, Coming, Lasting
  <2>4. ASSUME NEW n, Edits(i, n)
        PROVE  n \in DOMAIN chat[i.user]
    <3>1. PICK k \in JobId : Alike(i, k) /\ First(k) /\ n = jobs[k].message
      BY <2>4 DEF Edits
    <3> QED BY <3>1 DEF First, Sent, IInv, Delivered, Placed, Alike
  <2> QED BY <2>1, <2>2, <2>3, <2>4
<1>13. Knows'
  <2>0. PICK i : i = worker.job
    OBVIOUS
  <2>1. worker.phase # "idle" => i \in JobId
    BY <2>0, Hands
  <2>2. CASE worker.phase = "prepared"
    <3>0. PICK text, target : text = worker.text /\ target = worker.target
      OBVIOUS
    <3>1. Current(i, text) /\ ((target = 0 /\ Starts(i)) \/ Edits(i, target))
      BY <2>0, <2>2, <3>0 DEF IInv, Knows
    <3>2. Current(i, text)' /\ ((target = 0 /\ Starts(i)') \/ Edits(i, target)')
      BY <1>12, <2>1, <2>2, <3>1
    <3> QED BY <1>1, <2>0, <2>2, <3>0, <3>2 DEF Knows, Current, Coming, Starts, Edits, Alike
  <2>3. CASE worker.phase = "answered" /\ worker.outcome = "sent"
    <3>0. PICK n : n = worker.message
      OBVIOUS
    <3>1. /\ Placed(i, n) /\ Current(i, chat[i.user][n].text)
          /\ Starts(i) \/ Edits(i, n)
      BY <2>0, <2>3, <3>0 DEF IInv, Knows
    <3>2. Placed(i, n)' /\ Current(i, chat[i.user][n].text)' /\ (Starts(i)' \/ Edits(i, n)')
      BY <1>6, <1>11, <1>12, <2>1, <2>3, <3>1, Ids DEF Placed
    <3> QED BY <1>1, <2>0, <2>3, <3>0, <3>2
            DEF Knows, Placed, Current, Coming, Starts, Edits, Alike
  <2>4. CASE worker.phase = "answered" /\ worker.outcome = "unchanged"
    <3>1. PICK n \in Nat : Edits(i, n) /\ Current(i, chat[i.user][n].text)
      BY <2>0, <2>4 DEF IInv, Knows
    <3>2. Edits(i, n)' /\ Current(i, chat[i.user][n].text)'
      BY <1>11, <1>12, <2>1, <2>4, <3>1
    <3> QED BY <1>1, <2>0, <2>4, <3>2 DEF Knows, Edits, Current, Coming, Alike
  <2>5. CASE worker.phase \in {"idle", "claimed"}
             \/ (worker.phase = "answered" /\ worker.outcome \in {"refused", "forbidden"})
    BY <1>1, <2>5 DEF Knows
  <2> QED BY <2>2, <2>3, <2>4, <2>5 DEF IInv, Types, Workers, Outcome
<1>14. Told'
  <2>1. SUFFICES ASSUME NEW i \in JobId, NEW k \in JobId, Alike(i, k), Fulfilled(i),
                        Lasting(i), First(k)
                 PROVE  chat'[k.user][jobs[k].message].text = rows[i.row].state
    BY <1>1, <1>4, <1>7 DEF Told, Fulfilled, Lasting
  <2>2. jobs[k].message \in DOMAIN chat[k.user] /\ k.user \in User
    BY <2>1, Ids DEF First, Sent, IInv, Delivered, Placed
  <2> QED BY <1>6, <2>1, <2>2 DEF IInv, Told
<1> QED BY <1>5, <1>8, <1>9, <1>10, <1>13, <1>14, KeepingKeeps DEF IInv, Queue

\* After a restart only what does not end with the process is left to keep.
LEMMA CrashKeeps == IInv /\ Crash => IInv'
<1> SUFFICES ASSUME IInv, Crash PROVE IInv'
  OBVIOUS
<1>1. /\ crashes < MaxCrash /\ crashes' = crashes + 1
      /\ stage' = [s \in Symbol |-> [d \in Direction |-> "NORMAL"]]
      /\ worker' = Idle /\ rows' = rows /\ jobs' = jobs /\ chat' = chat
      /\ faults' = faults /\ cleanups' = cleanups
  BY DEF Crash
<1>2. crashes' \in 0..MaxCrash /\ crashes' # 0
  BY <1>1, BoundAssumption DEF IInv, Types
<1>3. Types'
  <2>1. TypeOK'
    BY <1>1 DEF TypeOK, State
  <2>2. worker' \in Workers
    BY <1>1 DEF Idle, Workers
  <2> QED BY <1>1, <1>2, <2>1, <2>2 DEF IInv, Types
<1>4. RowsFollow' /\ JobsFollow'
  BY <1>1, <1>2 DEF IInv, RowsFollow, JobsFollow, Exists
<1>5. \A i \in JobId : Lasting(i)' => Lasting(i)
  BY <1>1, <1>2 DEF Lasting
<1>6. \A q, u : Sent(q, u)' = Sent(q, u)
  BY <1>1 DEF Sent
<1>7. Queue'
  <2>1. Numbered' /\ Distinct' /\ SendsFirst'
    BY <1>1, <1>2 DEF IInv, Queue, Numbered, Distinct, SendsFirst, Exists
  <2>2. Busy' /\ InQueue'
    BY <1>1 DEF IInv, Queue, Busy, InQueue, Over, Handled, Idle, Exists
  <2>3. LastWord'
    BY <1>1, <1>5 DEF IInv, Queue, LastWord, Exists
  <2>4. Accounts'
    BY <1>1, <1>6 DEF IInv, Queue, Accounts, Unfinished
  <2> QED BY <2>1, <2>2, <2>3, <2>4 DEF Queue
<1>8. Delivered' /\ Knows'
  BY <1>1 DEF IInv, Delivered, Knows, Placed, Idle
<1>9. Told'
  BY <1>1, <1>5, <1>6 DEF IInv, Told, Fulfilled, First
<1> QED BY <1>3, <1>4, <1>7, <1>8, <1>9 DEF IInv

LEMMA InitHolds == DeliveryInit => IInv
<1> SUFFICES ASSUME DeliveryInit PROVE IInv
  OBVIOUS
<1>1. /\ stage = [s \in Symbol |-> [d \in Direction |-> "NORMAL"]]
      /\ rows = <<>> /\ jobs = [i \in JobId |-> NoJob] /\ worker = Idle
      /\ chat = [u \in User |-> <<>>] /\ faults = 0 /\ crashes = 0 /\ cleanups = 0
  BY DEF DeliveryInit, Init
<1>2. \A i \in JobId : jobs[i] = NoJob /\ ~Exists(i) /\ jobs[i].status = "NONE"
                       /\ jobs[i].at = 0
  BY <1>1 DEF NoJob, Exists
<1>3. NoJob \in Job
  BY RetryAssumption DEF NoJob, Job
<1>4. Types
  <2>1. TypeOK
    BY <1>1 DEF TypeOK, State
  <2>2. rows \in Seq(Row) /\ Len(rows) <= MaxRow
    BY <1>1, BoundAssumption
  <2>3. worker \in Workers
    BY <1>1 DEF Idle, Workers
  <2>4. chat \in [User -> Seq(Message)]
    BY <1>1
  <2>5. faults \in Nat /\ crashes \in 0..MaxCrash /\ cleanups \in 0..MaxCleanup
    BY <1>1, BoundAssumption
  <2>6. jobs \in [JobId -> Job]
    BY <1>1, <1>3
  <2> QED BY <2>1, <2>2, <2>3, <2>4, <2>5, <2>6 DEF Types
<1>5. RowsFollow /\ JobsFollow
  BY <1>1, <1>2 DEF RowsFollow, JobsFollow
<1>6. Queue
  <2>1. Numbered
    <3>1. {jobs[i].at : i \in JobId} \cup {0} = 0..0
      BY <1>2
    <3> QED BY <3>1 DEF Numbered
  <2>2. Busy
    BY <1>1 DEF Busy, Idle
  <2>3. InQueue /\ Distinct /\ SendsFirst /\ LastWord
    BY <1>2 DEF InQueue, Distinct, SendsFirst, LastWord
  <2>4. Accounts
    BY <1>2 DEF Accounts, Unfinished
  <2> QED BY <2>1, <2>2, <2>3, <2>4 DEF Queue
<1>7. Delivered /\ Knows
  BY <1>1, <1>2 DEF Delivered, Knows, Idle
<1>8. Told
  BY <1>2 DEF Told, Fulfilled
<1> QED BY <1>4, <1>5, <1>6, <1>7, <1>8 DEF IInv

LEMMA NextKeeps == IInv /\ [DeliveryNext]_vars => IInv'
<1> SUFFICES ASSUME IInv, [DeliveryNext]_vars PROVE IInv'
  OBVIOUS
<1>1. ASSUME NEW s \in Symbol, NEW d \in Moves, Transition(s, d) PROVE IInv'
  BY <1>1, TransitionKeeps, BoundAssumption
<1>2. CASE Work
  BY <1>2, ClaimKeeps, PrepareKeeps, DeliverKeeps, LoseAnswerKeeps, RefusalsKeep,
     FinishKeeps DEF Work
<1>3. ASSUME NEW i \in JobId, CleanUp(i) PROVE IInv'
  BY <1>3, CleanUpKeeps
<1>4. CASE Crash
  BY <1>4, CrashKeeps
<1>5. CASE UNCHANGED vars
  <2>1. /\ stage' = stage /\ rows' = rows /\ jobs' = jobs /\ worker' = worker
        /\ chat' = chat /\ faults' = faults /\ crashes' = crashes /\ cleanups' = cleanups
    BY <1>5 DEF vars
  <2>2. Types'
    BY <2>1 DEF IInv, Types, TypeOK
  <2>3. Keeping
    BY <2>1 DEF Keeping
  <2>4. /\ \A q, u : Sent(q, u)' = Sent(q, u)
        /\ \A k \in JobId : First(k)' = First(k)
    BY <2>1 DEF First, Sent
  <2>5. Busy' /\ InQueue' /\ Accounts'
    BY <2>1, <2>4 DEF IInv, Queue, Busy, InQueue, Over, Handled, Exists, Accounts, Unfinished
  <2>6. Delivered' /\ Told'
    BY <2>1, <2>4 DEF IInv, Delivered, Placed, Told, Fulfilled, Lasting
  <2>7. Knows'
    BY <2>1, <2>4 DEF IInv, Knows, Current, Coming, Lasting, Starts, Edits, Placed, Alike
  <2> QED BY <2>2, <2>3, <2>5, <2>6, <2>7, KeepingKeeps DEF IInv, Queue
<1> QED BY <1>1, <1>2, <1>3, <1>4, <1>5 DEF DeliveryNext, Sleep

-----------------------------------------------------------------------------
(* The theorems.                                                           *)

\* The inductive invariant holds of every behaviour of persist_transition, the
\* delivery worker, the cleanup worker, Telegram and restarts.
THEOREM DeliveryInvariance == DeliverySpec => []IInv
<1> QED BY InitHolds, NextKeeps, PTL DEF DeliverySpec

\* The signals and deliveries tables, the locals of DeliveryWorker._deliver and
\* the chats keep their types.
THEOREM DeliveryTypeCorrect == DeliverySpec => []DeliveryTypeOK
<1>1. ASSUME IInv PROVE DeliveryTypeOK
  <2>1. /\ TypeOK /\ jobs \in [JobId -> Job] /\ cleanups \in 0..MaxCleanup
        /\ rows \in Seq([symbol: Symbol, direction: Direction, state: State,
                         active: BOOLEAN])
    BY <1>1 DEF IInv, Types, Row
  <2>2. /\ worker.phase \in {"idle", "claimed", "prepared", "answered"}
        /\ worker.phase # "idle" => worker.job \in JobId
    BY <1>1 DEF IInv, Types, Workers
  <2>3. ASSUME NEW u \in User, NEW k \in DOMAIN chat[u]
        PROVE  chat[u][k] \in [row: DOMAIN rows, text: State, gone: BOOLEAN]
    <3>1. chat[u] \in Seq(Message)
      BY <1>1 DEF IInv, Types
    <3>2. chat[u][k] \in Message
      BY <2>3, <3>1, LenProperties, ElementOfSeq
    <3>3. chat[u][k].row \in DOMAIN rows
      BY <1>1 DEF IInv, Delivered
    <3> QED BY <3>2, <3>3 DEF Message
  <2> QED BY <2>1, <2>2, <2>3 DEF DeliveryTypeOK
<1> QED BY <1>1, DeliveryInvariance, PTL

\* The message that Shown reads is that of the first delivery.
LEMMA ShownIs ==
  ASSUME IInv, NEW r, NEW u, Sent(r, u) # {}
  PROVE  \E k \in Sent(r, u) : First(k) /\ Shown(r, u) = chat[u][jobs[k].message].text
<1> DEFINE sent == Sent(r, u)
           first == CHOOSE k \in sent : \A n \in sent : jobs[k].at <= jobs[n].at
<1>1. \E k \in sent : \A n \in sent : jobs[k].at <= jobs[n].at
  BY FirstExists
<1>2. first \in sent /\ \A n \in sent : jobs[first].at <= jobs[n].at
  BY <1>1
<1>3. Shown(r, u) = chat[u][jobs[first].message].text
  BY DEF Shown
<1> HIDE DEF first
<1>4. First(first)
  BY <1>2 DEF First, Sent
<1> QED BY <1>2, <1>3, <1>4

\* Across restarts, retries, lost answers and the cleanup: the closing word of a
\* signal that was recorded as sent is what the first message shows.
THEOREM ClosingWord == DeliverySpec => []ClosingIsShown
<1>1. ASSUME IInv PROVE ClosingIsShown
  <2>1. SUFFICES ASSUME NEW r \in DOMAIN rows, NEW u \in User,
                        rows[r].state = "COOLDOWN",
                        jobs[[row |-> r, user |-> u, stage |-> "COOLDOWN"]].status = "SENT",
                        Sent(r, u) # {}
                 PROVE  Shown(r, u) = "COOLDOWN"
    BY DEF ClosingIsShown
  <2>2. PICK k \in Sent(r, u) : First(k) /\ Shown(r, u) = chat[u][jobs[k].message].text
    BY <1>1, <2>1, ShownIs
  <2> DEFINE i == [row |-> r, user |-> u, stage |-> "COOLDOWN"]
  <2>3. i.row = r /\ i.user = u /\ i.stage = "COOLDOWN"
    OBVIOUS
  <2>4. i \in JobId
    <3>1. r \in 1..MaxRow
      BY <1>1, RowTypes, BoundAssumption DEF IInv
    <3>2. "COOLDOWN" \in Announced
      BY DEF Announced, State
    <3> QED BY <3>1, <3>2 DEF JobId
  <2>5. k \in JobId /\ k.row = r /\ k.user = u
    BY <2>2 DEF Sent
  <2>6. Alike(i, k) /\ Fulfilled(i) /\ Lasting(i)
    BY <2>1, <2>3, <2>5 DEF Alike, Fulfilled, Lasting
  <2> HIDE DEF i
  <2> QED BY <1>1, <2>1, <2>2, <2>3, <2>4, <2>5, <2>6 DEF IInv, Told
<1> QED BY <1>1, DeliveryInvariance, PTL

\* Until the process first dies, a message shows the present stage of its signal
\* once nothing is left to deliver and nothing was given up.
THEOREM ChatsSettle == DeliverySpec => [](crashes = 0 => ChatSettles)
<1>1. ASSUME IInv, crashes = 0 PROVE ChatSettles
  <2>1. SUFFICES ASSUME NEW r \in DOMAIN rows, NEW u \in User,
                        NEW i \in JobId, i.row = r, i.user = u, Exists(i),
                        \A n \in JobId : n.row = r /\ n.user = u /\ Exists(n) =>
                          ~Unfinished(n) /\ jobs[n].error \in {"none", "unchanged"}
                 PROVE  Shown(r, u) = rows[r].state
    BY DEF ChatSettles
  <2>2. crashes = 0
    BY <1>1
  <2>3. \A n \in JobId : n.row = r /\ n.user = u /\ Exists(n) =>
          /\ Fulfilled(n)
          /\ jobs[n].status = "SENT" \/ Sent(r, u) # {}
    BY <1>1, <2>1 DEF IInv, Types, Job, Queue, Accounts, Unfinished, Exists, Fulfilled
  <2>4. PICK l \in JobId : l = Last(i) /\ Exists(l)
    BY <1>1, <2>1, <2>2 DEF IInv, JobsFollow
  <2>5. l.row = r /\ l.user = u /\ Lasting(l)
    <3>1. i = [row |-> i.row, user |-> i.user, stage |-> i.stage]
      BY Ids
    <3>2. l = [row |-> i.row, user |-> i.user, stage |-> rows[r].state]
      BY <2>1, <2>4, <3>1 DEF Last
    <3> QED BY <2>1, <2>2, <3>2 DEF Lasting
  <2>6. Sent(r, u) # {}
    <3>1. PICK k \in JobId : Alike(i, k) /\ k.stage \in Threads /\ Exists(k)
      BY <1>1, <2>1, <2>2 DEF IInv, JobsFollow
    <3> QED BY <2>1, <2>3, <3>1 DEF Alike, Sent
  <2>7. PICK k \in Sent(r, u) : First(k) /\ Shown(r, u) = chat[u][jobs[k].message].text
    BY <1>1, <2>6, ShownIs
  <2>8. k \in JobId /\ Alike(l, k) /\ k.user = u
    BY <2>5, <2>7 DEF Sent, Alike
  <2> QED BY <1>1, <2>3, <2>4, <2>5, <2>7, <2>8 DEF IInv, Told
<1> QED BY <1>1, DeliveryInvariance, PTL

\* As long as the process does not die, no second message of a signal appears
\* once the first one is recorded, whatever the interleaving.
THEOREM OneMessage ==
  ASSUME MaxCrash = 0
  PROVE  DeliverySpec => OneThread
<1>1. ASSUME IInv, [DeliveryNext]_vars, NEW r \in 1..MaxRow, NEW u \in User, Sent(r, u) # {}
      PROVE  MessagesOf(r, u)' = MessagesOf(r, u)
  <2>1. crashes = 0
    BY <1>1 DEF IInv, Types
  <2>2. CASE worker.phase = "prepared" /\ Shows
    <3>0. PICK i, text, target :
            i = worker.job /\ text = worker.text /\ target = worker.target
      OBVIOUS
    <3> DEFINE new == [row |-> i.row, text |-> text, gone |-> FALSE]
    <3>1. /\ i \in JobId /\ i.user \in User /\ i.row \in 1..MaxRow
          /\ chat[i.user] \in Seq(Message)
          /\ DOMAIN chat[i.user] = 1..Len(chat[i.user]) /\ Len(chat[i.user]) \in Nat
      BY <1>1, <2>2, <3>0, Hands
    <3>2. chat \in [User -> Seq(Message)] /\ text \in State
      BY <1>1, <2>2, <3>0 DEF IInv, Types, Workers
    <3>3. new \in Message /\ new.row = i.row
      BY <3>1, <3>2 DEF Message
    <3> HIDE DEF new
    <3>4. /\ chat'[i.user] = IF target = 0 THEN Append(chat[i.user], new)
                             ELSE [chat[i.user] EXCEPT ![target] = new]
          /\ \A v \in User : v # i.user => chat'[v] = chat[v]
      <4>1. chat' = [chat EXCEPT ![i.user] = IF target = 0 THEN Append(@, new)
                                             ELSE [@ EXCEPT ![target] = new]]
        BY <2>2, <3>0 DEF Shows, new
      <4> QED BY <3>1, <3>2, <4>1
    <3>5. CASE u # i.user
      BY <3>4, <3>5 DEF MessagesOf
    <3>6. CASE u = i.user /\ target # 0
      <4>1. PICK k \in JobId : Alike(i, k) /\ First(k) /\ target = jobs[k].message
        BY <1>1, <2>2, <3>0, <3>6 DEF IInv, Knows, Edits
      <4>2. target \in DOMAIN chat[i.user] /\ chat[i.user][target].row = i.row
        BY <1>1, <4>1 DEF First, Sent, Alike, IInv, Delivered, Placed
      <4>3. chat'[i.user] = [chat[i.user] EXCEPT ![target] = new]
        BY <3>4, <3>6
      <4>4. DOMAIN chat'[i.user] = DOMAIN chat[i.user]
            /\ \A m \in DOMAIN chat[i.user] : chat'[i.user][m].row = chat[i.user][m].row
        BY <3>3, <4>2, <4>3
      <4> QED BY <3>6, <4>4 DEF MessagesOf
    <3>7. CASE u = i.user /\ target = 0
      <4>1. Starts(i)
        <5>1. SUFFICES ASSUME Edits(i, 0) PROVE FALSE
          BY <1>1, <2>2, <3>0, <3>7 DEF IInv, Knows
        <5>2. PICK k \in JobId : Alike(i, k) /\ First(k) /\ 0 = jobs[k].message
          BY <5>1 DEF Edits
        <5>3. 0 \in DOMAIN chat[i.user]
          BY <1>1, <5>2 DEF First, Sent, Alike, IInv, Delivered, Placed
        <5> QED BY <3>1, <5>3
      <4>2. Sent(i.row, i.user) = {}
        BY <1>1, <2>1, <2>2, <3>0, <4>1, StartsFirst DEF Starts
      <4>3. i.row # r
        BY <1>1, <3>7, <4>2
      <4>4. chat'[i.user] = Append(chat[i.user], new)
        BY <3>4, <3>7
      <4>5. /\ Len(chat'[i.user]) = Len(chat[i.user]) + 1
            /\ chat'[i.user] \in Seq(Message)
            /\ chat'[i.user][Len(chat[i.user]) + 1].row # r
            /\ \A m \in 1..Len(chat[i.user]) : chat'[i.user][m] = chat[i.user][m]
        BY <3>1, <3>3, <4>3, <4>4, AppendProperties
      <4>6. DOMAIN chat'[i.user] = 1..(Len(chat[i.user]) + 1)
        BY <4>5, LenProperties
      <4>7. \A m \in DOMAIN chat'[i.user] :
              m \in DOMAIN chat[i.user] \/ m = Len(chat[i.user]) + 1
        BY <3>1, <4>6
      <4>8. DOMAIN chat[i.user] \subseteq DOMAIN chat'[i.user]
        BY <3>1, <4>6
      <4> QED BY <3>1, <3>7, <4>5, <4>7, <4>8 DEF MessagesOf
    <3> QED BY <3>5, <3>6, <3>7
  <2>3. ASSUME NEW c \in JobId, CleanUp(c)
        PROVE  MessagesOf(r, u)' = MessagesOf(r, u)
    <3>1. PICK v, m : v = c.user /\ m = jobs[c].message
      OBVIOUS
    <3>2. chat' = [chat EXCEPT ![v][m].gone = TRUE] \/ chat' = chat
      BY <2>3, <3>1 DEF CleanUp
    <3>3. CASE chat' = chat
      BY <3>3 DEF MessagesOf
    <3>4. CASE chat' = [chat EXCEPT ![v][m].gone = TRUE]
      <4>1. chat \in [User -> Seq(Message)]
        BY <1>1 DEF IInv, Types
      <4>2. DOMAIN chat'[u] = DOMAIN chat[u]
        BY <3>4, <4>1
      <4>3. \A n \in DOMAIN chat[u] : chat'[u][n].row = chat[u][n].row
        <5>1. \A n \in DOMAIN chat[u] : chat[u][n] \in Message
          BY <4>1, LenProperties, ElementOfSeq
        <5> QED BY <3>4, <4>1, <5>1
      <4> QED BY <4>2, <4>3 DEF MessagesOf
    <3> QED BY <3>2, <3>3, <3>4
  <2>4. CASE chat' = chat
    BY <2>4 DEF MessagesOf
  <2>5. \/ worker.phase = "prepared" /\ Shows
        \/ \E c \in JobId : CleanUp(c)
        \/ chat' = chat
    BY <1>1 DEF DeliveryNext, Transition, FanOut, Work, Claim, Prepare, Deliver, LoseAnswer,
                RefuseUnchanged, Refuse, Finish, Sleep, Crash, vars
  <2> QED BY <2>2, <2>3, <2>4, <2>5
<1>2. IInv /\ [DeliveryNext]_vars =>
        [\A r \in 1..MaxRow, u \in User :
           Sent(r, u) # {} => MessagesOf(r, u)' = MessagesOf(r, u)]_vars
  BY <1>1
<1> QED BY <1>2, DeliveryInvariance, PTL DEF DeliverySpec, OneThread

=============================================================================

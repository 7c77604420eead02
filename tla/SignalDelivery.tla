---------------------------- MODULE SignalDelivery ----------------------------
(***************************************************************************)
(* From a transition of the signal state machine to a message in a chat:   *)
(* storage/repositories.py (persist_transition) and                        *)
(* telegram/notifications.py (TransitionFanout, DeliveryWorker and         *)
(* DeliveryCleanupWorker), with Telegram and the death of the process      *)
(* around them.                                                            *)
(*                                                                         *)
(* The scanner's lifecycles are those of SignalLifecycle, kept in memory;  *)
(* the signals and deliveries tables survive a restart.  A message's text  *)
(* is the stage it shows.  Whom a signal is meant for (preferences, score, *)
(* direction, status) is any set of users, asked again each time.          *)
(***************************************************************************)
EXTENDS SignalLifecycle, Sequences, FiniteSets

CONSTANTS
  User,
  Shadow,       \* early.shadow_mode: EARLY is recorded but not announced
  MaxRetry,     \* 5: a delivery is given up after this many retries
  Moves,        \* bound of the model: the directions the market moves in
  MaxRow,       \* bound of the model: rows of the signals table
  MaxFault,     \* bound of the model: calls Telegram fails or leaves unanswered
  MaxCleanup,   \* bound of the model: deliveries cleaned up
  MaxCrash      \* bound of the model: deaths of the process

ASSUME RetryAssumption == MaxRetry \in Nat

ASSUME BoundAssumption ==
  /\ Moves \subseteq Direction
  /\ MaxRow \in Nat /\ MaxFault \in Nat /\ MaxCleanup \in Nat /\ MaxCrash \in Nat

ASSUME ShadowAssumption == Shadow \in BOOLEAN

VARIABLES
  rows,         \* signals: a sequence of [symbol, direction, state, active]
  jobs,         \* deliveries: [JobId -> Job], status NONE while not a row
  worker,       \* the locals of DeliveryWorker._deliver
  chat,         \* the bot's messages in each user's chat, oldest first:
                \* [row, text, gone], the text being what it showed last
  faults,
  crashes,
  cleanups

vars == <<stage, rows, jobs, worker, chat, faults, crashes, cleanups>>

-----------------------------------------------------------------------------

Announced == State \ {"NORMAL", "CANDIDATE"}

\* The stages whose message later stages edit.
Threads == {"EARLY", "WATCH"}

\* (signal_id, user_id, stage) is unique.
JobId == [row: 1..MaxRow, user: User, stage: Announced]

\* at orders the rows by created_at, which all rows of one transaction share.
Job ==
  [action: {"SEND", "EDIT"},
   status: {"NONE", "PENDING", "PROCESSING", "SENT", "FAILED"},
   retries: 0..(MaxRetry + 1), error: {"none", "unchanged", "refused", "forbidden"},
   message: Nat, deleted: BOOLEAN, at: Nat]

NoJob ==
  [action |-> "SEND", status |-> "NONE", retries |-> 0, error |-> "none",
   message |-> 0, deleted |-> FALSE, at |-> 0]

Idle == [phase |-> "idle"]

Exists(i) == jobs[i].status # "NONE"

Waiting == {i \in JobId : jobs[i].status = "PENDING"}

Unfinished(i) == jobs[i].status \in {"PENDING", "PROCESSING"}

-----------------------------------------------------------------------------
(* The scanner: one transition, persisted and fanned out in one database   *)
(* transaction.                                                            *)

ActiveRows(s, d) ==
  {r \in DOMAIN rows : rows[r].symbol = s /\ rows[r].direction = d /\ rows[r].active}

RowActive(state) == state # "COOLDOWN"

\* The row a transition is recorded in: the active one, or a new one.
RowOf(s, d) ==
  IF ActiveRows(s, d) = {} THEN Len(rows) + 1 ELSE CHOOSE r \in ActiveRows(s, d) : TRUE

Persisted(s, d, state) ==
  LET row == [symbol |-> s, direction |-> d, state |-> state, active |-> RowActive(state)]
      r   == RowOf(s, d)
  IN IF r \in DOMAIN rows THEN [rows EXCEPT ![r] = row] ELSE Append(rows, row)

\* Faulty: only users whose first message arrived follow the signal.
ExistingSent(r) ==
  {u \in User : \E st \in Threads :
     jobs[[row |-> r, user |-> u, stage |-> st]].status = "SENT"}

Existing(r) ==
  {u \in User : \E st \in Threads : Exists([row |-> r, user |-> u, stage |-> st])}

\* Whom a transition addresses, and how; nobody for NORMAL and CANDIDATE.
Calls(r, state) ==
  CASE state \in {"NORMAL", "CANDIDATE"} -> {[users |-> {}, action |-> "EDIT"]}
    [] state = "EARLY" ->
         [users: IF Shadow THEN {{}} ELSE SUBSET User, action: {"SEND"}]
    [] state = "WATCH" /\ Existing(r) = {} -> [users: SUBSET User, action: {"SEND"}]
    [] OTHER -> {[users |-> Existing(r), action |-> "EDIT"]}

\* Rows created by a later transaction carry a later created_at.
Stamp == Cardinality({jobs[i].at : i \in JobId})

Enqueued(r, state, call) ==
  [i \in JobId |->
     IF i.row = r /\ i.stage = state /\ i.user \in call.users /\ ~Exists(i)
     THEN [NoJob EXCEPT !.action = call.action, !.status = "PENDING", !.at = Stamp]
     ELSE jobs[i]]

FanOut(s, d) ==
  LET state == stage'[s][d]
      r     == RowOf(s, d)
  IN /\ r <= MaxRow
     /\ rows' = Persisted(s, d, state)
     /\ \E call \in Calls(r, state) : jobs' = Enqueued(r, state, call)
     /\ UNCHANGED <<worker, chat, faults, crashes, cleanups>>

Transition(s, d) ==
  /\ Open(s, d) \/ Promote(s, d) \/ Close(s, d) \/ Settle(s, d) \/ Rearm(s, d)
  /\ FanOut(s, d)

-----------------------------------------------------------------------------
(* The delivery worker.                                                    *)

\* Faulty: the newest delivery first.
Newest(i) == \A k \in Waiting : jobs[i].at >= jobs[k].at

Oldest(i) == \A k \in Waiting : jobs[i].at <= jobs[k].at

Claim(i) ==
  /\ worker.phase = "idle"
  /\ i \in Waiting
  /\ Oldest(i)
  /\ jobs' = [jobs EXCEPT ![i].status = "PROCESSING"]
  /\ worker' = [phase |-> "claimed", job |-> i]
  /\ UNCHANGED <<stage, rows, chat, faults, crashes, cleanups>>

\* The deliveries whose message the job may edit: the first one counts.
Sent(row, user) ==
  {i \in JobId : i.row = row /\ i.user = user /\ i.stage \in Threads
                   /\ jobs[i].status = "SENT"}

\* Faulty: the message of the WATCH delivery alone is edited.
WatchTarget(i) ==
  LET w == [i EXCEPT !.stage = "WATCH"]
  IN IF jobs[i].action = "EDIT" /\ jobs[w].status = "SENT" THEN jobs[w].message ELSE 0

\* The message an EDIT goes to, 0 when there is none and it is sent anew.
Target(i) ==
  LET sent == Sent(i.row, i.user)
  IN IF jobs[i].action = "SEND" \/ sent = {} THEN 0
     ELSE jobs[CHOOSE k \in sent : \A n \in sent : jobs[k].at <= jobs[n].at].message

\* The text is that of the row as it is now, not of the delivery's stage.
Prepare ==
  /\ worker.phase = "claimed"
  /\ worker' = [phase |-> "prepared", job |-> worker.job,
                text |-> rows[worker.job.row].state, target |-> Target(worker.job)]
  /\ UNCHANGED <<stage, rows, jobs, chat, faults, crashes, cleanups>>

\* What the worker learns of its call.
Answered(outcome, message) ==
  worker' = [phase |-> "answered", job |-> worker.job, outcome |-> outcome,
             message |-> message]

Fault == faults < MaxFault /\ faults' = faults + 1

Edited == chat[worker.job.user][worker.target]

Unchanged == worker.target # 0 /\ ~Edited.gone /\ Edited.text = worker.text

\* The message to edit was cleaned up.
Missing == worker.target # 0 /\ Edited.gone

\* Telegram edits the message, or sends a new one.
Shows ==
  LET u   == worker.job.user
      new == [row |-> worker.job.row, text |-> worker.text, gone |-> FALSE]
  IN chat' = [chat EXCEPT ![u] = IF worker.target = 0 THEN Append(@, new)
                                 ELSE [@ EXCEPT ![worker.target] = new]]

Deliver ==
  /\ worker.phase = "prepared"
  /\ ~Unchanged /\ ~Missing
  /\ Shows
  /\ Answered("sent", IF worker.target = 0 THEN Len(chat[worker.job.user]) + 1
                      ELSE worker.target)
  /\ UNCHANGED <<stage, rows, jobs, faults, crashes, cleanups>>

\* The message is there, but the answer is lost or cannot be recorded.
LoseAnswer ==
  /\ worker.phase = "prepared"
  /\ ~Unchanged /\ ~Missing
  /\ Fault
  /\ Shows
  /\ Answered("refused", 0)
  /\ UNCHANGED <<stage, rows, jobs, crashes, cleanups>>

\* Faulty: an edit of a message that is gone is taken for done.
MissingIsDone ==
  /\ worker.phase = "prepared"
  /\ \/ Unchanged /\ Answered("unchanged", 0)
     \/ Missing /\ Answered("sent", worker.target)
  /\ UNCHANGED <<stage, rows, jobs, chat, faults, crashes, cleanups>>

\* An edit that changes nothing is a bad request, as is one of no message: the
\* query for the target does not ask whether it was deleted.
RefuseUnchanged ==
  /\ worker.phase = "prepared"
  /\ \/ Unchanged /\ Answered("unchanged", 0)
     \/ Missing /\ Answered("refused", 0)
  /\ UNCHANGED <<stage, rows, jobs, chat, faults, crashes, cleanups>>

\* A rate limit or an error, or a user who blocked the bot.
Refuse ==
  /\ worker.phase = "prepared"
  /\ Fault
  /\ \E outcome \in {"refused", "forbidden"} : Answered(outcome, 0)
  /\ UNCHANGED <<stage, rows, jobs, chat, crashes, cleanups>>

\* Faulty: one retry too many.
RetriedOnceMore(job, error) ==
  [job EXCEPT !.retries = @ + 1, !.error = error,
              !.status = IF job.retries <= MaxRetry THEN "PENDING" ELSE "FAILED"]

\* Faulty: a delivery is retried for ever.
RetriedForever(job, error) == [job EXCEPT !.error = error, !.status = "PENDING"]

Retried(job, error) ==
  [job EXCEPT !.retries = @ + 1, !.error = error,
              !.status = IF job.retries + 1 <= MaxRetry THEN "PENDING" ELSE "FAILED"]

Settled(job) ==
  CASE worker.outcome = "sent" ->
         [job EXCEPT !.status = "SENT", !.error = "none", !.message = worker.message]
    [] worker.outcome = "forbidden" ->
         [job EXCEPT !.status = "FAILED", !.error = "forbidden"]
    [] OTHER -> Retried(job, worker.outcome)

Finish ==
  /\ worker.phase = "answered"
  /\ jobs' = [jobs EXCEPT ![worker.job] = Settled(@)]
  /\ worker' = Idle
  /\ UNCHANGED <<stage, rows, chat, faults, crashes, cleanups>>

\* Nothing to claim: the worker sleeps half a second.
Sleep ==
  /\ worker.phase = "idle"
  /\ Waiting = {}
  /\ UNCHANGED vars

Work ==
  \/ \E i \in JobId : Claim(i)
  \/ Prepare
  \/ Deliver \/ LoseAnswer \/ RefuseUnchanged \/ Refuse
  \/ Finish

-----------------------------------------------------------------------------
(* The cleanup worker, 47 hours after a delivery: time is left out.        *)

Kept == {i \in JobId : jobs[i].status = "SENT" /\ ~jobs[i].deleted}

\* The delivery that is due first: they are sent in the order of created_at.
\* Telegram deletes the message, which may be gone already, or will not; either
\* way the delivery counts as deleted.  A death between the call and the commit
\* only makes the cleanup delete it again.
CleanUp(i) ==
  /\ cleanups < MaxCleanup
  /\ i \in Kept /\ \A k \in Kept : jobs[i].at <= jobs[k].at
  /\ cleanups' = cleanups + 1
  /\ jobs' = [jobs EXCEPT ![i].deleted = TRUE]
  /\ \/ chat' = [chat EXCEPT ![i.user][jobs[i].message].gone = TRUE]
     \/ UNCHANGED chat
  /\ UNCHANGED <<stage, rows, worker, faults, crashes>>

-----------------------------------------------------------------------------

\* The process dies and is started again: what was in memory is gone.
Crash ==
  /\ crashes < MaxCrash
  /\ crashes' = crashes + 1
  /\ stage' = [s \in Symbol |-> [d \in Direction |-> "NORMAL"]]
  /\ worker' = Idle
  /\ UNCHANGED <<rows, jobs, chat, faults, cleanups>>

DeliveryInit ==
  /\ Init
  /\ rows = <<>>
  /\ jobs = [i \in JobId |-> NoJob]
  /\ worker = Idle
  /\ chat = [u \in User |-> <<>>]
  /\ faults = 0
  /\ crashes = 0
  /\ cleanups = 0

DeliveryNext ==
  \/ \E s \in Symbol, d \in Moves : Transition(s, d)
  \/ Work
  \/ Sleep
  \/ \E i \in JobId : CleanUp(i)
  \/ Crash

\* The worker is a task of a running event loop; the market owes nothing.
DeliverySpec == DeliveryInit /\ [][DeliveryNext]_vars /\ WF_vars(Work)

-----------------------------------------------------------------------------
(* Properties.                                                             *)

\* The tables, the worker's locals and the chats have their types.
DeliveryTypeOK ==
  /\ TypeOK
  /\ rows \in Seq([symbol: Symbol, direction: Direction, state: State, active: BOOLEAN])
  /\ jobs \in [JobId -> Job]
  /\ worker.phase \in {"idle", "claimed", "prepared", "answered"}
  /\ worker.phase # "idle" => worker.job \in JobId
  /\ \A u \in User : \A k \in DOMAIN chat[u] :
       chat[u][k] \in [row: DOMAIN rows, text: State, gone: BOOLEAN]
  /\ cleanups \in 0..MaxCleanup

MessagesOf(r, u) == {k \in DOMAIN chat[u] : chat[u][k].row = r}

\* Once the first message of a signal is recorded for a user, everything later
\* about that signal edits it: no second message appears, in whatever order
\* transitions, retries and lost answers interleave with the worker.
OneThread ==
  [][\A r \in 1..MaxRow, u \in User :
       Sent(r, u) # {} => MessagesOf(r, u)' = MessagesOf(r, u)]_vars

\* What the message of the first delivery of row r that reached user u shows, or
\* showed last when it was cleaned up.
Shown(r, u) ==
  LET sent == Sent(r, u)
      first == CHOOSE k \in sent : \A n \in sent : jobs[k].at <= jobs[n].at
  IN IF sent = {} THEN "NORMAL" ELSE chat[u][jobs[first].message].text

\* When nothing is left to deliver to a user for a signal, and Telegram gave
\* up on nothing but edits without effect, the message shows the signal's
\* present stage, or did when it was cleaned up: a text read before the wait for
\* the chat's rate and sent after the next transition is always put right.
ChatSettles ==
  \A r \in DOMAIN rows, u \in User :
    LET mine == {i \in JobId : i.row = r /\ i.user = u /\ Exists(i)}
    IN mine # {} /\ (\A i \in mine : ~Unfinished(i)
                                      /\ jobs[i].error \in {"none", "unchanged"})
         => Shown(r, u) = rows[r].state

\* Whatever restarts left of a signal's story, its closing word gets through: a
\* COOLDOWN counts as delivered only when the message of the first delivery has
\* shown it.  An edit that found its message cleaned up is never taken for
\* delivered: the message went on showing what it did before.
ClosingIsShown ==
  \A r \in DOMAIN rows, u \in User :
    /\ rows[r].state = "COOLDOWN"
    /\ jobs[[row |-> r, user |-> u, stage |-> "COOLDOWN"]].status = "SENT"
    /\ Sent(r, u) # {}
    => Shown(r, u) = "COOLDOWN"

\* Every delivery is eventually sent or given up: whenever some are waiting or
\* under way, there comes a time when none is.
EveryDeliveryEnds ==
  (\E i \in JobId : Unfinished(i)) ~> (\A i \in JobId : ~Unfinished(i))

=============================================================================

------------------------------ MODULE Onboarding ------------------------------
(***************************************************************************)
(* Who gets in, and how often: an invite code redeemed by the handlers of  *)
(* /start (onboarding/), and the one-time links behind which the Mini App  *)
(* takes the keys of an exchange account (webapp/).  Both count in one     *)
(* place what several handlers do at once.                                 *)
(***************************************************************************)
EXTENDS Integers, FiniteSets

CONSTANTS
  Person,       \* Telegram users
  Admin,        \* those who need no invite
  Visit,        \* handlers of /start that may run at once
  Link,         \* links that may be made
  Post,         \* requests to the Mini App that may run at once
  MaxUses,      \* uses of the invite code
  MaxRestart    \* bound of the model: restarts of the process

ASSUME PersonAssumption == IsFiniteSet(Person) /\ Admin \subseteq Person

ASSUME UsesAssumption == MaxUses \in Nat /\ MaxRestart \in Nat

VARIABLES
  invite,       \* the row of the code: its uses, and whether it has ended
  member,       \* the rows of users
  guests,       \* history: who was let in by the code
  visit,        \* [Visit -> ...]: the locals of start
  link,         \* [Link -> ...]: _sessions, and whose they are
  post,         \* [Post -> ...]: the locals of connect_account
  connects,     \* history: [Link -> accounts stored through it]
  restarts

onboardingVars == <<invite, member, guests, visit, link, post, connects, restarts>>

NoVisit == [phase |-> "idle", who |-> {}, used |-> 0]

NoPost == [phase |-> "idle", through |-> {}]

OnboardingInit ==
  /\ invite = [used |-> 0, ended |-> FALSE]
  /\ member = {} /\ guests = {}
  /\ visit = [v \in Visit |-> NoVisit]
  /\ link = [k \in Link |-> [state |-> "none", of |-> {}]]
  /\ post = [r \in Post |-> NoPost]
  /\ connects = [k \in Link |-> 0]
  /\ restarts = 0

-----------------------------------------------------------------------------
(* /start.                                                                 *)

\* The user is not known; a known one is only given the new chat.
Arrives(v, p) ==
  /\ visit[v] = NoVisit /\ p \notin member
  /\ visit' = [visit EXCEPT ![v] =
       [NoVisit EXCEPT !.phase = IF p \in Admin THEN "register" ELSE "redeem",
                       !.who = {p}]]
  /\ UNCHANGED <<invite, member, guests, link, post, connects, restarts>>

\* Faulty: the row of the code is not locked.
NoRowLock == TRUE

\* SELECT ... FOR UPDATE: another handler's redemption has committed.
RowUnlocked == \A v \in Visit : visit[v].phase = "register" => visit[v].who \subseteq Admin

\* redeem: the use is written with the user, in one transaction.
Redeem(v) ==
  /\ visit[v].phase = "redeem" /\ RowUnlocked
  /\ visit' = [visit EXCEPT ![v] =
       IF invite.ended \/ invite.used >= MaxUses THEN NoVisit
       ELSE [@ EXCEPT !.phase = "register", !.used = invite.used + 1]]
  /\ UNCHANGED <<invite, member, guests, link, post, connects, restarts>>

\* get_or_create looks for the user again, then all is committed.  For an admin
\* another handler's row is found or breaks a unique key.
Register(v) ==
  LET t == visit[v]
      guest == t.who \ Admin
  IN /\ t.phase = "register"
     /\ visit' = [visit EXCEPT ![v] = NoVisit]
     /\ member' = member \cup t.who
     /\ guests' = guests \cup (guest \ member)
     /\ invite' = IF guest = {} THEN invite ELSE [invite EXCEPT !.used = t.used]
     /\ UNCHANGED <<link, post, connects, restarts>>

\* The code expires, or is disabled.
InviteEnds ==
  /\ ~invite.ended
  /\ invite' = [invite EXCEPT !.ended = TRUE]
  /\ UNCHANGED <<member, guests, visit, link, post, connects, restarts>>

-----------------------------------------------------------------------------
(* Links and requests.                                                     *)

\* create: any panel with a Binance button makes one, for whoever asks.
Offer(k, p) ==
  /\ link[k].state = "none"
  /\ link' = [link EXCEPT ![k] = [state |-> "live", of |-> {p}]]
  /\ UNCHANGED <<invite, member, guests, visit, post, connects, restarts>>

\* Its ttl is over; _purge forgets it.
Expire(k) ==
  /\ link[k].state = "live"
  /\ link' = [link EXCEPT ![k].state = "gone"]
  /\ UNCHANGED <<invite, member, guests, visit, post, connects, restarts>>

\* Faulty: _validate does not look at used.
UsableOnce(k) == link[k].state \in {"live", "used"}

Usable(k) == link[k].state = "live"

\* connect_account validates the link and asks Binance about the keys.
Submit(r, k) ==
  /\ post[r] = NoPost /\ Usable(k)
  /\ post' = [post EXCEPT ![r] = [phase |-> "verify", through |-> {k}]]
  /\ UNCHANGED <<invite, member, guests, visit, link, connects, restarts>>

\* Binance refuses the keys, which leaves the link usable.
Refuse(r) ==
  /\ post[r].phase = "verify"
  /\ post' = [post EXCEPT ![r] = NoPost]
  /\ UNCHANGED <<invite, member, guests, visit, link, connects, restarts>>

\* Binance accepts the keys: the link is validated again, and used up.
Consume(r, k) ==
  /\ post[r] = [phase |-> "verify", through |-> {k}]
  /\ IF Usable(k)
     THEN /\ link' = [link EXCEPT ![k].state = "used"]
          /\ post' = [post EXCEPT ![r].phase = "store"]
     ELSE /\ UNCHANGED link
          /\ post' = [post EXCEPT ![r] = NoPost]
  /\ UNCHANGED <<invite, member, guests, visit, connects, restarts>>

\* The transaction: without a user, or if it fails, nothing is stored.
StoreAccount(r, k) ==
  /\ post[r] = [phase |-> "store", through |-> {k}]
  /\ post' = [post EXCEPT ![r] = NoPost]
  /\ \/ link[k].of \subseteq member /\ connects' = [connects EXCEPT ![k] = @ + 1]
     \/ UNCHANGED connects
  /\ UNCHANGED <<invite, member, guests, visit, link, restarts>>

\* Links are kept in memory only; open transactions are rolled back.
LinksLost ==
  /\ restarts < MaxRestart
  /\ restarts' = restarts + 1
  /\ link' = [k \in Link |->
                IF link[k].state = "none" THEN link[k] ELSE [link[k] EXCEPT !.state = "gone"]]
  /\ post' = [r \in Post |-> NoPost]
  /\ visit' = [v \in Visit |-> NoVisit]
  /\ UNCHANGED <<invite, member, guests, connects>>

OnboardingNext ==
  \/ \E v \in Visit : Redeem(v) \/ Register(v) \/ \E p \in Person : Arrives(v, p)
  \/ InviteEnds
  \/ \E k \in Link : Expire(k) \/ \E p \in Person : Offer(k, p)
  \/ \E r \in Post : Refuse(r) \/ \E k \in Link :
                       Submit(r, k) \/ Consume(r, k) \/ StoreAccount(r, k)
  \/ LinksLost

OnboardingSpec == OnboardingInit /\ [][OnboardingNext]_onboardingVars

-----------------------------------------------------------------------------
(* Properties.                                                             *)

OnboardingTypeOK ==
  /\ invite \in [used: 0..MaxUses, ended: BOOLEAN]
  /\ guests \subseteq member /\ member \subseteq Person
  /\ \A v \in Visit : /\ visit[v].phase \in {"idle", "redeem", "register"}
                      /\ visit[v].who \subseteq Person /\ visit[v].used \in 0..MaxUses
  /\ \A k \in Link : /\ link[k].state \in {"none", "live", "used", "gone"}
                     /\ link[k].of \subseteq Person
  /\ \A r \in Post : /\ post[r].phase \in {"idle", "verify", "store"}
                     /\ post[r].through \subseteq Link
  /\ connects \in [Link -> Nat] /\ restarts \in 0..MaxRestart

\* A code lets in no more people than it was made for, however many open it at
\* once; each of them is counted (invites.py:62).
InviteCounted == Cardinality(guests) =< invite.used /\ invite.used =< MaxUses

\* One link stores one account at most, though several requests may pass the
\* first look at it while Binance is asked (webapp/app.py:105, 126).
OneConnectPerLink == \A k \in Link : connects[k] =< 1

=============================================================================

--------------------------------- MODULE StageB ---------------------------------
(***************************************************************************)
(* analytics/stage_b.py: the pool of symbols that get the expensive        *)
(* streams.  Every pass of the scan loop promotes the symbols Stage A      *)
(* selected, best first; a promoted symbol stays for a while after it was  *)
(* last selected, unless the pool overflows.                               *)
(*                                                                         *)
(* The pool is a dict, so its order is that of insertion and decides ties. *)
(* expires_at is modelled by the time left.                                *)
(***************************************************************************)
EXTENDS Naturals, SequencesExt

CONSTANTS
  Symbol,
  MaxCandidates,      \* scanner.max_deep_candidates
  Retention,          \* 180 s
  MaxChange           \* bound of the model: how often the selection changes

ASSUME PoolAssumption ==
  IsFiniteSet(Symbol) /\ MaxCandidates \in Nat /\ Retention \in Nat \ {0}

ASSUME BoundAssumption == MaxChange \in Nat

VARIABLES
  active,             \* _active: a sequence of [symbol, left, rank]
  eligible,           \* the symbols Stage A selects, best first
  idle,               \* history: the time since an update saw a symbol eligible
  changes

vars == <<active, eligible, idle, changes>>

Ranking == {q \in SeqOf(Symbol, Cardinality(Symbol)) : IsInjective(q)}

Symbols(pool) == {pool[k].symbol : k \in DOMAIN pool}

Rank(s) == CHOOSE k \in DOMAIN eligible : eligible[k] = s

Candidate(s) == [symbol |-> s, left |-> Retention, rank |-> Rank(s)]

\* What q holds at the positions S, none after one that order, a set of pairs of
\* positions, puts behind it.
Arranged(q, S, order) ==
  LET place == 1..Cardinality(S)
      at    == CHOOSE p \in [place -> S] :
                 \A m, n \in place : m < n => <<p[n], p[m]>> \notin order
  IN [n \in place |-> q[at[n]]]

\* The order of a dict and of a list.
AsStored == {o \in Nat \X Nat : o[1] <= o[2]}

\* Faulty: the symbols whose time is over stay until the pool overflows.
Everyone == DOMAIN active

Unexpired == {k \in DOMAIN active : active[k].left > 0}

\* Faulty: a symbol keeps the rank of its promotion.
RefreshedTime(item) == [item EXCEPT !.left = Retention]

Refreshed(item) == [item EXCEPT !.left = Retention, !.rank = Rank(item.symbol)]

\* The pool after the selection: those that stay, then the new ones.
Promoted ==
  LET seen == [k \in DOMAIN active |->
                 IF active[k].symbol \in ToSet(eligible)
                 THEN Refreshed(active[k]) ELSE active[k]]
      new  == {k \in DOMAIN eligible :
                 \A j \in Unexpired : active[j].symbol # eligible[k]}
  IN Arranged(seen, Unexpired, AsStored)
       \o Arranged([k \in DOMAIN eligible |-> Candidate(eligible[k])], new, AsStored)

\* sorted by last_rank; the sort is stable.
ByRank(pool) ==
  Arranged(pool, DOMAIN pool,
           {o \in (DOMAIN pool) \X (DOMAIN pool) :
              \/ pool[o[1]].rank < pool[o[2]].rank
              \/ pool[o[1]].rank = pool[o[2]].rank /\ o[1] <= o[2]})

\* Faulty: one symbol too many before the pool is cut.
CappedLate(pool) ==
  IF Len(pool) <= MaxCandidates + 1 THEN pool
  ELSE SubSeq(ByRank(pool), 1, MaxCandidates)

Capped(pool) ==
  IF Len(pool) <= MaxCandidates THEN pool
  ELSE SubSeq(ByRank(pool), 1, MaxCandidates)

-----------------------------------------------------------------------------

Init ==
  /\ active = <<>>
  /\ eligible = <<>>
  /\ idle = [s \in Symbol |-> Retention]
  /\ changes = 0

\* Stage A selects other symbols, or ranks them differently.
Select(ranking) ==
  /\ changes < MaxChange
  /\ changes' = changes + 1
  /\ eligible' = ranking
  /\ UNCHANGED <<active, idle>>

Update ==
  /\ \E pool \in {Promoted} : active' = Capped(pool)
  /\ idle' = [s \in Symbol |-> IF s \in ToSet(eligible) THEN 0 ELSE idle[s]]
  /\ UNCHANGED <<eligible, changes>>

Tick ==
  /\ active' = [k \in DOMAIN active |->
                  [active[k] EXCEPT !.left = IF @ > 0 THEN @ - 1 ELSE 0]]
  /\ idle' = [s \in Symbol |-> IF idle[s] < Retention THEN idle[s] + 1 ELSE Retention]
  /\ UNCHANGED <<eligible, changes>>

Next == Update \/ Tick \/ \E ranking \in Ranking : Select(ranking)

\* Time passes and the scan loop goes on.
Spec == Init /\ [][Next]_vars /\ WF_vars(Update) /\ WF_vars(Tick)

-----------------------------------------------------------------------------
(* Properties.                                                             *)

\* The pool holds each symbol once, and never more than it may.
TypeOK ==
  /\ active \in Seq([symbol: Symbol, left: 0..Retention, rank: 1..Cardinality(Symbol)])
  /\ Cardinality(Symbols(active)) = Len(active)
  /\ Len(active) <= MaxCandidates
  /\ eligible \in Ranking
  /\ idle \in [Symbol -> 0..Retention]
  /\ changes \in 0..MaxChange

\* No update leaves a symbol in the pool that was not selected for the whole
\* retention: its streams would be paid for without end.
NoneOverstays == [][Update => \A s \in Symbols(active)' : idle'[s] < Retention]_vars

\* The best of the selection, as many as the pool takes.
Best == {eligible[k] : k \in 1..MaxCandidates \cap DOMAIN eligible}

\* Once the selection is stable the pool is exactly its best part, whatever
\* remembered ranks of earlier selections stood in the way before.
FollowsSelection == <>[](Symbols(active) = Best)

=============================================================================

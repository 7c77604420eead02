------------------------ MODULE SignalLifecycle_proofs ------------------------
(***************************************************************************)
(* What downstream code may rely on, proved of the abstract lifecycle for  *)
(* any set of symbols; SignalFSM_proofs shows that advance implements it.  *)
(***************************************************************************)
EXTENDS SignalLifecycle, TLAPS

\* The inductive invariant: types and at most one active direction.
LInv == TypeOK /\ OneDirection

\* Every edge leads up the rank, or back to NORMAL from COOLDOWN.
LEMMA EdgesClimb ==
  ASSUME NEW from \in State, NEW to \in State,
         \/ from = "NORMAL" /\ to = "CANDIDATE"
         \/ to \in Promotions(from) \/ to \in Closings(from) \/ to \in Settlings(from)
  PROVE  Rank[to] > Rank[from]
<1>1. /\ Rank["NORMAL"] = 0 /\ Rank["CANDIDATE"] = 1 /\ Rank["EARLY"] = 2
      /\ Rank["WATCH"] = 3 /\ Rank["CONFIRMED"] = 4 /\ Rank["INVALIDATED"] = 5
      /\ Rank["TOO_LATE"] = 6 /\ Rank["COOLDOWN"] = 7
  BY DEF Rank, State
<1>2. /\ to \in Promotions(from) =>
           \/ from = "CANDIDATE" /\ to \in {"EARLY", "WATCH"}
           \/ from = "EARLY" /\ to = "WATCH"
           \/ from = "WATCH" /\ to = "CONFIRMED"
      /\ to \in Closings(from) =>
           from \in Active /\ to \in {"INVALIDATED", "TOO_LATE", "COOLDOWN"}
      /\ to \in Settlings(from) =>
           \/ from = "NORMAL" /\ to = "TOO_LATE"
           \/ from = "INVALIDATED" /\ to \in {"TOO_LATE", "COOLDOWN"}
           \/ from = "TOO_LATE" /\ to = "COOLDOWN"
  BY DEF Promotions, Closings, Settlings, Active
<1> QED BY <1>1, <1>2 DEF Active

\* A closing never leads to an active stage, and a promotion starts in one.
LEMMA EdgesFromActive ==
  ASSUME NEW from \in State, NEW to,
         to \in Promotions(from) \/ to \in Closings(from) \/ to \in Settlings(from)
  PROVE  /\ to \in State
         /\ to \in Active => from \in Active
  BY DEF Promotions, Closings, Settlings, Active, State

\* One step changes one stage, along an edge, and opens it only while the
\* other direction is not active.
LEMMA LInductive == LInv /\ [Next]_stage => LInv'
<1>1. ASSUME LInv, NEW s \in Symbol, NEW d \in Direction, NEW to \in State,
             Enter(s, d, to),
             to \in Active => \/ stage[s][d] \in Active
                              \/ stage[s][Opposite(d)] \notin Active
      PROVE  LInv'
  <2>1. TypeOK'
    BY <1>1 DEF LInv, TypeOK, Enter
  <2>2. OneDirection'
    BY <1>1 DEF LInv, TypeOK, OneDirection, Enter, Direction, Opposite
  <2> QED BY <2>1, <2>2 DEF LInv
<1>2. ASSUME LInv, NEW s \in Symbol, NEW d \in Direction,
             \/ Open(s, d) \/ Promote(s, d) \/ Close(s, d)
             \/ Settle(s, d) \/ Rearm(s, d)
      PROVE  LInv'
  <2>1. stage[s][d] \in State
    BY <1>2 DEF LInv, TypeOK
  <2>2. CASE Open(s, d)
    BY <1>1, <1>2, <2>2 DEF Open, State
  <2>3. CASE Promote(s, d) \/ Close(s, d) \/ Settle(s, d)
    BY <1>1, <1>2, <2>1, <2>3, EdgesFromActive DEF Promote, Close, Settle
  <2>4. CASE Rearm(s, d)
    BY <1>1, <1>2, <2>4 DEF Rearm, State, Active
  <2> QED BY <1>2, <2>2, <2>3, <2>4
<1>3. CASE LInv /\ Next
  BY <1>2, <1>3 DEF Next
<1>4. CASE LInv /\ UNCHANGED stage
  BY <1>4 DEF LInv, TypeOK, OneDirection
<1> QED BY <1>3, <1>4

\* The invariant holds in every reachable state.
THEOREM LifecycleInvariance == Spec => []LInv
<1>1. Init => LInv
  BY DEF Init, LInv, TypeOK, OneDirection, State, Direction, Active
<1> QED BY <1>1, LInductive, PTL DEF Spec

\* Two directions of one symbol are never active together.
THEOREM LifecycleOneDirection == Spec => []OneDirection
<1>1. LInv => OneDirection
  BY DEF LInv
<1> QED BY <1>1, LifecycleInvariance, PTL

\* No stage is entered twice before the signal is rearmed: the uniqueness of a
\* delivery per (signal, user, stage) never suppresses a stage's message.
THEOREM StagesNeverRepeat == Spec => NoStageTwice
<1>1. ASSUME LInv, Next, NEW s \in Symbol, NEW d \in Direction
      PROVE  \/ stage'[s][d] \in {stage[s][d], "NORMAL"}
             \/ Rank[stage'[s][d]] > Rank[stage[s][d]]
  <2>1. PICK r \in Symbol, e \in Direction :
          Open(r, e) \/ Promote(r, e) \/ Close(r, e) \/ Settle(r, e) \/ Rearm(r, e)
    BY <1>1 DEF Next
  <2>2. CASE r # s \/ e # d
    BY <1>1, <2>1, <2>2
    DEF LInv, TypeOK, Open, Promote, Close, Settle, Rearm, Enter
  <2>3. CASE r = s /\ e = d
    <3>1. stage[s][d] \in State
      BY <1>1 DEF LInv, TypeOK
    <3>2. CASE Rearm(s, d)
      BY <1>1, <3>2 DEF LInv, TypeOK, Rearm, Enter
    <3>3. PICK to : /\ \/ stage[s][d] = "NORMAL" /\ to = "CANDIDATE"
                       \/ to = "NORMAL" /\ Rearm(s, d)
                       \/ to \in Promotions(stage[s][d])
                       \/ to \in Closings(stage[s][d])
                       \/ to \in Settlings(stage[s][d])
                    /\ Enter(s, d, to)
      BY <2>1, <2>3 DEF Open, Promote, Close, Settle, Rearm
    <3>4. CASE ~Rearm(s, d)
      <4>1. to \in State
        BY <3>1, <3>3, <3>4, EdgesFromActive DEF State
      <4>2. stage'[s][d] = to
        BY <1>1, <3>3 DEF LInv, TypeOK, Enter
      <4> QED BY <3>1, <3>3, <3>4, <4>1, <4>2, EdgesClimb
    <3> QED BY <3>2, <3>4
  <2> QED BY <2>2, <2>3
<1>2. LInv /\ [Next]_stage =>
        [\A s \in Symbol, d \in Direction :
           stage'[s][d] \in {stage[s][d], "NORMAL"}
             \/ Rank[stage'[s][d]] > Rank[stage[s][d]]]_stage
  BY <1>1
<1> QED BY <1>2, LifecycleInvariance, PTL DEF Spec, NoStageTwice

=============================================================================

------------------------------- MODULE Outcomes -------------------------------
(***************************************************************************)
(* The samples of a signal's price after it was announced                  *)
(* (replay/evaluator.py, SignalOutcomeEvaluator): a pass selects the       *)
(* oldest signals that are due, asks Binance about one after the other and *)
(* stores a sample of each, the last one after an hour.                    *)
(***************************************************************************)
EXTENDS Integers, FiniteSets, FiniteSetsExt

CONSTANTS
  Signal,       \* numbers, in the order of their announcement
  Batch,        \* batch_size
  Hour,         \* ticks of the clock to the last sample; one tick is the
                \* least time between two samples
  MaxRefusal    \* bound of the model: requests that fail or say nothing

ASSUME SignalAssumption == Signal \subseteq Nat /\ IsFiniteSet(Signal)

ASSUME HourAssumption == Hour \in Nat \ {0} /\ Batch \in Nat \ {0} /\ MaxRefusal \in Nat

VARIABLES
  age,          \* ticks since the announcement, -1 before it, at most Hour + 1
  sample,       \* [Signal -> ...]: the row, how long ago its last sample is, and
                \* whether it has been evaluated
  pass,         \* evaluate_once: the signals left, their ages and the ticks since
  refusals

outcomeVars == <<age, sample, pass, refusals>>

NoSample == [row |-> FALSE, since |-> 0, evaluated |-> FALSE]

NoPass == [left |-> {}, age |-> [s \in Signal |-> 0], ticks |-> 0]

OutcomeInit ==
  /\ age = [s \in Signal |-> -1]
  /\ sample = [s \in Signal |-> NoSample]
  /\ pass = NoPass
  /\ refusals = 0

\* Ages beyond the hour, and waits beyond the least one, are alike.
Later(n, bound) == IF n < bound THEN n + 1 ELSE bound

\* Time passes, also while a pass waits for Binance.
PassTime ==
  /\ age' = [s \in Signal |-> IF age[s] < 0 THEN -1 ELSE Later(age[s], Hour + 1)]
  /\ sample' = [s \in Signal |-> IF sample[s].row
                  THEN [sample[s] EXCEPT !.since = Later(@, 1)] ELSE sample[s]]
  /\ pass' = IF pass.left = {} THEN pass ELSE [pass EXCEPT !.ticks = Later(@, 1)]
  /\ UNCHANGED refusals

Announce(s) ==
  /\ age[s] < 0 /\ \A t \in Signal : t < s => age[t] >= 0
  /\ age' = [age EXCEPT ![s] = 0]
  /\ UNCHANGED <<sample, pass, refusals>>

\* Faulty: an inner join, which needs a row.
DueWithRow(s) ==
  age[s] >= 1 /\ sample[s].row /\ ~sample[s].evaluated /\ sample[s].since >= 1

\* Announced a while ago, and not sampled yet, or a while ago and not the last
\* time.
Due(s) ==
  age[s] >= 1 /\ (sample[s].row => ~sample[s].evaluated /\ sample[s].since >= 1)

Oldest(set) == {s \in set : Cardinality({t \in set : t < s}) < Batch}

Select ==
  /\ pass.left = {}
  /\ LET due == Oldest({s \in Signal : Due(s)})
     IN /\ due # {}
        /\ pass' = [left |-> due, age |-> age, ticks |-> 0]
  /\ UNCHANGED <<age, sample, refusals>>

Final(minutes) == minutes >= Hour

\* _evaluate_signal, of the first that is left: the sample is of the moment the
\* pass began, and the row is found or made.
Sample ==
  /\ pass.left # {}
  /\ LET s == Min(pass.left)
     IN sample' = [sample EXCEPT ![s] =
          [row |-> TRUE, since |-> pass.ticks,
           evaluated |-> @.evaluated \/ Final(pass.age[s])]]
  /\ pass' = IF Cardinality(pass.left) = 1 THEN NoPass
             ELSE [pass EXCEPT !.left = @ \ {Min(@)}]
  /\ UNCHANGED <<age, refusals>>

\* Binance has no closed candle of the symbol: the signal is passed over.
Nothing ==
  /\ pass.left # {} /\ refusals < MaxRefusal
  /\ refusals' = refusals + 1
  /\ pass' = IF Cardinality(pass.left) = 1 THEN NoPass
             ELSE [pass EXCEPT !.left = @ \ {Min(@)}]
  /\ UNCHANGED <<age, sample>>

\* The request fails: so does the pass, and the next one begins anew.
Fails ==
  /\ pass.left # {} /\ refusals < MaxRefusal
  /\ refusals' = refusals + 1
  /\ pass' = NoPass
  /\ UNCHANGED <<age, sample>>

OutcomeNext ==
  \/ PassTime \/ Select \/ Sample \/ Nothing \/ Fails
  \/ \E s \in Signal : Announce(s)

-----------------------------------------------------------------------------
(* Properties.                                                             *)

OutcomeTypeOK ==
  /\ age \in [Signal -> -1..(Hour + 1)]
  /\ sample \in [Signal -> [row: BOOLEAN, since: 0..1, evaluated: BOOLEAN]]
  /\ pass.left \subseteq Signal /\ pass.ticks \in 0..1
  /\ pass.age \in [Signal -> -1..(Hour + 1)]
  /\ refusals \in 0..MaxRefusal

\* Every announced signal gets its last sample, however late a pass comes to it
\* and though the oldest ones go first, unless Binance refuses for ever: there
\* comes a time when none is left (evaluator.py:78, 137).
OutcomesEnd ==
  LET open(s) == age[s] >= 0 /\ ~sample[s].evaluated
  IN (\E s \in Signal : open(s)) ~> (\A s \in Signal : ~open(s))

=============================================================================

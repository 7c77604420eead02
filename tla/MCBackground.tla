----------------------------- MODULE MCBackground -----------------------------
(***************************************************************************)
(* The smaller components, one at a time: they share no variable, and a    *)
(* behaviour is one of the component part names while the others stay in   *)
(* their initial states.                                                   *)
(***************************************************************************)
EXTENDS MonitorScenario, MonitorRuntime, Onboarding, Recorder, Outcomes, RateLimiter,
        Panel

VARIABLE part

\* One plan is enough: the setups differ only in what confirms them.
OnePlan == {[setup |-> "BREAK_RETEST", broke |-> FALSE, retested |-> FALSE]}

Init ==
  /\ part \in {"scenario", "runtime", "onboarding", "recorder", "outcomes", "limiter",
               "panel"}
  /\ ScenarioInit /\ RuntimeInit /\ OnboardingInit /\ RecorderInit /\ OutcomeInit
  /\ LimiterInit /\ PanelInit

Next ==
  /\ UNCHANGED part
  /\ \/ part = "scenario" /\ ScenarioNext
        /\ UNCHANGED <<runtimeVars, onboardingVars, recorderVars, outcomeVars,
                       limiterVars, panelVars>>
     \/ part = "runtime" /\ RuntimeNext
        /\ UNCHANGED <<scenarioVars, onboardingVars, recorderVars, outcomeVars,
                       limiterVars, panelVars>>
     \/ part = "onboarding" /\ OnboardingNext
        /\ UNCHANGED <<scenarioVars, runtimeVars, recorderVars, outcomeVars,
                       limiterVars, panelVars>>
     \/ part = "recorder" /\ RecorderNext
        /\ UNCHANGED <<scenarioVars, runtimeVars, onboardingVars, outcomeVars,
                       limiterVars, panelVars>>
     \/ part = "outcomes" /\ OutcomeNext
        /\ UNCHANGED <<scenarioVars, runtimeVars, onboardingVars, recorderVars,
                       limiterVars, panelVars>>
     \/ part = "limiter" /\ LimiterNext
        /\ UNCHANGED <<scenarioVars, runtimeVars, onboardingVars, recorderVars,
                       outcomeVars, panelVars>>
     \/ part = "panel" /\ PanelNext
        /\ UNCHANGED <<scenarioVars, runtimeVars, onboardingVars, recorderVars,
                       outcomeVars, limiterVars>>

vars == <<part, scenarioVars, runtimeVars, onboardingVars, recorderVars, outcomeVars,
          limiterVars, panelVars>>

\* The fairness of MonitorRuntime and of the evaluator's loop and the clock,
\* asked only of the part they belong to.
Fairness ==
  /\ WF_runtimeVars(part = "runtime" /\ Connecting)
  /\ \A p \in Proc : WF_runtimeVars(part = "runtime" /\ Passing(p))
  /\ WF_outcomeVars(part = "outcomes" /\ PassTime)
  /\ WF_outcomeVars(part = "outcomes" /\ Select)
  /\ WF_outcomeVars(part = "outcomes" /\ Sample)

Spec == Init /\ [][Next]_vars /\ Fairness

TypeOK ==
  /\ ScenarioTypeOK /\ RuntimeTypeOK /\ OnboardingTypeOK /\ RecorderTypeOK
  /\ OutcomeTypeOK /\ LimiterTypeOK /\ PanelTypeOK

=============================================================================

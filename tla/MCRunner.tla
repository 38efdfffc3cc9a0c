------------------------------- MODULE MCRunner -------------------------------
(***************************************************************************)
(* The parts of a regression run that work on their own: one leaf step,    *)
(* the campaign over its phases, one host drill, one GPU validation, one   *)
(* GPU scenario, the browser session of the live tests and the baseline    *)
(* they start from.  Each behaviour is one of one of the modules.          *)
(***************************************************************************)
EXTENDS LeafRun, Campaign, HostDrill, GpuValidation, GpuScenario, RunnerLogin, DeploymentPins

VARIABLE part   \* "leaf", "campaign", "drill", "validation", "scenario", "login" or "pins"

MCCases == DOMAIN Cases

\* A campaign of three phases, with two live steps in one phase and a phase
\* that begins with an isolated step between two live ones.
MCPhases == << <<"live", "live">>, <<"fixture", "live">>, <<"live">> >>

all == <<leafVars, campaignVars, drillVars, validationVars, scenarioVars, loginVars, pinsVars, part>>

MCInit ==
  /\ LeafInit /\ CampaignInit /\ DrillInit /\ ValidationInit /\ ScenarioInit /\ LoginInit /\ PinsInit
  /\ part \in {"leaf", "campaign", "drill", "validation", "scenario", "login", "pins"}
  /\ part # "leaf" => live
  /\ part # "drill" => drill.case = "race"
  /\ part # "validation" => backend = "dra" /\ cards = 1
  /\ part # "scenario" => checkJob
  /\ part # "login" => shared
  /\ \A i \in Pins : cluster[i] = Steady(i) \/ (part = "pins" /\ i < 2)

InLeaf ==
  part = "leaf" /\ UNCHANGED <<campaignVars, drillVars, validationVars, scenarioVars, loginVars, pinsVars, part>>
InCampaign ==
  part = "campaign" /\ UNCHANGED <<leafVars, drillVars, validationVars, scenarioVars, loginVars, pinsVars, part>>
InDrill ==
  part = "drill" /\ UNCHANGED <<leafVars, campaignVars, validationVars, scenarioVars, loginVars, pinsVars, part>>
InValidation ==
  part = "validation" /\ UNCHANGED <<leafVars, campaignVars, drillVars, scenarioVars, loginVars, pinsVars, part>>
InScenario ==
  part = "scenario" /\ UNCHANGED <<leafVars, campaignVars, drillVars, validationVars, loginVars, pinsVars, part>>
InLogin ==
  part = "login" /\ UNCHANGED <<leafVars, campaignVars, drillVars, validationVars, scenarioVars, pinsVars, part>>
InPins ==
  part = "pins" /\ UNCHANGED <<leafVars, campaignVars, drillVars, validationVars, scenarioVars, loginVars, part>>

MCNext ==
  \/ InLeaf /\ LeafNext
  \/ InCampaign /\ CampaignNext
  \/ InDrill /\ DrillNext
  \/ InValidation /\ ValidationNext
  \/ InScenario /\ ScenarioNext
  \/ InLogin /\ LoginNext
  \/ InPins /\ PinsNext

\* The fairness of the modules, conjunct by conjunct.  The part never changes:
\* a conjunct over several parts says of each behaviour what its module says.
MCFairness ==
  /\ WF_all(\/ InLeaf /\ LauncherStep
            \/ InCampaign /\ PhaseStep
            \/ InDrill /\ HostSteps
            \/ InScenario /\ ScenarioSteps)
  /\ WF_all(\/ InCampaign /\ AllStep
            \/ InDrill /\ DrillSteps
            \/ InScenario /\ BackendFollows)
  /\ SF_all(InDrill /\ PollTimesOut)
  /\ WF_all(\/ InCampaign /\ \E r \in Runs : Ends(r)
            \/ InScenario /\ Reconcile)
  /\ WF_all(InScenario /\ StartPod) /\ WF_all(InScenario /\ PodReady)
  /\ WF_all(InScenario /\ TerminatePod) /\ WF_all(InScenario /\ PodGone)
  /\ WF_all(InScenario /\ Route)

MCSpec == MCInit /\ [][MCNext]_all /\ MCFairness

\* What the GPU tests credit to the appliance has happened there, for a runtime of
\* the right configuration on the right card, although Pods, claims, status and
\* routes are read one after another: ValidationTrue and FailureTrue of the
\* validation, AnswerTrue, StopTrue and BackendTrue of the scenario.  So it is with
\* the baseline of a live run, and with what is shown of one that failed:
\* BaselineTrue and FailureShown of the pins.
ReadingsTrue ==
  /\ ValidationTrue /\ FailureTrue /\ AnswerTrue /\ StopTrue /\ BackendTrue
  /\ BaselineTrue /\ FailureShown

PartEnded ==
  CASE part = "leaf" -> LeafEnded [] part = "campaign" -> CampaignEnded [] part = "drill" -> DrillEnded
    [] part = "scenario" -> ScenarioEnded [] OTHER -> TRUE

\* Every leaf step, campaign, host drill and GPU scenario ends, whatever hangs,
\* restarts or is killed on the way: LeafEnds, CampaignEnds, DrillEnds and
\* ScenarioEnds, each for the behaviours of its module.
RunEnds == <>PartEnded
=============================================================================

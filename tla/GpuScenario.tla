---------------------------- MODULE GpuScenario ----------------------------
(***************************************************************************)
(* One GPU scenario (core/gpu-scenario.ts): the allocation backend of the  *)
(* node is borrowed, an owned model is created on it, edited, stopped and  *)
(* started, and everything is given back.                                  *)
(*                                                                         *)
(* Each wait polls three independent reads (the API's model, the object,   *)
(* the Pods) of a system that lags behind itself: the controller's status  *)
(* may still count the old Pod, the catalog routes a little longer than    *)
(* the runtime lives, and the node's resources follow the saved mode late. *)
(***************************************************************************)
EXTENDS Integers, FiniteSets

CONSTANTS
  MaxEdits,        \* how many lifecycle actions the scenario takes
  ScenarioFaults   \* how many faults may happen

VARIABLES
  mode,        \* the saved sharing mode: "original", "lab"
  actual,      \* the mode the node's resources really have
  spec,        \* the owned model's activation
  status,      \* what its controller reports
  runtime,     \* its Pods
  routed,      \* its entry in the catalog
  checkJob,    \* a validation Job is unfinished
  gs,          \* the scenario: pc, recorded generation, what it read, attempts
  answer,      \* history: the runtime that answered the last inference
  scenarioFaults

scenarioVars == <<mode, actual, spec, status, runtime, routed, checkJob, gs, answer, scenarioFaults>>
modelVars == <<spec, status, runtime, routed>>
backendVars == <<mode, actual>>

NoModel == [exists |-> FALSE, gen |-> 0, cfg |-> 0, on |-> FALSE]
OtherCfg(cfg) == 3 - cfg
NoAnswer == [cfg |-> 0, on |-> "none"]
Nothing == [item |-> NoModel, st |-> [gen |-> 0, phase |-> "none"], routed |-> FALSE, pods |-> {}]
Start == [pc |-> "begin", gen |-> 0, view |-> Nothing, read |-> {}, tries |-> 0, edits |-> 0]

ScenarioInit ==
  /\ mode = "original" /\ actual = "original" /\ spec = NoModel
  /\ status = [gen |-> 0, phase |-> "none"] /\ runtime = {} /\ routed = FALSE /\ checkJob \in BOOLEAN
  /\ gs = Start /\ answer = NoAnswer /\ scenarioFaults = 0

GFault == scenarioFaults < ScenarioFaults /\ scenarioFaults' = scenarioFaults + 1
Is(s) == gs.pc = s
To(s) == gs' = [gs EXCEPT !.pc = s, !.view = Nothing, !.read = {}]
Abort == To("cleanup")

(***************************************************************************)
(* The appliance (external).                                               *)
(***************************************************************************)
Serving == {p \in runtime : p.state = "ready"}

BackendFollows ==
  /\ actual # mode /\ actual' = mode
  /\ UNCHANGED <<mode, modelVars, checkJob, gs, answer, scenarioFaults>>

\* The controller saw this generation; its counters may be those of the old Pod.
Reconcile ==
  /\ spec.exists
  /\ status' = [gen |-> spec.gen, phase |-> IF spec.on /\ Serving # {} THEN "Ready" ELSE "Progressing"]
  /\ status' # status
  /\ UNCHANGED <<backendVars, spec, runtime, routed, checkJob, gs, answer, scenarioFaults>>

StartOn(device) ==
  /\ spec.exists /\ spec.on /\ ~\E p \in runtime : p.cfg = spec.cfg
  /\ runtime' = runtime \cup {[cfg |-> spec.cfg, state |-> "starting", on |-> device]}
  /\ UNCHANGED <<backendVars, spec, status, routed, checkJob, gs, answer>>
StartPod == StartOn("card") /\ UNCHANGED scenarioFaults
\* The allocator gives it another card than the one that was selected.
MisplacePod == StartOn("other") /\ GFault

PodReady ==
  /\ \E p \in runtime : /\ p.state = "starting"
                        /\ runtime' = (runtime \ {p}) \cup {[p EXCEPT !.state = "ready"]}
  /\ UNCHANGED <<backendVars, spec, status, routed, checkJob, gs, answer, scenarioFaults>>

\* The old Pod goes when the new one is there, or when the model is off.
TerminatePod ==
  /\ \E p \in runtime :
       /\ p.state # "terminating"
       /\ ~spec.exists \/ ~spec.on \/ (p.cfg # spec.cfg /\ \E q \in Serving : q.cfg = spec.cfg)
       /\ runtime' = (runtime \ {p}) \cup {[p EXCEPT !.state = "terminating"]}
  /\ UNCHANGED <<backendVars, spec, status, routed, checkJob, gs, answer, scenarioFaults>>

PodGone ==
  /\ \E p \in runtime : p.state = "terminating" /\ runtime' = runtime \ {p}
  /\ UNCHANGED <<backendVars, spec, status, routed, checkJob, gs, answer, scenarioFaults>>

Route ==
  /\ routed # (spec.on /\ Serving # {}) /\ routed' = (spec.on /\ Serving # {})
  /\ UNCHANGED <<backendVars, spec, status, runtime, checkJob, gs, answer, scenarioFaults>>

JobEnds ==
  /\ checkJob /\ checkJob' = FALSE
  /\ UNCHANGED <<backendVars, modelVars, gs, answer, scenarioFaults>>

\* The product fails: the controller reports the current generation degraded.
Degrade ==
  /\ spec.exists /\ spec.on /\ GFault /\ status' = [gen |-> spec.gen, phase |-> "Degraded"]
  /\ UNCHANGED <<backendVars, spec, runtime, routed, checkJob, gs, answer>>

\* A runtime restarts its container and is not ready for a while.
PodCrashes ==
  /\ \E p \in Serving : runtime' = (runtime \ {p}) \cup {[p EXCEPT !.state = "starting"]}
  /\ GFault /\ UNCHANGED <<backendVars, spec, status, routed, checkJob, gs, answer>>

(***************************************************************************)
(* The scenario.                                                           *)
(***************************************************************************)
\* Nobody else's validation may be under way.
Open ==
  /\ Is("begin") /\ To(IF checkJob THEN "busy" ELSE "open")
  /\ UNCHANGED <<backendVars, modelVars, checkJob, answer, scenarioFaults>>

\* A rejected revision is read and tried again, three times in all.
Transition ==
  /\ Is("open")
  /\ \/ mode' = "lab" /\ To("backend") /\ UNCHANGED scenarioFaults
     \/ /\ GFault /\ UNCHANGED mode
        /\ gs' = IF gs.tries < 2 THEN [gs EXCEPT !.tries = @ + 1] ELSE [gs EXCEPT !.pc = "cleanup"]
  /\ UNCHANGED <<actual, modelVars, checkJob, answer>>

\* The node's own resources, not the saved mode.
BackendReady == actual = "lab"

WaitBackend ==
  /\ Is("backend") /\ BackendReady /\ To("create")
  /\ UNCHANGED <<backendVars, modelVars, checkJob, answer, scenarioFaults>>

\* Created in the journal first; a validation may be started beside it.
Create ==
  /\ Is("create")
  /\ spec' = [exists |-> TRUE, gen |-> 1, cfg |-> 1, on |-> TRUE]
  /\ gs' = [gs EXCEPT !.pc = "ready", !.gen = 1] /\ checkJob' \in BOOLEAN
  /\ UNCHANGED <<backendVars, status, runtime, routed, answer, scenarioFaults>>

\* The reads of one poll, in any order.
ReadModels ==
  /\ gs.pc \in {"ready", "stopping"} /\ "models" \notin gs.read
  /\ gs' = [gs EXCEPT !.read = @ \cup {"models"},
              !.view = [@ EXCEPT !.item = spec, !.st = status, !.routed = routed]]
  /\ UNCHANGED <<backendVars, modelVars, checkJob, answer, scenarioFaults>>

ReadPods ==
  /\ gs.pc \in {"ready", "stopping"} /\ "pods" \notin gs.read
  /\ gs' = [gs EXCEPT !.read = @ \cup {"pods"}, !.view.pods = runtime]
  /\ UNCHANGED <<backendVars, modelVars, checkJob, answer, scenarioFaults>>

V == gs.view
AllRead == gs.read = {"models", "pods"}
Again == gs' = [gs EXCEPT !.view = Nothing, !.read = {}]

\* Mutant: some Pod of the model is ready.
AnyPodReady == \E p \in V.pods : p.state = "ready"
\* One Pod, ready, not going, and configured as saved now.
RuntimePodConverged ==
  /\ Cardinality(V.pods) = 1
  /\ \A p \in V.pods : p.state = "ready" /\ p.cfg = V.item.cfg

StatusReady == V.item.gen = gs.gen /\ V.st = [gen |-> gs.gen, phase |-> "Ready"]

Ready ==
  /\ Is("ready") /\ AllRead
  /\ IF V.item.gen = gs.gen /\ V.st = [gen |-> gs.gen, phase |-> "Degraded"] THEN Abort
     ELSE IF V.item.on /\ StatusReady /\ RuntimePodConverged /\ V.routed
     THEN gs' = [gs EXCEPT !.pc = "bind"]
     ELSE Again
  /\ UNCHANGED <<backendVars, modelVars, checkJob, answer, scenarioFaults>>

\* The claim's allocation, observed apart from the Pod, is the selected card.
OnSelected == \A p \in V.pods : p.on = "card"

Binding ==
  /\ Is("bind") /\ IF OnSelected THEN To("infer") ELSE Abort
  /\ UNCHANGED <<backendVars, modelVars, checkJob, answer, scenarioFaults>>

\* Whatever serves the route answers; no answer is a failure of the case.
Chat ==
  /\ Is("infer")
  /\ \/ \E p \in Serving : answer' = [cfg |-> p.cfg, on |-> p.on] /\ To("credited")
     \/ Serving = {} /\ Abort /\ UNCHANGED answer
  /\ UNCHANGED <<backendVars, modelVars, checkJob, scenarioFaults>>

\* Edit, stop and start: the new generation is the one waited for.
Lifecycle(action) ==
  /\ spec.exists /\ gs.edits < MaxEdits
  /\ CASE action = "edit" -> Is("credited") /\ spec' = [spec EXCEPT !.gen = @ + 1, !.cfg = OtherCfg(@)]
       [] action = "stop" -> Is("credited") /\ spec' = [spec EXCEPT !.gen = @ + 1, !.on = FALSE]
       [] OTHER -> Is("stopped") /\ spec' = [spec EXCEPT !.gen = @ + 1, !.on = TRUE]
  /\ gs' = [gs EXCEPT !.pc = IF action = "stop" THEN "stopping" ELSE "ready", !.gen = spec.gen + 1,
                      !.edits = @ + 1, !.view = Nothing, !.read = {}]
  /\ UNCHANGED <<backendVars, status, runtime, routed, checkJob, answer, scenarioFaults>>

\* Stopped is saved, the runtime is gone and the route withdrawn.
ModelStopped == ~V.item.on /\ V.pods = {} /\ ~V.routed

WaitStopped ==
  /\ Is("stopping") /\ AllRead
  /\ IF ModelStopped THEN To("stopped") ELSE Again
  /\ UNCHANGED <<backendVars, modelVars, checkJob, answer, scenarioFaults>>

Close ==
  /\ gs.pc \in {"credited", "stopped"} /\ To("cleanup")
  /\ UNCHANGED <<backendVars, modelVars, checkJob, answer, scenarioFaults>>

\* A wait that takes too long, or a lost answer, ends the case.
ScenarioFails ==
  /\ gs.pc \in {"backend", "create", "ready", "infer", "stopping"} /\ GFault /\ Abort
  /\ UNCHANGED <<backendVars, modelVars, checkJob, answer>>

\* A later recovery opens the killed scenario's journal and gives everything back.
ScenarioKilled ==
  /\ gs.pc \notin {"begin", "busy", "recover", "clean", "unclean"} /\ GFault /\ To("recover")
  /\ UNCHANGED <<backendVars, modelVars, checkJob, answer>>
Recover ==
  /\ Is("recover") /\ To("cleanup")
  /\ UNCHANGED <<backendVars, modelVars, checkJob, answer, scenarioFaults>>

\* Recorded models first; the cache stays.
Remove ==
  /\ Is("cleanup") /\ spec' = NoModel /\ To("removed")
  /\ UNCHANGED <<backendVars, status, runtime, routed, checkJob, answer, scenarioFaults>>

\* Removal is verified: no definition, no runtime, no route.
VerifyRemoved == ~spec.exists /\ runtime = {} /\ ~routed

AwaitRemoved ==
  /\ Is("removed") /\ VerifyRemoved /\ To("restore")
  /\ UNCHANGED <<backendVars, modelVars, checkJob, answer, scenarioFaults>>

\* The backend is given back only when no validation Job is left; otherwise
\* the scenario ends with the sharing receipt open.
Restore ==
  /\ Is("restore")
  /\ IF checkJob THEN To("unclean") /\ UNCHANGED mode ELSE mode' = "original" /\ To("restoring")
  /\ UNCHANGED <<actual, modelVars, checkJob, answer, scenarioFaults>>

VerifyRestoredBackend ==
  /\ Is("restoring") /\ actual = "original" /\ To("clean")
  /\ UNCHANGED <<backendVars, modelVars, checkJob, answer, scenarioFaults>>

ApplianceSteps == BackendFollows \/ Reconcile \/ StartPod \/ PodReady \/ TerminatePod \/ PodGone \/ Route \/ JobEnds
ScenarioSteps ==
  \/ Open \/ Transition \/ WaitBackend \/ Create \/ ReadModels \/ ReadPods \/ Ready \/ Binding \/ Chat
  \/ \E a \in {"edit", "stop", "start"} : Lifecycle(a)
  \/ WaitStopped \/ Close \/ Recover \/ Remove \/ AwaitRemoved \/ Restore \/ VerifyRestoredBackend
ScenarioNext == ApplianceSteps \/ ScenarioSteps \/ Degrade \/ MisplacePod \/ PodCrashes \/ ScenarioFails \/ ScenarioKilled
\* The appliance's controllers keep working, each at its own pace.
ScenarioFairness ==
  /\ WF_scenarioVars(BackendFollows) /\ WF_scenarioVars(Reconcile) /\ WF_scenarioVars(StartPod)
  /\ WF_scenarioVars(PodReady) /\ WF_scenarioVars(TerminatePod) /\ WF_scenarioVars(PodGone)
  /\ WF_scenarioVars(Route) /\ WF_scenarioVars(ScenarioSteps)
ScenarioSpec == ScenarioInit /\ [][ScenarioNext]_scenarioVars /\ ScenarioFairness

(***************************************************************************)
(* Correctness                                                             *)
(***************************************************************************)
\* The inference that is credited to a configuration was answered by a runtime
\* of that configuration on the selected card, although the status may still
\* count the old Pod and a new one may have been placed elsewhere.
AnswerTrue == Is("credited") => answer = [cfg |-> spec.cfg, on |-> "card"]

\* A stop is credited only when nothing of the model runs or is routed.
StopTrue == Is("stopped") => runtime = {} /\ ~routed

\* Owned models are placed only on the backend that was asked for, and it is
\* taken away only when none of their Pods and no validation Job uses it.
BackendTrue == /\ Is("create") => actual = "lab"
               /\ gs.pc \in {"restoring", "clean"} => runtime = {} /\ ~checkJob

ScenarioEnded == gs.pc \in {"busy", "clean", "unclean"}

\* Every scenario ends with the backend given back, or says that it did not.
ScenarioEnds == <>ScenarioEnded
=============================================================================

---------------------------- MODULE ModelCreate ----------------------------
(***************************************************************************)
(* Adding a local model in the dashboard: the search for a model and for   *)
(* its artifacts (ModelSourceSettings.tsx) and the estimates that follow   *)
(* every change of the draft (LocalModelConfigurationForm.tsx).  Answers   *)
(* come in any order while the administrator goes on choosing.             *)
(* A model reference is a member of References; its task is what its       *)
(* metadata says, "" if they say nothing.                                  *)
(***************************************************************************)
EXTENDS Integers, Sequences, FiniteSets

CONSTANTS
  References,    \* the models there are, each the only artifact of its repository
  TaskOf,        \* the task of each: "chat", "embedding" or ""
  Found,         \* the repositories a query finds, the best first
  Presets,       \* presets, with reference and task
  CreateInputs,  \* how many things the administrator does
  CreateFaults   \* how many calls may fail

ASSUME FoundAssumption == \A q \in DOMAIN Found : Found[q] \in Seq(References)

VARIABLES
  createForm,     \* the draft, the detected and the chosen task, the estimates and their timers
  calls,    \* estimates under way: kind, what they were asked for, whether the effect still wants them
  disc,     \* the discovery panel
  flights,  \* searches and artifact lists under way, with the counters they were started at
  added,    \* the models that were sent, what was sent of them
  createInputs, createFaults

createVars == <<createForm, calls, disc, flights, added, createInputs, createFaults>>

Kinds == {"memory", "offload"}
Targets == {"nvidia-gpu", "cpu"}
Blank == [url |-> "", target |-> "", ctx |-> 0, task |-> "", offload |-> FALSE]

(***************************************************************************)
(* The draft and the estimates.                                            *)
(***************************************************************************)
\* The task a preset states.
TaskOfPreset(f) == IF f.source = "preset" /\ f.preset # "" THEN Presets[f.preset].task ELSE ""
DetectedTask(f) ==
  IF TaskOfPreset(f) # "" THEN TaskOfPreset(f) ELSE IF f.detected.url = f.url THEN f.detected.value ELSE ""
ManualTask(f) == IF f.manual.url = f.url THEN f.manual.value ELSE ""
ModelType(f) == IF DetectedTask(f) # "" THEN DetectedTask(f) ELSE ManualTask(f)
RequestedModelType(f) ==
  CASE TaskOfPreset(f) # "" -> TaskOfPreset(f)
    [] DetectedTask(f) = "" /\ ManualTask(f) # "" -> ManualTask(f)
    [] OTHER -> "auto"
\* What the estimates depend on.
Inputs(f) == [url |-> f.url, target |-> f.target, ctx |-> f.ctx, task |-> RequestedModelType(f), offload |-> f.offload]

\* The effects of a change: calls under way are cancelled and timers started
\* anew.  The old memory figures stay, the offloading figures do not.
Rerun(kind, f) == f.url # "" /\ (kind = "offload" => f.offload /\ f.target = "nvidia-gpu")
PageEffects(f) ==
  LET same == Inputs(f) = Inputs(createForm) IN
  /\ createForm' = IF same THEN f
                   ELSE [f EXCEPT !.failed = [k \in Kinds |-> FALSE], !.timer = [k \in Kinds |-> Rerun(k, f)],
                                  !.estimate = [memory |-> IF f.url = "" THEN Blank ELSE @.memory, offload |-> Blank]]
  /\ calls' = IF same THEN calls ELSE {[c EXCEPT !.live = FALSE] : c \in calls}

\* 350 ms without a change.
EstimateTimer(kind) ==
  /\ createForm.timer[kind] /\ createForm' = [createForm EXCEPT !.timer[kind] = FALSE]
  /\ calls' = calls \cup {[kind |-> kind, inputs |-> Inputs(createForm), live |-> TRUE]}
  /\ UNCHANGED <<disc, flights, added, createInputs, createFaults>>

\* Mutant: an answer counts even if its effect was left.
EveryAnswer(call) == TRUE
Wanted(call) == call.live
EstimateAnswered(call) ==
  /\ IF Wanted(call)
     THEN LET f == [createForm EXCEPT !.estimate[call.kind] = call.inputs,
                                !.detected = [url |-> call.inputs.url, value |-> TaskOf[call.inputs.url]]] IN
          IF Inputs(f) = Inputs(createForm) THEN createForm' = f /\ calls' = calls \ {call}
          ELSE /\ createForm' = [f EXCEPT !.failed = [k \in Kinds |-> FALSE], !.timer = [k \in Kinds |-> Rerun(k, f)],
                                    !.estimate.offload = Blank]
               /\ calls' = {[c EXCEPT !.live = FALSE] : c \in calls \ {call}}
     ELSE createForm' = createForm /\ calls' = calls \ {call}
  /\ UNCHANGED <<disc, flights, added, createInputs, createFaults>>
CallFault == createFaults < CreateFaults /\ createFaults' = createFaults + 1
EstimateRefused(call) ==
  /\ CallFault /\ calls' = calls \ {call}
  /\ createForm' = IF Wanted(call) THEN [createForm EXCEPT !.failed[call.kind] = TRUE] ELSE createForm
  /\ UNCHANGED <<disc, flights, added, createInputs>>

(***************************************************************************)
(* Discovery.                                                              *)
(***************************************************************************)
NoLists == [results |-> <<>>, repo |-> "", artifacts |-> "", more |-> FALSE, searching |-> FALSE, loading |-> FALSE, broken |-> FALSE]
Disc0 == [lists |-> NoLists, epoch |-> 0, sreq |-> 0, areq |-> 0, last |-> "", failed |-> FALSE]
SearchLists == disc.lists

ModelCreateInit ==
  /\ createForm = [url |-> "", source |-> "search", preset |-> "", target |-> "nvidia-gpu", ctx |-> 1, offload |-> FALSE,
             detected |-> [url |-> "", value |-> ""], manual |-> [url |-> "", value |-> ""], open |-> TRUE, sending |-> FALSE,
             estimate |-> [k \in Kinds |-> Blank], timer |-> [k \in Kinds |-> FALSE], failed |-> [k \in Kinds |-> FALSE]]
  /\ calls = {} /\ disc = Disc0 /\ flights = {} /\ added = {} /\ createInputs = 0 /\ createFaults = 0

Does == createForm.open /\ ~createForm.sending /\ createInputs < CreateInputs /\ createInputs' = createInputs + 1
Quiet == UNCHANGED <<added, createFaults>>

Flight(kind, d, q, append, within) ==
  [kind |-> kind, req |-> IF kind = "search" THEN d.sreq ELSE d.areq, epoch |-> d.epoch, q |-> q, append |-> append, within |-> within]
Searches(q, append) ==
  LET d == [disc EXCEPT !.sreq = @ + 1, !.areq = @ + 1, !.last = q,
                        !.lists.searching = TRUE, !.lists.broken = FALSE, !.lists.artifacts = IF append THEN @ ELSE ""] IN
  disc' = d /\ flights' = flights \cup {Flight("search", d, q, append, 0)}
\* A family or a popular model starts a search at any time, the field only when none runs.
RunSearch(q) == Does /\ createForm.source = "search" /\ Searches(q, FALSE) /\ UNCHANGED <<createForm, calls>> /\ Quiet
\* The next page belongs to the query that was sent last.
MoreModels ==
  /\ Does /\ createForm.source = "search" /\ SearchLists.more /\ ~SearchLists.searching
  /\ Searches(disc.last, TRUE) /\ UNCHANGED <<createForm, calls>> /\ Quiet

LoadStarts(d, repo) == [d EXCEPT !.areq = @ + 1, !.lists.repo = repo, !.lists.loading = TRUE, !.lists.broken = FALSE]
LoadArtifacts(repo) ==
  /\ Does /\ createForm.source = "search" /\ repo \in {SearchLists.results[i] : i \in DOMAIN SearchLists.results} \ {SearchLists.repo}
  /\ disc' = LoadStarts(disc, repo) /\ flights' = flights \cup {Flight("artifacts", disc', repo, FALSE, 0)}
  /\ UNCHANGED <<createForm, calls>> /\ Quiet

Current(f) == f.epoch = disc.epoch /\ f.req = (IF f.kind = "search" THEN disc.sreq ELSE disc.areq)
\* A search is over when its first artifacts are.
SearchOver(d, f) ==
  IF f.within # 0 /\ f.within = d.sreq /\ f.epoch = d.epoch THEN [d EXCEPT !.lists.searching = FALSE] ELSE d
ApplyModel(url) == PageEffects([createForm EXCEPT !.url = url, !.ctx = 1])

\* What was found and not shown before, in its order.
New(old, found) ==
  LET new == {i \in DOMAIN found : \A j \in DOMAIN old : old[j] # found[i]} IN
  [n \in 1 .. Cardinality(new) |-> found[CHOOSE i \in new : Cardinality({j \in new : j <= i}) = n]]
SearchAnswered(f) ==
  /\ f.kind = "search"
  /\ IF ~Current(f) THEN disc' = disc /\ flights' = flights \ {f}
     ELSE LET found == Found[f.q]
              shown == [disc EXCEPT !.lists.results = IF f.append THEN @ \o New(@, found) ELSE found,
                                    !.lists.more = ~f.append, !.lists.searching = ~f.append /\ found # <<>>] IN
          IF f.append \/ found = <<>> THEN disc' = shown /\ flights' = flights \ {f}
          ELSE /\ disc' = LoadStarts(shown, Head(found))
               /\ flights' = (flights \ {f}) \cup {Flight("artifacts", disc', Head(found), FALSE, f.req)}
  /\ UNCHANGED <<createForm, calls, createInputs>> /\ Quiet
ArtifactsAnswered(f) ==
  /\ f.kind = "artifacts" /\ flights' = flights \ {f}
  /\ IF Current(f)
     THEN /\ disc' = SearchOver([disc EXCEPT !.lists.artifacts = f.q, !.lists.loading = FALSE], f)
          /\ ApplyModel(f.q)
     ELSE disc' = SearchOver(disc, f) /\ UNCHANGED <<createForm, calls>>
  /\ UNCHANGED createInputs /\ Quiet
DiscoveryFails(f) ==
  /\ CallFault /\ flights' = flights \ {f}
  /\ disc' = LET d == [disc EXCEPT !.failed = TRUE]
                 e == IF Current(f) THEN [d EXCEPT !.lists.broken = TRUE,
                                            !.lists.searching = IF f.kind = "search" THEN FALSE ELSE @,
                                            !.lists.loading = IF f.kind = "artifacts" THEN FALSE ELSE @] ELSE d
             IN SearchOver(e, f)
  /\ UNCHANGED <<createForm, calls, added, createInputs>>

(***************************************************************************)
(* What the administrator does.                                            *)
(***************************************************************************)
SelectArtifact == Does /\ createForm.source = "search" /\ SearchLists.artifacts # "" /\ ~SearchLists.loading /\ ApplyModel(SearchLists.artifacts) /\ UNCHANGED <<disc, flights>> /\ Quiet
SelectSource(s) == Does /\ s # createForm.source /\ PageEffects([createForm EXCEPT !.source = s]) /\ UNCHANGED <<disc, flights>> /\ Quiet
SelectPreset(p) ==
  /\ Does /\ createForm.source = "preset" /\ PageEffects([createForm EXCEPT !.preset = p, !.url = Presets[p].url, !.ctx = 1])
  /\ UNCHANGED <<disc, flights>> /\ Quiet
TypeReference(u) ==
  /\ Does /\ createForm.source = "direct" /\ u # createForm.url /\ PageEffects([createForm EXCEPT !.url = u])
  /\ UNCHANGED <<disc, flights>> /\ Quiet
ChangeContext == Does /\ PageEffects([createForm EXCEPT !.ctx = 3 - @]) /\ UNCHANGED <<disc, flights>> /\ Quiet
UseOffloading ==
  /\ Does /\ createForm.target = "nvidia-gpu" /\ PageEffects([createForm EXCEPT !.offload = ~@])
  /\ UNCHANGED <<disc, flights>> /\ Quiet
\* The task is asked for when an answer or an error leaves it open.
ChooseTask(t) ==
  /\ Does /\ createForm.url # "" /\ DetectedTask(createForm) = "" /\ (createForm.detected.url = createForm.url \/ createForm.failed["memory"])
  /\ PageEffects([createForm EXCEPT !.manual = [url |-> createForm.url, value |-> t]]) /\ UNCHANGED <<disc, flights>> /\ Quiet
\* All lists are emptied and everything under way is outdated.
ResetLists == NoLists
SelectHardware(t) ==
  /\ Does /\ t # createForm.target /\ PageEffects([createForm EXCEPT !.target = t, !.offload = FALSE])
  /\ disc' = [disc EXCEPT !.epoch = @ + 1, !.sreq = @ + 1, !.areq = @ + 1, !.lists = ResetLists]
  /\ UNCHANGED flights /\ Quiet

\* A preset is sent by its name, anything else by its reference.
CreatePayload ==
  LET preset == createForm.source = "preset" /\ createForm.preset # "" IN
  [ref |-> IF preset THEN createForm.preset ELSE createForm.url, preset |-> preset,
   type |-> IF DetectedTask(createForm) # "" THEN "auto" ELSE ModelType(createForm), asked |-> createForm.manual.url]
CreateModel ==
  /\ createForm.open /\ ~createForm.sending /\ createForm.url # "" /\ ModelType(createForm) # ""
  /\ createForm' = [createForm EXCEPT !.sending = TRUE] /\ added' = {CreatePayload}
  /\ UNCHANGED <<calls, disc, flights, createInputs, createFaults>>
ModelCreated ==
  /\ createForm.sending /\ createForm' = [createForm EXCEPT !.open = FALSE, !.sending = FALSE, !.timer = [k \in Kinds |-> FALSE]]
  /\ calls' = {[c EXCEPT !.live = FALSE] : c \in calls}
  /\ disc' = [disc EXCEPT !.epoch = @ + 1, !.sreq = @ + 1, !.areq = @ + 1, !.lists = NoLists]
  /\ UNCHANGED <<flights, added, createInputs, createFaults>>
CreationRefused ==
  /\ createForm.sending /\ CallFault /\ createForm' = [createForm EXCEPT !.sending = FALSE] /\ added' = {}
  /\ UNCHANGED <<calls, disc, flights, createInputs>>

DiscoveryAnswers == \E f \in flights : SearchAnswered(f) \/ ArtifactsAnswered(f)
ModelCreateNext ==
  \/ \E k \in Kinds : EstimateTimer(k)
  \/ \E c \in calls : EstimateAnswered(c) \/ EstimateRefused(c)
  \/ DiscoveryAnswers \/ \E f \in flights : DiscoveryFails(f)
  \/ \E q \in DOMAIN Found : RunSearch(q)
  \/ MoreModels \/ \E r \in References : LoadArtifacts(r) \/ TypeReference(r)
  \/ SelectArtifact \/ \E s \in {"search", "preset", "direct"} : SelectSource(s)
  \/ \E p \in DOMAIN Presets : SelectPreset(p)
  \/ ChangeContext \/ UseOffloading \/ \E t \in {"chat", "embedding"} : ChooseTask(t)
  \/ \E t \in Targets : SelectHardware(t)
  \/ CreateModel \/ ModelCreated \/ CreationRefused

\* Every call is answered in the end.
ModelCreateFairness == WF_createVars(DiscoveryAnswers)
ModelCreateSpec == ModelCreateInit /\ [][ModelCreateNext]_createVars /\ ModelCreateFairness

(***************************************************************************)
(* Properties.                                                             *)
(***************************************************************************)
\* When nothing is pending and nothing failed, the figures on screen are those
\* of the draft, in whatever order the estimates were answered.
EstimateShown ==
  \A k \in Kinds :
    createForm.open /\ Rerun(k, createForm) /\ ~createForm.timer[k] /\ ~createForm.failed[k] /\ (\A c \in calls : c.kind = k => ~c.live)
      => createForm.estimate[k] = Inputs(createForm)

\* A model is created with a task that was detected or chosen for this very
\* reference: "auto" only if its own metadata say what it is.
TaskTrue ==
  \A m \in added : ~m.preset => IF m.type = "auto" THEN TaskOf[m.ref] # "" ELSE m.asked = m.ref

\* As long as no discovery call has failed, the lists on screen are those of the
\* last query and of the selected repository once nothing is loading.
ListsTrue ==
  ~disc.failed /\ ~SearchLists.searching /\ ~SearchLists.loading =>
    /\ SearchLists.artifacts \in {"", SearchLists.repo}
    /\ SearchLists.results # <<>> => SearchLists.results = Found[disc.last]

NotSearching == ~SearchLists.searching

\* A search ends, also if another search, a choice or other hardware overtakes it.
SearchEnds == []<>NotSearching

=============================================================================

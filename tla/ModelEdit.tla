----------------------------- MODULE ModelEdit -----------------------------
(***************************************************************************)
(* Editing a deployed local model in the dashboard: the draft the form is  *)
(* opened with (local-model-configuration.ts), the memory estimate every   *)
(* change asks for (LocalModelConfigurationForm.tsx), the changes that are *)
(* sent and what the API makes of them.  Another administrator changes or  *)
(* recreates the same model meanwhile.                                     *)
(* A setting has two or three values, enough to tell "kept", "changed" and *)
(* "cleared" apart; 0 stands for an empty field.                           *)
(***************************************************************************)
EXTENDS Integers, Sequences, FiniteSets, Functions

CONSTANTS
  Cards,        \* the GPUs of the node
  EditInputs,   \* how many changes are made in the form
  ForeignEdits  \* how many times someone else changes or recreates the model

VARIABLES
  model,      \* the stored model: uid, generation and its settings
  editor,     \* the open form: the model it was opened for, its draft
  estimated,  \* the estimate query: its state and the draft the figures on screen are for
  saving,     \* the request under way: revision, changes, the draft it was made from
  editInputs, foreignEdits

editVars == <<model, editor, estimated, saving, editInputs, foreignEdits>>

(***************************************************************************)
(* Drafts and stored settings.                                             *)
(***************************************************************************)
Lists == {<<>>} \cup {<<c>> : c \in Cards} \cup {p \in Cards \X Cards : p[1] # p[2]}
Has(local, key) == key \in DOMAIN local
Setting(local, key, default) == IF Has(local, key) THEN local[key] ELSE default
\* Later settings replace earlier ones.
Over(a, b) == [k \in DOMAIN a \cup DOMAIN b |-> IF k \in DOMAIN b THEN b[k] ELSE a[k]]
None == [k \in {} |-> 0]
Set(key, value) == [k \in {key} |-> value]
When(condition, settings) == IF condition THEN settings ELSE None
Clear(condition, key) == IF condition THEN {key} ELSE {}

\* The draft of a stored model.  The devices come from the list, else from the
\* single device; a list is split unless the settings say otherwise.
InitialLocalModelDraft(local) ==
  LET gpus == IF Has(local, "gpuDevices") THEN local.gpuDevices
              ELSE IF Has(local, "gpuDevice") THEN <<local.gpuDevice>> ELSE <<>> IN
  [contextWindow   |-> Setting(local, "contextWindow", 1),
   maxOutputTokens |-> Setting(local, "maxOutputTokens", 0),
   cpu             |-> Setting(local, "cpuResources", 0),
   selectedMi      |-> Setting(local, "vramMi", 1),
   hostMemoryMi    |-> Setting(local, "memoryRequiredMi", 1),
   cpuOffloading   |-> Setting(local, "cpuOffloading", FALSE),
   gpuDevices      |-> gpus,
   gpuDeployment   |-> Setting(local, "gpuDeployment", IF Len(gpus) > 1 THEN "split" ELSE "single"),
   parallelism     |-> IF Has(local, "vllm") THEN Setting(local.vllm, "parallelism", "auto") ELSE "auto",
   vision          |-> IF Has(local, "vllm") THEN Setting(local.vllm, "visionAttention", "auto") ELSE "auto"]

GpuSettings(draft) ==
  CASE Len(draft.gpuDevices) > 1 -> Over(Set("gpuDevices", draft.gpuDevices), Set("gpuDeployment", draft.gpuDeployment))
    [] Len(draft.gpuDevices) = 1 -> Over(Set("gpuDevice", draft.gpuDevices[1]), Set("gpuDeployment", draft.gpuDeployment))
    [] OTHER -> None
Split(draft) == Len(draft.gpuDevices) > 1 /\ draft.gpuDeployment # "replicated"
VllmSettings(draft) ==
  Over(Set("visionAttention", draft.vision), When(Split(draft), Set("parallelism", draft.parallelism)))
NeedsHostRam(draft) == draft.cpuOffloading \/ Len(draft.gpuDevices) > 1

\* A model created by the same form.
LocalModelCreatePayload(draft) ==
  LET required == [contextWindow |-> draft.contextWindow, vramMi |-> draft.selectedMi,
                   vllm |-> VllmSettings(draft), cpuOffloading |-> draft.cpuOffloading] IN
  Over(Over(Over(Over(required, GpuSettings(draft)), When(NeedsHostRam(draft), Set("memoryRequiredMi", draft.hostMemoryMi))),
            When(draft.maxOutputTokens # 0, Set("maxOutputTokens", draft.maxOutputTokens))),
       When(draft.cpu # 0, Set("cpuResources", draft.cpu)))

\* What is sent: settings with a value, and those that are cleared by a null; an
\* absent key keeps what is stored.
Change(set, clear) == [set |-> set, clear |-> clear]
Both(a, b) == Change(Over(a.set, b.set), a.clear \cup b.clear)
Field(initial, draft, field, key) ==
  Change(When(draft[field] # initial[field] /\ draft[field] # 0, Set(key, draft[field])),
         Clear(draft[field] # initial[field] /\ draft[field] = 0, key))
GpuChanges(initial, draft) ==
  LET old == Len(initial.gpuDevices)
      new == Len(draft.gpuDevices) IN
  IF draft.gpuDevices = initial.gpuDevices /\ draft.gpuDeployment = initial.gpuDeployment THEN Change(None, {})
  ELSE Change(GpuSettings(draft), Clear(new = 0, "gpuDeployment") \cup Clear(old <= 1 /\ new # 1, "gpuDevice")
                                    \cup Clear(old > 1 /\ new < 2, "gpuDevices"))
HostRamChanges(initial, draft) ==
  Change(When(/\ NeedsHostRam(draft)
              /\ \E k \in {"hostMemoryMi", "cpuOffloading", "gpuDevices"} : draft[k] # initial[k],
              Set("memoryRequiredMi", draft.hostMemoryMi)),
         Clear(~NeedsHostRam(draft) /\ NeedsHostRam(initial), "memoryRequiredMi"))
VllmChanges(initial, draft) ==
  Change(When(\/ draft.vision # initial.vision
              \/ /\ \E k \in {"gpuDevices", "gpuDeployment", "parallelism"} : draft[k] # initial[k]
                 /\ Len(draft.gpuDevices) > 1 \/ Len(initial.gpuDevices) > 1, Set("vllm", VllmSettings(draft))), {})
LocalModelChanges(initial, draft) ==
  LET fields == Both(Both(Field(initial, draft, "contextWindow", "contextWindow"),
                          Field(initial, draft, "maxOutputTokens", "maxOutputTokens")),
                     Both(Field(initial, draft, "cpu", "cpuResources"), Field(initial, draft, "selectedMi", "vramMi")))
      offload == Change(When(draft.cpuOffloading # initial.cpuOffloading, Set("cpuOffloading", draft.cpuOffloading)), {}) IN
  Both(Both(Both(fields, offload), GpuChanges(initial, draft)),
       Both(HostRamChanges(initial, draft), VllmChanges(initial, draft)))

(***************************************************************************)
(* The API.  The cleared settings are dropped from the stored ones, and    *)
(* the rest is sent to Kubernetes as a merge patch, which keeps the keys   *)
(* it does not name.                                                       *)
(***************************************************************************)
MergedLocalModelSettings(local, changes) ==
  LET merged == Over(local, changes.set)
      replaced == Clear(Has(changes.set, "gpuDevices"), "gpuDevice") \cup Clear(Has(changes.set, "gpuDevice"), "gpuDevices") IN
  Restrict(merged, DOMAIN merged \ (changes.clear \cup replaced))
\* The host memory of a model that needs none is dropped as well.
ModelActivationPayload(merged) ==
  IF Setting(merged, "cpuOffloading", FALSE) \/ (Has(merged, "gpuDevices") /\ Len(merged.gpuDevices) > 1)
  THEN merged ELSE Restrict(merged, DOMAIN merged \ {"memoryRequiredMi"})
PatchModelConfiguration(local, payload) ==
  LET vllm == IF Has(local, "vllm") /\ Has(payload, "vllm")
              THEN Set("vllm", Over(local.vllm, payload.vllm)) ELSE None IN
  Over(Over(local, payload), vllm)
\* The resource's own rule: one way to name the devices, never both.
Admitted(local) == ~(Has(local, "gpuDevice") /\ Has(local, "gpuDevices"))
ModelEditRevision(m) == <<m.uid, m.gen>>

(***************************************************************************)
(* The form.                                                               *)
(***************************************************************************)
Draft0 == InitialLocalModelDraft(None)
Devices(list, mode) == [gpuDevices |-> list, gpuDeployment |-> mode]
\* Drafts from which an earlier use of the form can have created a model.
Created ==
  {Over(Draft0, Devices(list, IF Len(list) > 1 THEN mode ELSE "single")) : list \in Lists, mode \in {"split", "replicated"}}
  \cup {Over(Draft0, [maxOutputTokens |-> 1, cpu |-> 1, cpuOffloading |-> TRUE])}
NoEditor == [open |-> FALSE, of |-> None, initial |-> Draft0, draft |-> Draft0, revision |-> <<>>]
NoSave == [on |-> FALSE, revision |-> <<>>, changes |-> Change(None, {}), from |-> None, meant |-> Draft0]
ModelEditInit ==
  /\ \E d \in Created : model = [uid |-> 1, gen |-> 1, local |-> LocalModelCreatePayload(d)]
  /\ editor = NoEditor /\ saving = NoSave /\ estimated = [state |-> "off", of |-> Draft0]
  /\ editInputs = 0 /\ foreignEdits = 0

\* The model, its revision and its draft are kept as they are when it is opened.
OpenEditor ==
  /\ ~editor.open /\ ~saving.on
  /\ LET d == InitialLocalModelDraft(model.local) IN
     /\ editor' = [open |-> TRUE, of |-> model.local, initial |-> d, draft |-> d, revision |-> ModelEditRevision(model)]
     /\ estimated' = [state |-> "fetching", of |-> d]
  /\ UNCHANGED <<model, saving, editInputs, foreignEdits>>

CloseEditor ==
  /\ editor.open /\ ~saving.on /\ editor' = NoEditor /\ estimated' = [state |-> "off", of |-> Draft0]
  /\ UNCHANGED <<model, saving, editInputs, foreignEdits>>

\* The settings the estimate depends on; changing one starts a query, whose
\* predecessor's figures stay on screen until it answers.
EstimateKey(d) == <<d.contextWindow, d.maxOutputTokens, d.selectedMi, d.cpuOffloading, d.gpuDevices, d.parallelism, d.gpuDeployment>>
EstimateQuery(d) ==
  IF EstimateKey(d) = EstimateKey(editor.draft) THEN estimated ELSE [estimated EXCEPT !.state = "fetching"]

UpdateDraft(d) ==
  /\ d # editor.draft /\ editInputs < EditInputs /\ editInputs' = editInputs + 1
  /\ editor' = [editor EXCEPT !.draft = d] /\ estimated' = EstimateQuery(d)
  /\ UNCHANGED <<model, saving, foreignEdits>>
SetField ==
  \E patch \in [{"contextWindow"} -> {1, 2}] \cup [{"maxOutputTokens"} -> {0, 1}] \cup [{"cpu"} -> {0, 1}]
                 \cup [{"hostMemoryMi"} -> {1, 2}] \cup [{"selectedMi"} -> {1, 2}]
                 \cup [{"cpuOffloading"} -> BOOLEAN] \cup [{"vision"} -> {"auto", "flash"}]
                 \cup [{"parallelism"} -> {"auto", "tensor"}] : UpdateDraft(Over(editor.draft, patch))
\* A second card splits the model, a single one ends the split.
SelectGpuKeys ==
  \E list \in Lists :
    LET mode == editor.draft.gpuDeployment IN
    UpdateDraft(Over(editor.draft, Devices(list, CASE Len(list) > 1 /\ mode = "single" -> "split"
                                              [] Len(list) = 1 /\ mode = "split" -> "single"
                                              [] OTHER -> mode)))
SelectDeployment ==
  \E mode \in {"single", "split", "replicated"} :
    UpdateDraft(Over(editor.draft, Devices(IF mode = "single" /\ Len(editor.draft.gpuDevices) > 1
                                      THEN <<Head(editor.draft.gpuDevices)>> ELSE editor.draft.gpuDevices, mode)))
EditDraft == editor.open /\ ~saving.on /\ (SetField \/ SelectGpuKeys \/ SelectDeployment)

EstimateAnswers ==
  /\ estimated.state = "fetching" /\ estimated' = [state |-> "ready", of |-> editor.draft]
  /\ UNCHANGED <<model, editor, saving, editInputs, foreignEdits>>
EstimateFails ==
  /\ estimated.state = "fetching" /\ estimated' = [estimated EXCEPT !.state = "error"]
  /\ UNCHANGED <<model, editor, saving, editInputs, foreignEdits>>
\* The window gets the focus again.
EstimateRefetched ==
  /\ estimated.state \in {"ready", "error"} /\ ~saving.on /\ estimated' = [estimated EXCEPT !.state = "fetching"]
  /\ UNCHANGED <<model, editor, saving, editInputs, foreignEdits>>

Invalid == editor.draft.gpuDeployment # "single" /\ Len(editor.draft.gpuDevices) < 2
Changes == LocalModelChanges(editor.initial, editor.draft)
Busy == estimated.state \in {"fetching", "error"}
\* Mutant: the revision of the newest list is sent.
NewestModelRevision == ModelEditRevision(model)
ExpectedModelRevision == editor.revision
SaveModel ==
  /\ editor.open /\ ~saving.on /\ ~Invalid /\ Changes # Change(None, {}) /\ ~Busy
  /\ saving' = [on |-> TRUE, revision |-> ExpectedModelRevision, changes |-> Changes, from |-> editor.of, meant |-> editor.draft]
  /\ UNCHANGED <<model, editor, estimated, editInputs, foreignEdits>>

\* The API takes the changes for the revision they were made for only.
ModelUpdated ==
  /\ saving.on /\ saving.revision = ModelEditRevision(model)
  /\ LET payload == ModelActivationPayload(MergedLocalModelSettings(model.local, saving.changes)) IN
     /\ Admitted(PatchModelConfiguration(model.local, payload))
     /\ model' = [model EXCEPT !.gen = @ + 1, !.local = PatchModelConfiguration(@, payload)]
  /\ saving' = NoSave /\ editor' = NoEditor /\ estimated' = [state |-> "off", of |-> Draft0]
  /\ UNCHANGED <<editInputs, foreignEdits>>
ModelConflict ==
  /\ saving.on /\ saving.revision # ModelEditRevision(model)
  /\ saving' = NoSave /\ UNCHANGED <<model, editor, estimated, editInputs, foreignEdits>>
\* Any other error; the form stays as it is.
ModelRefused ==
  /\ saving.on /\ saving' = NoSave /\ UNCHANGED <<model, editor, estimated, editInputs, foreignEdits>>

\* Someone else changes a setting, or deletes the model and creates it anew.
ForeignChange ==
  /\ foreignEdits < ForeignEdits /\ foreignEdits' = foreignEdits + 1
  /\ model' \in {[model EXCEPT !.gen = @ + 1, !.local = Over(@, Set("contextWindow", 2))],
                 [uid |-> model.uid + 1, gen |-> 1, local |-> Over(model.local, Set("contextWindow", 2))]}
  /\ UNCHANGED <<editor, estimated, saving, editInputs>>

ModelEditNext ==
  \/ OpenEditor \/ CloseEditor \/ EditDraft
  \/ EstimateAnswers \/ EstimateFails \/ EstimateRefetched
  \/ SaveModel \/ ModelUpdated \/ ModelConflict \/ ModelRefused \/ ForeignChange

ModelEditSpec == ModelEditInit /\ [][ModelEditNext]_editVars

(***************************************************************************)
(* Properties.                                                             *)
(***************************************************************************)
\* What a draft asks for: settings without an effect are left out.
Meaning(d) ==
  [d EXCEPT !.hostMemoryMi = IF NeedsHostRam(d) THEN @ ELSE 0, !.parallelism = IF Split(d) THEN @ ELSE "auto",
            !.gpuDeployment = IF d.gpuDevices = <<>> THEN "single" ELSE @]

\* The settings are as a form writes them, without remains of cleared ones.
AsWritten(local) == local = LocalModelCreatePayload(InitialLocalModelDraft(local))

\* The changes that are sent, merged into the settings they were made for, give
\* the settings of the draft: a device list left behind, a host memory that is
\* not sent again or a parallelism that survives would change what runs.
ChangesTrue ==
  saving.on /\ AsWritten(saving.from) => Meaning(InitialLocalModelDraft(
                 ModelActivationPayload(MergedLocalModelSettings(saving.from, saving.changes)))) = Meaning(saving.meant)

\* A change is applied to the very settings the form showed when it was opened:
\* what someone else saved meanwhile is not lost, also in a model that was
\* recreated with the same name.
EditsKept == [][saving.on /\ model' # model /\ foreignEdits' = foreignEdits => model.local = saving.from]_editVars

\* The figures on which a change was saved are those of the draft that is sent,
\* not of an earlier one whose query was answered last.
SavedAsEstimated == saving.on => EstimateKey(estimated.of) = EstimateKey(saving.meant)

\* A model that was saved shows the saved settings when it is opened again: a
\* cleared setting is gone.
ClearedGone ==
  [][saving.on /\ model' # model /\ foreignEdits' = foreignEdits
       => Meaning(InitialLocalModelDraft(model'.local)) = Meaning(saving.meant)]_editVars

=============================================================================

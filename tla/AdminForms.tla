----------------------------- MODULE AdminForms -----------------------------
(***************************************************************************)
(* The forms of the dashboard by which administrators change saved         *)
(* settings: license, identity provider, sharing of an instance, GPU       *)
(* sharing, AMD profile, domains, external model, access of a user, mesh   *)
(* share, cleanup of a test run, and the buttons that start and stop a     *)
(* model.  A query polls the setting, others change it, the form keeps a   *)
(* draft, most have it reviewed, some bind the request to the revision     *)
(* they showed.                                                            *)
(* A setting is a revision and a value; values are only told apart, and    *)
(* are what a form shows: a provider's revision is made of its shown       *)
(* fields, so that a new client secret alone is no change.  The query      *)
(* client is modelled by what the pages use of it: one fetch per query at  *)
(* a time, cancelled by a refresh.                                         *)
(***************************************************************************)
EXTENDS Integers, Sequences, FiniteSets

CONSTANTS
  FormInputs,   \* how often the administrator opens the form, types, picks a file, reviews or saves
  OtherEdits,   \* how often others change the setting
  FormFaults    \* how many polls fail, answers are lost or saves break off

VARIABLES
  panel,     \* which form is on screen
  saved,     \* the setting at the API
  seen,      \* the query's data
  poll,      \* the query's fetch under way, with what it read
  form,      \* the form: opened, what it is based on, its draft, its review, whether it waits
  requests,  \* file reads, checks and saves under way
  lastSave,  \* of the last save that changed the setting: its value, what it replaced, what its form had shown and reviewed
  formInputs, otherEdits, formFaults

formVars == <<panel, saved, seen, poll, form, requests, lastSave, formInputs, otherEdits, formFaults>>

(***************************************************************************)
(* The forms: how they come on screen; what a request is bound to (the     *)
(* revision the form was opened with, the one a review or its answer       *)
(* named, the newest one polled, or none); how a draft is reviewed;        *)
(* whether polled changes make the form anew; whether its fields are       *)
(* locked while it waits.                                                  *)
(***************************************************************************)
LicensePage == [opens |-> "page", bound |-> "answer", review |-> "server", keyed |-> FALSE, locked |-> TRUE]
ProviderDialog == [opens |-> "dialog", bound |-> "opening", review |-> "server", keyed |-> FALSE, locked |-> FALSE]
SharingEditor == [opens |-> "fetch", bound |-> "opening", review |-> "tick", keyed |-> FALSE, locked |-> TRUE]
SharingForm == [opens |-> "page", bound |-> "poll", review |-> "dialog", keyed |-> TRUE, locked |-> TRUE]
ProfileControls == [opens |-> "page", bound |-> "none", review |-> "none", keyed |-> TRUE, locked |-> TRUE]
DomainSettings == [opens |-> "page", bound |-> "none", review |-> "none", keyed |-> FALSE, locked |-> FALSE]
ExternalModelEditForm == [opens |-> "dialog", bound |-> "opening", review |-> "none", keyed |-> FALSE, locked |-> FALSE]
AccessDialog == [opens |-> "dialog", bound |-> "none", review |-> "none", keyed |-> FALSE, locked |-> FALSE]
ShareEditor == [opens |-> "page", bound |-> "none", review |-> "none", keyed |-> TRUE, locked |-> FALSE]
RegressionPage == [opens |-> "page", bound |-> "review", review |-> "dialog", keyed |-> FALSE, locked |-> TRUE]
ModelsPage == [opens |-> "page", bound |-> "poll", review |-> "none", keyed |-> FALSE, locked |-> TRUE]
Panels ==
  [license |-> LicensePage, federation |-> ProviderDialog, sharing |-> SharingEditor, gpu |-> SharingForm,
   profile |-> ProfileControls, domains |-> DomainSettings, external |-> ExternalModelEditForm, user |-> AccessDialog,
   mesh |-> ShareEditor, regression |-> RegressionPage, models |-> ModelsPage]
Panel == Panels[panel]

NotReviewed == <<>>
NewForm(data) == [open |-> TRUE, base |-> data, draft |-> data.value, reviewed |-> NotReviewed, picked |-> 0, state |-> "idle"]
NoFile(f) == [f EXCEPT !.draft = 0, !.reviewed = NotReviewed]
Closed == [NewForm([rev |-> 0, value |-> 0]) EXCEPT !.open = FALSE]
Changed == form.draft # form.base.value

AdminFormsInit ==
  /\ panel \in DOMAIN Panels /\ saved = [rev |-> 1, value |-> 0] /\ seen = saved /\ poll = <<>>
  /\ form = (IF Panel.opens = "page" THEN NewForm(saved) ELSE Closed) /\ requests = {}
  /\ lastSave = [value |-> 0, was |-> 0, shown |-> 0, reviewed |-> <<0>>, confirmed |-> 0]
  /\ formInputs = 0 /\ otherEdits = 0 /\ formFaults = 0

(***************************************************************************)
(* The query.                                                              *)
(***************************************************************************)
\* The domains follow the saved ones until they are typed over.
DomainsFollowed(f, data) ==
  [f EXCEPT !.base = data, !.draft = IF f.draft = f.base.value THEN data.value ELSE @]
Orphaned(rs) == {[r EXCEPT !.mine = FALSE] : r \in rs}
\* The form with new data of the query: made anew, brought up to date, or left alone.
Shows(data) ==
  /\ seen' = data
  /\ IF Panel.keyed /\ data.value # form.base.value THEN form' = NewForm(data) /\ requests' = Orphaned(requests)
     ELSE /\ UNCHANGED requests
          /\ form' = CASE panel = "domains" -> DomainsFollowed(form, data) [] Panel.keyed -> [form EXCEPT !.base = data] [] OTHER -> form

\* The fetch under way is dropped for one that reads now.
Refresh == poll' = <<saved>>
\* A poll matters if there is news, or will be before it is answered.
Sends == \E r \in requests : r.what = "save"
PollStarts ==
  /\ poll = <<>> /\ (seen # saved \/ Sends) /\ Refresh
  /\ UNCHANGED <<panel, saved, seen, form, requests, lastSave, formInputs, otherEdits, formFaults>>
PollAnswered ==
  /\ poll # <<>> /\ poll' = <<>> /\ Shows(poll[1])
  /\ UNCHANGED <<panel, saved, lastSave, formInputs, otherEdits, formFaults>>
FormFault == formFaults < FormFaults /\ formFaults' = formFaults + 1
PollLost ==
  /\ poll # <<>> /\ poll' = <<>> /\ FormFault
  /\ UNCHANGED <<panel, saved, seen, form, requests, lastSave, formInputs, otherEdits>>

(***************************************************************************)
(* Draft and review.                                                       *)
(***************************************************************************)
Input == formInputs < FormInputs /\ formInputs' = formInputs + 1
OpenForm ==
  /\ ~form.open /\ Input /\ form' = NewForm(IF Panel.opens = "fetch" THEN saved ELSE seen)
  /\ UNCHANGED <<panel, saved, seen, poll, requests, lastSave, otherEdits, formFaults>>
CloseForm ==
  /\ form.open /\ Panel.opens # "page" /\ form' = Closed /\ requests' = Orphaned(requests)
  /\ UNCHANGED <<panel, saved, seen, poll, lastSave, formInputs, otherEdits, formFaults>>

Editable == form.open /\ (Panel.locked => form.state = "idle") /\ (Panel.review = "dialog" => form.reviewed = NotReviewed)
\* A review is of the draft it was made for.
Typed(f, v) == [f EXCEPT !.draft = v, !.reviewed = NotReviewed]
\* What was checked of a provider is its address; it stays checked when another field is typed.
TypedBeside(f, v) == [f EXCEPT !.draft = v, !.reviewed = IF @ = NotReviewed THEN NotReviewed ELSE <<v>>]
TypeDraft ==
  /\ Editable /\ panel \notin {"license", "regression", "models"} /\ Input
  /\ \/ form' = Typed(form, formInputs')
     \/ panel = "federation" /\ form' = TypedBeside(form, formInputs')
  /\ UNCHANGED <<panel, saved, seen, poll, requests, lastSave, otherEdits, formFaults>>
Request(what, value) ==
  [what |-> what, value |-> value, token |-> 0, shown |-> 0, reviewed |-> form.reviewed, mine |-> TRUE, state |-> "sent", result |-> saved]

NewSelection(f) == NoFile(f)
SelectFile ==
  /\ Editable /\ panel = "license" /\ Input
  /\ form' = [NewSelection(form) EXCEPT !.picked = formInputs'] /\ requests' = requests \cup {Request("read", formInputs')}
  /\ UNCHANGED <<panel, saved, seen, poll, lastSave, otherEdits, formFaults>>
\* The content of a file that is no longer the one picked is dropped.
FileRead(r) ==
  /\ r.what = "read" /\ requests' = requests \ {r}
  /\ form' = IF r.value = form.picked THEN [form EXCEPT !.draft = r.value] ELSE form
  /\ UNCHANGED <<panel, saved, seen, poll, lastSave, formInputs, otherEdits, formFaults>>

\* A tick, or a dialog that asks once more; a cleanup's dialog keeps the revision of the lock it shows.
ReviewDraft ==
  /\ form.open /\ form.state = "idle" /\ form.reviewed = NotReviewed /\ Input
  /\ \/ Panel.review = "tick" /\ form' = [form EXCEPT !.reviewed = <<form.draft>>]
     \/ panel = "gpu" /\ Changed /\ form' = [form EXCEPT !.reviewed = <<form.draft>>]
     \/ panel = "regression" /\ form' = [form EXCEPT !.reviewed = <<seen.value>>, !.base = seen]
  /\ UNCHANGED <<panel, saved, seen, poll, requests, lastSave, otherEdits, formFaults>>
ReviewCancelled ==
  /\ Panel.review \in {"tick", "dialog"} /\ form.state = "idle" /\ form.reviewed # NotReviewed
  /\ form' = [form EXCEPT !.reviewed = NotReviewed]
  /\ UNCHANGED <<panel, saved, seen, poll, requests, lastSave, formInputs, otherEdits, formFaults>>
\* The API is asked about a license, and the form waits, or about an identity
\* provider's metadata, one check at a time and whether or not a save is under way.
Validating == \E r \in requests : r.what = "check" /\ r.mine
CheckDraft ==
  /\ form.open /\ Panel.review = "server" /\ ~Validating /\ Input /\ requests' = requests \cup {Request("check", form.draft)}
  /\ \/ panel = "license" /\ form.state = "idle" /\ form.draft # 0 /\ form' = [form EXCEPT !.state = "checking"]
     \/ panel = "federation" /\ UNCHANGED form
  /\ UNCHANGED <<panel, saved, seen, poll, lastSave, otherEdits, formFaults>>

(***************************************************************************)
(* Saving.                                                                 *)
(***************************************************************************)
Ready ==
  CASE panel = "license" -> form.reviewed # NotReviewed
    [] panel = "federation" -> form.reviewed = <<form.draft>>
    [] panel \in {"sharing", "gpu"} -> form.reviewed # NotReviewed
    [] panel = "regression" -> form.reviewed # NotReviewed /\ seen.rev = form.base.rev
    [] panel = "models" -> TRUE
    [] OTHER -> Changed
\* Mutant: the request names the newest revision.
TokenOfNewest == saved.rev
Token == IF Panel.bound = "poll" THEN seen.rev ELSE form.base.rev
SubmitForm ==
  /\ form.open /\ form.state = "idle" /\ Ready /\ panel # "models" /\ Input
  /\ requests' = requests \cup {[Request("save", form.draft) EXCEPT !.token = Token, !.shown = form.base.value]}
  /\ form' = [form EXCEPT !.state = "sending"]
  /\ UNCHANGED <<panel, saved, seen, poll, lastSave, otherEdits, formFaults>>
\* Start, stop or restart of the model as its row shows it; polls under way are cancelled.
RunLifecycle ==
  /\ panel = "models" /\ form.state = "idle" /\ Input
  /\ requests' = requests \cup {[Request("save", formInputs') EXCEPT !.token = Token, !.shown = seen.value]}
  /\ form' = [form EXCEPT !.state = "sending"] /\ poll' = <<>>
  /\ UNCHANGED <<panel, saved, seen, lastSave, otherEdits, formFaults>>

Replied(r, state, result) == requests' = (requests \ {r}) \cup {[r EXCEPT !.state = state, !.result = result]}
Becomes(value) == saved' = [rev |-> saved.rev + 1, value |-> value]
\* A save of an identity provider that breaks off leaves it disabled and changed in part.
BreaksOff(r) == panel = "federation" /\ FormFault /\ Becomes(0 - OtherEdits - formFaults') /\ Replied(r, "refused", saved')
ApiSaves(r) ==
  /\ r.what = "save" /\ r.state = "sent"
  /\ IF Panel.bound # "none" /\ r.token # saved.rev
     THEN Replied(r, "refused", saved) /\ UNCHANGED <<saved, lastSave, formFaults>>
     ELSE /\ (Becomes(r.value) /\ Replied(r, "ok", saved') /\ UNCHANGED formFaults) \/ BreaksOff(r)
          /\ lastSave' = [lastSave EXCEPT !.value = r.value, !.was = saved.value, !.shown = r.shown, !.reviewed = r.reviewed]
  /\ UNCHANGED <<panel, seen, poll, form, formInputs, otherEdits>>
ApiChecks(r) ==
  /\ r.what = "check" /\ r.state = "sent"
  /\ \E answer \in {"ok", "refused"} : Replied(r, answer, saved)
  /\ UNCHANGED <<panel, saved, seen, poll, form, lastSave, formInputs, otherEdits, formFaults>>

\* What an answer does to the form that waits for it.
SaveAccepted ==
  form' = CASE Panel.opens # "page" -> Closed
            [] panel = "license" -> [NoFile(form) EXCEPT !.state = "idle"]
            [] OTHER -> [form EXCEPT !.reviewed = NotReviewed, !.state = "idle"]
\* Mutant: an answer of no avail leaves the form waiting.
FailedWaiting(f) == [f EXCEPT !.reviewed = IF panel = "license" THEN NotReviewed ELSE @]
Failed(f) == [f EXCEPT !.state = "idle", !.reviewed = IF panel = "license" THEN NotReviewed ELSE @]
SaveAnswered(r) ==
  /\ r.what = "save" /\ r.state = "ok" /\ Refresh
  /\ requests' = IF Panel.opens = "page" THEN requests \ {r} ELSE Orphaned(requests \ {r})
  /\ IF r.mine \/ Panel.opens # "page" THEN SaveAccepted ELSE UNCHANGED form
  /\ IF panel \in {"license", "models"} THEN seen' = r.result /\ lastSave' = [lastSave EXCEPT !.confirmed = r.result.rev]
     ELSE UNCHANGED <<seen, lastSave>>
  /\ UNCHANGED <<panel, saved, formInputs, otherEdits, formFaults>>
\* The preview of a license names the one it would replace.  The metadata that was
\* checked counts for the address in the form now.
CheckAnswered(r) ==
  /\ r.what = "check" /\ r.state = "ok" /\ requests' = requests \ {r}
  /\ form' = CASE ~r.mine -> form
               [] r.mine /\ panel = "license" -> [form EXCEPT !.base = r.result, !.reviewed = <<r.value>>, !.state = "idle"]
               [] OTHER -> [form EXCEPT !.reviewed = <<form.draft>>]
  /\ UNCHANGED <<panel, saved, seen, poll, lastSave, formInputs, otherEdits, formFaults>>
Awaited(r) == r.mine /\ (r.what = "check" => panel = "license")
RequestFails(r) ==
  /\ requests' = requests \ {r} /\ form' = (IF Awaited(r) THEN Failed(form) ELSE form)
  /\ UNCHANGED <<panel, saved, seen, poll, lastSave, formInputs, otherEdits>>
RequestRefused(r) == r.state = "refused" /\ RequestFails(r) /\ UNCHANGED formFaults
AnswerLost(r) == r.what # "read" /\ FormFault /\ RequestFails(r)

OthersEdit ==
  /\ otherEdits < OtherEdits /\ otherEdits' = otherEdits + 1
  /\ Becomes(0 - otherEdits')
  /\ UNCHANGED <<panel, seen, poll, form, requests, lastSave, formInputs, formFaults>>

FormsRespond ==
  \E r \in requests : FileRead(r) \/ ApiSaves(r) \/ ApiChecks(r) \/ SaveAnswered(r) \/ CheckAnswered(r) \/ RequestRefused(r)
AdminFormsNext ==
  \/ PollStarts \/ PollAnswered \/ PollLost \/ OpenForm \/ CloseForm \/ TypeDraft \/ SelectFile \/ ReviewDraft \/ ReviewCancelled
  \/ CheckDraft \/ SubmitForm \/ RunLifecycle \/ FormsRespond \/ OthersEdit \/ \E r \in requests : AnswerLost(r)

\* Calls are answered or fail.
AdminFormsFairness == WF_formVars(FormsRespond)
AdminFormsSpec == AdminFormsInit /\ [][AdminFormsNext]_formVars /\ AdminFormsFairness

(***************************************************************************)
(* Properties.                                                             *)
(***************************************************************************)
\* A save that is bound to a revision replaces the value its form was based on:
\* what others saved in the meantime is never overwritten unseen, whatever was
\* polled between opening, reviewing and confirming.
ReplacesShown == Panel.bound # "none" => lastSave.was = lastSave.shown

\* The license that is imported is the one whose preview was on screen, and who
\* may use an instance and how GPUs are shared is saved as it was confirmed.
SavedAsReviewed == panel \in {"license", "sharing", "gpu"} => lastSave.reviewed = <<lastSave.value>>

\* What was typed into the domains is never replaced by what is polled.
TypedKept ==
  [][panel = "domains" /\ form.draft # form.base.value /\ seen' # seen => form'.draft = form.draft]_formVars

\* A fetch that read the model list before a start or stop was carried out does not
\* hide the confirmed state again.
ConfirmedShown == panel = "models" => seen.rev >= lastSave.confirmed

FormFree == form.state = "idle" /\ ~Validating

\* No form waits forever.
FormsReturn == []<>FormFree

=============================================================================

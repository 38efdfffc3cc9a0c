-------------------------- MODULE TerminalSession --------------------------
(***************************************************************************)
(* The terminal client (apps/cli): the console's device login, the saved   *)
(* session, and the interactive dashboard of tui.ts.                       *)
(*                                                                         *)
(* tui.ts is one thread of callbacks: keys, a refresh timer and the        *)
(* answers of the API.  What an answer finds when it comes back is not     *)
(* what its request left: the list was reloaded, a dialog was closed or    *)
(* opened, the license was replaced, the session was signed out.           *)
(***************************************************************************)
EXTENDS Integers, Sequences, FiniteSets

CONSTANTS
  Entities,       \* the rows of each list, in the order they are shown
  Protected,      \* accounts that may not be changed
  DeviceLife,     \* how many units of time a device code is valid
  TerminalFaults, \* how many calls may fail or be disturbed
  TerminalInputs  \* how many dialogs may be opened, kubeconfigs copied or license forms sent again

VARIABLES
  appliance,   \* the server: role, items, enabled services, license revision, runtime
  snap,        \* the snapshot on the screen
  ui,          \* tab, selection per list, overlay, loading
  job,         \* the operation in flight
  load,        \* a reload in flight: of the timer or of the operation
  inspections, \* how many license inspections are in flight
  session,     \* the cached session and session.json: "none", "fresh", "old"
  renewal,     \* a renewal of the access token: "none", "asked", "granted", "refused"
  console,     \* the console: pc, interval and rest of the device code
  sent,        \* history: the operations begun, and what the user had accepted
  secret,      \* history: the last key created: "none", "shown", "lost"
  terminalFaults,
  dialogs      \* how many dialogs were opened, kubeconfigs copied and license forms sent again

terminalVars == <<appliance, snap, ui, job, load, inspections, session, renewal,
                  console, sent, secret, terminalFaults, dialogs>>
tokenVars == <<session, renewal, console>>
historyVars == <<sent, secret>>
screenVars == <<snap, ui, job, load, inspections>>

ListTabs == {"services", "models", "users", "keys", "kubernetes"}
EntitiesOf(tab) == {Entities[tab][i] : i \in 1 .. Len(Entities[tab])}
AllEntities == UNION {EntitiesOf(t) : t \in ListTabs}

NoItem == "none"
Dialog(kind, act, item) == [kind |-> kind, act |-> act, item |-> item, rev |-> 0]
NoDialog == Dialog("none", "none", NoItem)
Message(act) == Dialog("message", act, NoItem)
Note == Message("note")
NoJob == [pc |-> "none", act |-> "none", item |-> NoItem, rev |-> 0, origin |-> NoDialog]
NoLoad == [pc |-> "none", role |-> "none"]

AvailableTabs(s) ==
  <<"overview", "services", "models">>
    \o (IF s.role = "admin" THEN <<"users", "keys", "license", "kubernetes">> ELSE <<>>)
    \o <<"hardware">>
MoveTab(index, step, count) == ((index - 1 + step + count) % count) + 1
MoveSelection(index, step, count) ==
  IF count = 0 \/ index + step < 1 THEN 1 ELSE IF index + step > count THEN count ELSE index + step

\* What the screen lists on a tab.
Rows(tab, s) == IF tab \in ListTabs THEN SelectSeq(Entities[tab], LAMBDA e : e \in s.items) ELSE <<>>
\* A tab the role no longer has is the overview.
ActiveTab == IF ui.tab <= Len(AvailableTabs(snap)) THEN AvailableTabs(snap)[ui.tab] ELSE "overview"
SelectedEntity ==
  LET rows == Rows(ActiveTab, snap)
  IN  IF ActiveTab \in ListTabs /\ ui.sel[ActiveTab] <= Len(rows) THEN rows[ui.sel[ActiveTab]] ELSE NoItem
ClampSelection(sel, s) ==
  [t \in ListTabs |-> IF \E i \in 1 .. Len(AvailableTabs(s)) : AvailableTabs(s)[i] = t
                      THEN MoveSelection(sel[t], 0, Len(Rows(t, s))) ELSE sel[t]]

TerminalInit ==
  /\ appliance = [role |-> "admin", items |-> AllEntities, on |-> {}, lic |-> 1, runtime |-> TRUE]
  /\ snap = appliance
  /\ ui = [tab |-> 1, sel |-> [t \in ListTabs |-> 1], overlay |-> NoDialog, loading |-> FALSE]
  /\ job = NoJob /\ load = NoLoad /\ inspections = 0
  /\ \E s \in {"none", "fresh", "old"} : session = [cached |-> s, file |-> s]
  /\ renewal = "none" /\ console = [pc |-> "session", interval |-> 1, left |-> 0]
  /\ sent = [open |-> 0, item |-> NoItem, accepted |-> NoItem, reviewed |-> 0, replaced |-> 0]
  /\ secret = "none" /\ terminalFaults = 0 /\ dialogs = 0

TFault == terminalFaults < TerminalFaults /\ terminalFaults' = terminalFaults + 1
Opened == dialogs < TerminalInputs /\ dialogs' = dialogs + 1
\* The screen stays until a sign-out under way is over.
Screen == console.pc \in {"tui", "leaving"}

(***************************************************************************)
(* The console: use the saved session or ask for a device login.           *)
(***************************************************************************)
ConsoleTo(pc) == console' = [pc |-> pc, interval |-> 1, left |-> 0]

\* An expired session is renewed and saved; a refusal asks for a login, any
\* other failure ends the console.
OpenConsole ==
  /\ console.pc = "session"
  /\ \/ /\ session.cached # "none" /\ session' = [cached |-> "fresh", file |-> "fresh"]
        /\ ConsoleTo("start") /\ UNCHANGED terminalFaults
     \/ session.cached = "none" /\ ConsoleTo("logout") /\ UNCHANGED <<session, terminalFaults>>
     \/ session.cached # "none" /\ TFault /\ ConsoleTo("logout") /\ UNCHANGED session
     \/ session.cached # "none" /\ TFault /\ ConsoleTo("failed") /\ UNCHANGED session
  /\ UNCHANGED <<appliance, screenVars, renewal, historyVars, dialogs>>

\* The rejected session is removed before the login is asked for.
ConsoleLogout ==
  /\ console.pc = "logout" /\ ConsoleTo("device") /\ session' = [cached |-> "none", file |-> "none"]
  /\ UNCHANGED <<appliance, screenVars, renewal, historyVars, terminalFaults, dialogs>>

RequestDeviceCode ==
  /\ console.pc = "device"
  /\ \/ console' = [pc |-> "poll", interval |-> 1, left |-> DeviceLife] /\ UNCHANGED terminalFaults
     \/ TFault /\ ConsoleTo("failed")
  /\ UNCHANGED <<appliance, screenVars, session, renewal, historyVars, dialogs>>

Slower(interval) == IF interval + 5 > DeviceLife THEN DeviceLife ELSE interval + 5

\* Wait, then ask.  Pending goes on, slow_down waits longer, a token is saved,
\* anything else ends the login.
PollDevice(answer) ==
  /\ console.pc = "poll" /\ console.left > 0
  /\ CASE answer = "granted" -> /\ session' = [cached |-> "fresh", file |-> "fresh"]
                                /\ ConsoleTo("start") /\ UNCHANGED terminalFaults
       [] answer = "denied" -> ConsoleTo("failed") /\ TFault /\ UNCHANGED session
       [] OTHER -> /\ console' = [console EXCEPT !.left = @ - console.interval,
                                    !.interval = IF answer = "slow_down" THEN Slower(@) ELSE @]
                   /\ UNCHANGED <<session, terminalFaults>>
  /\ UNCHANGED <<appliance, screenVars, renewal, historyVars, dialogs>>

DeviceExpired ==
  /\ console.pc = "poll" /\ console.left <= 0 /\ ConsoleTo("failed")
  /\ UNCHANGED <<appliance, screenVars, session, renewal, historyVars, terminalFaults, dialogs>>

\* The first snapshot is loaded before the screen is taken.
StartTui ==
  /\ console.pc = "start"
  /\ \/ snap' = appliance /\ ConsoleTo("tui") /\ UNCHANGED terminalFaults
     \/ TFault /\ ConsoleTo("failed") /\ UNCHANGED snap
  /\ UNCHANGED <<appliance, ui, job, load, inspections, session, renewal, historyVars, dialogs>>

(***************************************************************************)
(* The access token: renewed by the call that finds it expired.            *)
(***************************************************************************)
TokenExpires ==
  /\ Screen /\ session.cached = "fresh" /\ renewal = "none" /\ TFault
  /\ session' = [session EXCEPT !.cached = "old"]
  /\ UNCHANGED <<appliance, screenVars, renewal, console, historyVars, dialogs>>

Calling == load.pc # "none" \/ job.pc = "sent" \/ inspections > 0
RefreshSession ==
  /\ Calling /\ session.cached = "old" /\ renewal = "none" /\ renewal' = "asked"
  /\ UNCHANGED <<appliance, screenVars, session, console, historyVars, terminalFaults, dialogs>>

\* The answer is assigned to the cached session, whatever happened meanwhile.
RenewalAnswers ==
  /\ renewal = "asked"
  /\ \/ renewal' = "granted" /\ session' = [session EXCEPT !.cached = "fresh"]
     \/ renewal' = "refused" /\ UNCHANGED session
  /\ UNCHANGED <<appliance, screenVars, console, historyVars, terminalFaults, dialogs>>

WriteSession ==
  /\ renewal = "granted" /\ renewal' = "none" /\ session' = [session EXCEPT !.file = "fresh"]
  /\ UNCHANGED <<appliance, screenVars, console, historyVars, terminalFaults, dialogs>>

Authorised == session.cached = "fresh"
\* A call fails without a session or its renewal, or for a reason of its own.
CallFails == IF session.cached = "none" \/ renewal = "refused" THEN UNCHANGED terminalFaults ELSE TFault

(***************************************************************************)
(* Loading a snapshot: the session first, then the lists of its role.      *)
(***************************************************************************)
RefreshStarts ==
  /\ Screen /\ ~ui.loading /\ ui.overlay = NoDialog
  /\ ui' = [ui EXCEPT !.loading = TRUE] /\ load' = [NoLoad EXCEPT !.pc = "session"]
  /\ UNCHANGED <<appliance, snap, job, inspections, tokenVars, historyVars, terminalFaults, dialogs>>

LoadSession ==
  /\ load.pc = "session" /\ Authorised /\ load' = [pc |-> "lists", role |-> appliance.role]
  /\ UNCHANGED <<appliance, snap, ui, job, inspections, tokenVars, historyVars, terminalFaults, dialogs>>

\* The lists of an administrator are refused to one who no longer is.
ListsGranted == load.role # "admin" \/ appliance.role = "admin"
OperationOver == sent' = [sent EXCEPT !.open = @ - 1, !.item = NoItem, !.accepted = NoItem, !.reviewed = 0, !.replaced = 0]
Reported(act) == IF act = "key" THEN Message("secret") ELSE Note
\* The end of a reload, and of the operation it belongs to: a reload that fails
\* is only mentioned beside what the operation returned.
LoadSettled(ok) ==
  /\ load' = NoLoad /\ job' = NoJob
  /\ IF job.pc = "done"
     THEN /\ ui' = [ui EXCEPT !.loading = FALSE, !.overlay = Reported(job.act),
                              !.sel = IF ok THEN ClampSelection(@, snap') ELSE @]
          /\ secret' = IF job.act = "key" THEN "shown" ELSE secret
          /\ OperationOver
     ELSE /\ ui' = [ui EXCEPT !.loading = FALSE, !.sel = IF ok THEN ClampSelection(@, snap') ELSE @]
          /\ UNCHANGED historyVars

LoadLists ==
  /\ load.pc = "lists" /\ Authorised /\ ListsGranted
  /\ snap' = [appliance EXCEPT !.role = load.role] /\ LoadSettled(TRUE)
  /\ UNCHANGED <<appliance, inspections, tokenVars, terminalFaults, dialogs>>

LoadFails ==
  /\ load.pc # "none" /\ UNCHANGED snap
  /\ IF load.pc = "lists" /\ ~ListsGranted THEN UNCHANGED terminalFaults ELSE CallFails
  /\ LoadSettled(FALSE)
  /\ UNCHANGED <<appliance, inspections, tokenVars, dialogs>>

(***************************************************************************)
(* Keys while no dialog is open.                                           *)
(***************************************************************************)
Browsing == Screen /\ ui.overlay = NoDialog
OverlayShows(o) == ui' = [ui EXCEPT !.overlay = o]

KeyTab(step) ==
  /\ Browsing
  /\ ui' = [ui EXCEPT !.tab = MoveTab(@, step, Len(AvailableTabs(snap))), !.sel = ClampSelection(@, snap)]
  /\ UNCHANGED <<appliance, snap, job, load, inspections, tokenVars, historyVars, terminalFaults, dialogs>>

KeyRow(step) ==
  /\ Browsing /\ ActiveTab \in ListTabs
  /\ ui' = [ui EXCEPT !.sel[ActiveTab] = MoveSelection(@, step, Len(Rows(ActiveTab, snap)))]
  /\ UNCHANGED <<appliance, snap, job, load, inspections, tokenVars, historyVars, terminalFaults, dialogs>>

\* Enabling asks for the parameters or a confirmation, disabling confirms.
ServiceDialogs(e) ==
  IF e = NoItem THEN {}
  ELSE IF e \in snap.on THEN {Note, Dialog("confirm", "disable", e)}
  ELSE {Note, Dialog("form", "enable", e), Dialog("confirm", "enable", e)}
\* A new model: where it runs, for a local one which runtime, then the form.
\* Its operation asks for an estimate first and fails if the model cannot fit.
AddLocalModel == IF snap.runtime THEN {Dialog("form", "local", NoItem)} ELSE {Note}
AddExternalModel == Dialog("form", "create", NoItem)
AddModel == AddLocalModel \cup {AddExternalModel}
ModelDialogs(e) ==
  {Dialog("menu", "add model", NoItem)} \cup (IF e = NoItem THEN {} ELSE {Dialog("confirm", "remove", e)})
CreateUser == Dialog("form", "create", NoItem)
\* A protected account, or one of another provider, only says so.
ManageUser(e) ==
  IF e \in Protected THEN {Note} ELSE {Dialog("form", "change", e), Dialog("confirm", "change", e)}
DeleteUser(e) == IF e \in Protected THEN Note ELSE Dialog("form", "remove", e)
UserDialogs(e) ==
  {CreateUser} \cup (IF e = NoItem THEN {} ELSE {Dialog("menu", "manage", e), DeleteUser(e)})
KeyDialogs(e) ==
  {Dialog("form", "key", NoItem)} \cup (IF e = NoItem THEN {} ELSE {Dialog("confirm", "remove", e)})
KubernetesDialogs(e) ==
  IF e = NoItem THEN {} ELSE {Dialog("form", "change", e), Dialog("confirm", "change", e), Note}
HardwareDialogs == {Dialog("form", "change", NoItem), Dialog("confirm", "change", NoItem)}
LicenseDialogs == {Dialog("form", "inspect", NoItem), Dialog("form", "create", NoItem)}

\* What a key offers on a tab, after the role was checked.
Dialogs ==
  LET e == SelectedEntity IN
  CASE ActiveTab \in {"services", "models"} /\ snap.role = "viewer" -> {Note}
    [] ActiveTab = "hardware" /\ snap.role # "admin" -> {Note}
    [] ActiveTab = "services" -> ServiceDialogs(e)
    [] ActiveTab = "models" -> ModelDialogs(e)
    [] ActiveTab = "users" -> UserDialogs(e)
    [] ActiveTab = "keys" -> KeyDialogs(e)
    [] ActiveTab = "license" -> LicenseDialogs
    [] ActiveTab = "kubernetes" -> KubernetesDialogs(e)
    [] ActiveTab = "hardware" -> HardwareDialogs
    [] OTHER -> {}

BrowseAction ==
  /\ Browsing /\ Opened /\ \E o \in Dialogs : OverlayShows(o)
  /\ UNCHANGED <<appliance, snap, job, load, inspections, tokenVars, historyVars, terminalFaults>>

KeySignOut ==
  /\ Browsing /\ Opened /\ OverlayShows(Dialog("confirm", "sign out", NoItem))
  /\ UNCHANGED <<appliance, snap, job, load, inspections, tokenVars, historyVars, terminalFaults>>

(***************************************************************************)
(* Keys in a dialog; a busy one takes none.                                *)
(***************************************************************************)
\* Closing the message of a new key is the user's own doing.
SecretSeen == secret' = IF ui.overlay.act = "secret" THEN "none" ELSE secret

CloseDialog ==
  /\ Screen /\ ui.overlay.kind \in {"confirm", "form", "menu", "message"}
  /\ OverlayShows(NoDialog) /\ SecretSeen
  /\ UNCHANGED <<appliance, snap, job, load, inspections, tokenVars, sent, terminalFaults, dialogs>>

KeyMenu ==
  /\ Screen /\ ui.overlay.kind = "menu"
  /\ \E o \in IF ui.overlay.act = "manage" THEN ManageUser(ui.overlay.item) ELSE AddModel : OverlayShows(o)
  /\ UNCHANGED <<appliance, snap, job, load, inspections, tokenVars, historyVars, terminalFaults, dialogs>>

\* What the user has named: by the dialog, or by the row that is marked.
Named == IF ui.overlay = NoDialog THEN SelectedEntity ELSE ui.overlay.item
BeginOperation(act, item, rev) ==
  /\ ui' = [ui EXCEPT !.loading = TRUE, !.overlay = Dialog("busy", act, NoItem)]
  /\ job' = [pc |-> "sent", act |-> act, item |-> item, rev |-> rev, origin |-> ui.overlay]
  /\ sent' = [sent EXCEPT !.open = @ + 1, !.item = item, !.accepted = Named]
\* Mutant: the entity is looked up when the operation starts.
PerformsSelected(act, item, rev) ==
  IF ui.loading THEN UNCHANGED <<ui, job, sent>>
  ELSE BeginOperation(act, IF item = NoItem THEN NoItem ELSE SelectedEntity, rev)
\* One call at a time: an accepted dialog stays while another call is running.
Perform(act, item, rev) ==
  IF ui.loading THEN UNCHANGED <<ui, job, sent>> ELSE BeginOperation(act, item, rev)

\* A kubeconfig is copied without a dialog.
CopyKubeconfig ==
  /\ Browsing /\ ActiveTab = "kubernetes" /\ SelectedEntity # NoItem /\ Opened /\ Perform("copy", SelectedEntity, 0)
  /\ UNCHANGED <<appliance, snap, load, inspections, tokenVars, secret, terminalFaults>>

KeyConfirm ==
  /\ Screen /\ ui.overlay.kind = "confirm" /\ ui.overlay.act # "sign out"
  /\ Perform(ui.overlay.act, ui.overlay.item, ui.overlay.rev)
  /\ UNCHANGED <<appliance, snap, load, inspections, tokenVars, secret, terminalFaults, dialogs>>

\* A form with a missing or invalid field stays; the runtime of a local model is
\* looked for again in what the screen shows by then.
SubmitDialogForm ==
  /\ Screen /\ ui.overlay.kind = "form" /\ ui.overlay.act # "inspect"
  /\ ui.overlay.act = "local" => snap.runtime
  /\ Perform(ui.overlay.act, ui.overlay.item, ui.overlay.rev)
  /\ UNCHANGED <<appliance, snap, load, inspections, tokenVars, secret, terminalFaults, dialogs>>

\* The license form inspects without the busy dialog and stays open meanwhile, so
\* that it can be sent again.
SubmitLicense ==
  /\ Screen /\ ui.overlay = Dialog("form", "inspect", NoItem) /\ inspections' = inspections + 1
  /\ IF inspections = 0 THEN UNCHANGED dialogs ELSE Opened
  /\ UNCHANGED <<appliance, snap, ui, job, load, tokenVars, historyVars, terminalFaults>>

(***************************************************************************)
(* Answers.                                                                *)
(***************************************************************************)
\* The answer replaces whatever dialog is open by then.
InspectionAnswers ==
  /\ Screen /\ inspections > 0 /\ inspections' = inspections - 1
  /\ \/ /\ Authorised /\ UNCHANGED terminalFaults
        /\ OverlayShows([Dialog("confirm", "activate", NoItem) EXCEPT !.rev = appliance.lic])
     \/ CallFails /\ OverlayShows(Note)
  /\ secret' = IF ui.overlay.act = "secret" THEN "lost" ELSE secret
  /\ UNCHANGED <<appliance, snap, job, load, tokenVars, sent, dialogs>>

\* The API carries out an operation; a license is only replaced if
\* its revision is the expected one.
Refused == job.act = "activate" /\ job.rev # appliance.lic
Done ==
  CASE job.act = "remove" -> [appliance EXCEPT !.items = @ \ {job.item}]
    [] job.act = "enable" -> [appliance EXCEPT !.on = @ \cup {job.item}]
    [] job.act = "disable" -> [appliance EXCEPT !.on = @ \ {job.item}]
    [] job.act = "activate" -> [appliance EXCEPT !.lic = @ + 1]
    [] OTHER -> appliance

ApiDone ==
  /\ job.pc = "sent" /\ Authorised /\ ~Refused
  /\ job' = [job EXCEPT !.pc = "done"] /\ load' = [NoLoad EXCEPT !.pc = "session"] /\ appliance' = Done
  /\ sent' = IF job.act = "activate" THEN [sent EXCEPT !.replaced = appliance.lic, !.reviewed = job.origin.rev] ELSE sent
  /\ UNCHANGED <<snap, ui, inspections, tokenVars, secret, terminalFaults, dialogs>>

\* A failed operation returns to its form, or says so.
OperationFailed ==
  /\ ui' = [ui EXCEPT !.loading = FALSE,
                      !.overlay = IF job.origin.kind = "form" THEN job.origin ELSE Note]
  /\ OperationOver

\* Refused, or an error, after which the change may or may not have been made.
ApiFails ==
  /\ job.pc = "sent" /\ job' = NoJob /\ OperationFailed
  /\ \/ Authorised /\ Refused /\ UNCHANGED <<appliance, terminalFaults>>
     \/ CallFails /\ UNCHANGED appliance
     \/ Authorised /\ ~Refused /\ TFault /\ appliance' = Done
  /\ UNCHANGED <<snap, load, inspections, tokenVars, secret, dialogs>>

(***************************************************************************)
(* Leaving.                                                                *)
(***************************************************************************)
\* Sign out: the cached session, then the file, then the screen is left, also when
\* the dialog was closed or replaced in between.
SignOut ==
  /\ Screen /\ ui.overlay = Dialog("confirm", "sign out", NoItem)
  /\ session' = [session EXCEPT !.cached = "none"] /\ ConsoleTo("leaving")
  /\ UNCHANGED <<appliance, screenVars, renewal, historyVars, terminalFaults, dialogs>>

ClearSession ==
  /\ console.pc = "leaving" /\ session' = [session EXCEPT !.file = "none"] /\ ConsoleTo("signed out")
  /\ UNCHANGED <<appliance, screenVars, renewal, historyVars, terminalFaults, dialogs>>

\* Quitting does not stop a sign-out under way.
Quit ==
  /\ console.pc = "tui" /\ ConsoleTo("left")
  /\ UNCHANGED <<appliance, screenVars, session, renewal, historyVars, terminalFaults, dialogs>>

\* Other users change the lists, the role, the license and the hardware.
OthersChange ==
  /\ Screen /\ TFault
  /\ \/ \E e \in AllEntities : appliance' = [appliance EXCEPT !.items = IF e \in @ THEN @ \ {e} ELSE @ \cup {e}]
     \/ appliance' = [appliance EXCEPT !.role = IF @ = "admin" THEN "viewer" ELSE "admin"]
     \/ appliance' = [appliance EXCEPT !.lic = @ + 1]
     \/ appliance' = [appliance EXCEPT !.runtime = ~@]
  /\ UNCHANGED <<screenVars, tokenVars, historyVars, dialogs>>

UserSteps ==
  \/ KeyTab(1) \/ KeyTab(-1) \/ KeyRow(1) \/ KeyRow(-1) \/ BrowseAction \/ KeySignOut \/ CloseDialog
  \/ KeyMenu \/ CopyKubeconfig \/ KeyConfirm \/ SubmitDialogForm \/ SubmitLicense \/ SignOut \/ Quit
ConsoleSteps ==
  \/ OpenConsole \/ ConsoleLogout \/ RequestDeviceCode \/ DeviceExpired \/ StartTui
  \/ \E a \in {"pending", "slow_down", "granted", "denied"} : PollDevice(a)
TokenSteps == RefreshSession \/ RenewalAnswers \/ WriteSession
AnswerSteps == LoadSession \/ LoadLists \/ LoadFails \/ ApiDone \/ ApiFails
TerminalNext ==
  \/ UserSteps \/ ConsoleSteps \/ TokenSteps \/ AnswerSteps \/ InspectionAnswers \/ ClearSession
  \/ RefreshStarts \/ TokenExpires \/ OthersChange

\* The client goes on and its calls are answered; keys need not be pressed.
TerminalFairness ==
  /\ WF_terminalVars(ConsoleSteps) /\ WF_terminalVars(TokenSteps) /\ WF_terminalVars(AnswerSteps)
  /\ WF_terminalVars(ClearSession)
TerminalSpec == TerminalInit /\ [][TerminalNext]_terminalVars /\ TerminalFairness

(***************************************************************************)
(* Correctness                                                             *)
(***************************************************************************)
\* An operation changes the very entity its dialog named when the user accepted
\* it, although the list may have been reloaded or shortened while the dialog
\* was open.
ActsOnConfirmed == sent.item = sent.accepted

\* At most one operation is under way, also when a late license answer has
\* replaced the busy dialog and its confirmation is accepted.
OneOperation == sent.open <= 1

\* A key that is shown only once is on the screen until the user closes it, also
\* when the reload after its creation failed; only the late answer of a license
\* inspection may replace it.
SecretShown == secret = "shown" => ui.overlay.act = "secret"

\* A license is only replaced in the revision whose preview the user accepted.
LicenseReviewed == sent.replaced = sent.reviewed

\* The terminal client does one thing at a time, the one that was confirmed,
\* and shows a secret that cannot be shown again (tui.ts: perform, openConfirm).
TerminalSafe == ActsOnConfirmed /\ OneOperation /\ SecretShown /\ LicenseReviewed

LoginOver == console.pc \notin {"session", "logout", "device", "poll", "start"}

\* A login ends: with the session, a refusal, or the end of the code's life.
LoginEnds == <>LoginOver

NotBusy == ui.overlay.kind # "busy"

\* No operation leaves the client busy for ever.
BusyEnds == []<>NotBusy

\* "The locally cached SSO session is removed": after signing out no session is
\* left on the disk, whatever call was still under way.
SignedOutStays == console.pc = "signed out" => session.file = "none"
=============================================================================

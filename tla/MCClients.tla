------------------------------- MODULE MCClients -------------------------------
(***************************************************************************)
(* The clients of the dashboard API (the terminal client, the commands of  *)
(* the CLI and the pages of the web application) and the host worker that  *)
(* answers what they ask of a host.  Each behaviour is one of one of the   *)
(* modules.                                                                *)
(***************************************************************************)
EXTENDS HostWorker, TerminalSession, CliCommands, ModelEdit, ModelCreate, HostPages,
        AdminForms, DashboardRoutes

VARIABLE part

all == <<vars, terminalVars, commandVars, editVars, createVars, hostPageVars, formVars, routeVars, part>>

Parts == {"worker", "terminal", "commands", "edit", "create", "pages", "forms", "routes"}

MCEntities ==
  [services |-> <<"s1", "s2">>, models |-> <<>>, users |-> <<"u1">>, keys |-> <<>>, kubernetes |-> <<>>]
MCProtected == {}

MCTaskOf == [u1 |-> "chat", u2 |-> "", u3 |-> "embedding"]
MCFound == [qa |-> <<"u1", "u2">>, qb |-> <<"u3">>]
MCPresets == [p1 |-> [url |-> "u1", task |-> "chat"], p2 |-> [url |-> "u2", task |-> ""]]

\* The parts that a behaviour is not about stay in one of their initial states.
MCInit ==
  /\ part \in Parts
  /\ Init /\ CommandInit /\ ModelCreateInit
  /\ TerminalInit /\ (part # "terminal" => session.cached = "none")
  /\ ModelEditInit /\ (part # "edit" => model.local = LocalModelCreatePayload(CHOOSE d \in Created : TRUE))
  /\ HostPagesInit /\ (part # "pages" => page = "network")
  /\ AdminFormsInit /\ (part # "forms" => panel = "models")
  /\ RoutesInit /\ (part # "routes" => route = InitialRoute(CHOOSE path \in Links : TRUE))

InWorker ==
  part = "worker" /\ UNCHANGED <<terminalVars, commandVars, editVars, createVars, hostPageVars, formVars, routeVars, part>>

InTerminal ==
  part = "terminal" /\ UNCHANGED <<vars, commandVars, editVars, createVars, hostPageVars, formVars, routeVars, part>>

InCommands ==
  part = "commands" /\ UNCHANGED <<vars, terminalVars, editVars, createVars, hostPageVars, formVars, routeVars, part>>

InEdit ==
  part = "edit" /\ UNCHANGED <<vars, terminalVars, commandVars, createVars, hostPageVars, formVars, routeVars, part>>

InCreate ==
  part = "create" /\ UNCHANGED <<vars, terminalVars, commandVars, editVars, hostPageVars, formVars, routeVars, part>>

InPages ==
  part = "pages" /\ UNCHANGED <<vars, terminalVars, commandVars, editVars, createVars, formVars, routeVars, part>>

InForms ==
  part = "forms" /\ UNCHANGED <<vars, terminalVars, commandVars, editVars, createVars, hostPageVars, routeVars, part>>

InRoutes ==
  part = "routes" /\ UNCHANGED <<vars, terminalVars, commandVars, editVars, createVars, hostPageVars, formVars, part>>

MCNext ==
  \/ InWorker /\ Next
  \/ InTerminal /\ TerminalNext
  \/ InCommands /\ CommandNext
  \/ InEdit /\ ModelEditNext
  \/ InCreate /\ ModelCreateNext
  \/ InPages /\ HostPagesNext
  \/ InForms /\ AdminFormsNext
  \/ InRoutes /\ RoutesNext

\* The fairness of the modules, conjunct by conjunct.  The part never changes:
\* a conjunct over several parts says of each behaviour what its module says.
MCFairness ==
  /\ WF_all(\/ InWorker /\ Tick
            \/ InTerminal /\ ConsoleSteps
            \/ InCreate /\ DiscoveryAnswers
            \/ InPages /\ UseHosts
            \/ InForms /\ FormsRespond)
  /\ WF_all(\/ InWorker /\ Continue
            \/ InTerminal /\ TokenSteps
            \/ InPages /\ HostWorks)
  /\ WF_all(\/ InWorker /\ KubeletPublishes
            \/ InTerminal /\ AnswerSteps
            \/ InPages /\ \E a \in asks : CreateHostOperation(a) \/ ConfirmHostNetwork(a) \/ AskAnswered(a))
  /\ WF_all(\/ InWorker /\ TimePasses
            \/ InTerminal /\ ClearSession)
  /\ SF_all(InWorker /\ PatchOk) /\ SF_all(InWorker /\ EnableGpuProfile(FALSE, TRUE))
  /\ \A a \in ServiceActions :
       /\ WF_all(InWorker /\ (StartService(a) \/ RefuseService(a)))
       /\ WF_all(InWorker /\ \E phase \in {"Succeeded", "Failed", "Interrupted", "RolledBack"},
                                published \in BOOLEAN : FinishService(a, phase, published))

MCSpec == MCInit /\ [][MCNext]_all /\ MCFairness

\* What is done in the terminal client is done to what is selected and shown, a
\* key is seen by the user who made it and by nobody else, and a command of the
\* CLI that ends in a usage error has changed nothing (TerminalSafe, UsageHarmless).
ConsoleSafe == TerminalSafe /\ UsageHarmless

\* The forms of models show and send what belongs to the draft on screen, in
\* whatever order estimates, searches and artifact lists are answered
\* (LocalModelConfigurationForm, ModelSourceSettings, localModelChanges).
ModelFormsTrue == ChangesTrue /\ SavedAsEstimated /\ EstimateShown /\ TaskTrue /\ ListsTrue

\* What is done to a host or saved by a form is what was reviewed, on the state
\* that was on screen then, whatever was polled between review and confirmation.
DoneAsReviewed == AsReviewed /\ MemoryReviewedAgain /\ TrialKept /\ ReplacesShown /\ SavedAsReviewed

\* The page on screen is one the session may see, at its own address, and a model
\* list does not fall back behind a confirmed start or stop.
ScreenTrue == ConfirmedShown /\ PageAllowed /\ BookmarkTrue

\* Nobody's work is lost to a late or repeated write: a license, a policy or a
\* model is replaced only in the revision that was seen, a file and typed values
\* are kept, and a review confirmed twice is carried out once.
ChangesKept == GuardedReplace /\ FilesKept /\ EditsKept /\ TypedKept /\ ConfirmedOnce

Free ==
  CASE part = "worker" -> \A u \in Uids : OpAnswered(u)
    [] part = "terminal" -> LoginOver /\ NotBusy
    [] part = "create" -> NotSearching
    [] part = "pages" -> PageFree
    [] part = "forms" -> FormFree
    [] OTHER -> TRUE

\* Nobody waits for ever, whichever answer is lost and whatever crashes: every
\* operation of a host is answered or removed, a login ends, and the terminal
\* client, the search for models, the host pages and the forms take input again
\* (Answered, LoginEnds, BusyEnds, SearchEnds, PagesUnblock and FormsReturn,
\* each for the behaviours of its module).
NobodyWaits == []<>Free
=============================================================================

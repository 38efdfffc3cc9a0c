------------------------------ MODULE MCLabWork ------------------------------
(***************************************************************************)
(* What the tests change on the appliance and in their own files: the      *)
(* objects a run creates, a setting it borrows, the reviewed inputs and    *)
(* the access of the setup.  They do not meet: each behaviour is one of    *)
(* one of the modules.                                                     *)
(***************************************************************************)
EXTENDS OwnedResources, BorrowedSettings, LabInputs, LabSetup

CONSTANTS p1, p2

VARIABLE part   \* "owned", "borrowed", "inputs" or "setup"

all == <<ownedVars, borrowedVars, inputVars, setupVars, part>>

MCPlans == {<<"model", "key">>, <<"identity", "app">>}

MCInit ==
  /\ OwnedInit /\ BorrowedInit /\ InputInit /\ SetupInit
  /\ part \in {"owned", "borrowed", "inputs", "setup"}
  /\ part # "owned" => plan = <<"model", "key">> /\ ~campaign
  /\ part # "borrowed" => kind = "module"
  /\ part # "setup" => lease = "idle"

InOwned == part = "owned" /\ UNCHANGED <<borrowedVars, inputVars, setupVars, part>>
InBorrowed == part = "borrowed" /\ UNCHANGED <<ownedVars, inputVars, setupVars, part>>
InInputs == part = "inputs" /\ UNCHANGED <<ownedVars, borrowedVars, setupVars, part>>
InSetup == part = "setup" /\ UNCHANGED <<ownedVars, borrowedVars, inputVars, part>>

\* Plans are made and accepted at one console; both prepare automatically.
OneConsole == prep'[p2].mode \in {"none", "automatic"}

MCNext ==
  \/ InOwned /\ OwnedNext
  \/ InBorrowed /\ BorrowedNext
  \/ InInputs /\ InputNext /\ OneConsole
  \/ InSetup /\ SetupNext

\* The fairness of the modules, conjunct by conjunct.  The part never changes:
\* a conjunct over several parts says of each behaviour what its module says.
MCFairness ==
  /\ WF_all(\/ InOwned /\ RunStep
            \/ InBorrowed /\ UserStep
            \/ InInputs /\ RunSteps
            \/ InSetup /\ JobSteps)
  /\ WF_all(\/ InOwned /\ CleanStep
            \/ InBorrowed /\ ServeWrite
            \/ InInputs /\ \E p \in Preparers : Start(p, "automatic"))
  /\ WF_all(\/ InOwned /\ Claim
            \/ InBorrowed /\ RecoverSetting)
  /\ WF_all(InOwned /\ CampaignRecovery) /\ WF_all(InOwned /\ Serve)
  /\ WF_all(InOwned /\ Collect) /\ WF_all(InOwned /\ lock.holder = "other" /\ OtherRun)
  /\ \A p \in Preparers : WF_all(InInputs /\ PrepSteps(p))
  /\ \A a \in Accounts : SF_all(InSetup /\ BeginJob(a, "recover"))

MCSpec == MCInit /\ [][MCNext]_all /\ MCFairness

Settles(a) ==
  CASE part = "owned" -> CleanupSettled [] part = "borrowed" -> SettingSettled
    [] part = "inputs" -> InputsSettled [] part = "setup" -> AccessSettled(a)

\* Nothing stays behind for good, whatever is killed on the way: the objects of
\* a run are removed and verified or named as unproven, a borrowed setting is given back or
\* disputed, interrupted inputs are generated again and temporary rights are
\* taken back (Settled, GivenBack, Regenerated and AccessRestored, each for the
\* behaviours of its module).
LeftoversSettle == \A a \in Accounts : []<>Settles(a)
=============================================================================

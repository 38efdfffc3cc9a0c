---------------------------- MODULE LabWorkProofs ----------------------------
(***************************************************************************)
(* What a regression Job does to its lab is on record, a setting it borrows*)
(* is called restored only when it is, and a live run works with one       *)
(* accepted set of inputs: for every number of accounts, models,           *)
(* preparations, faults and changes by others.                             *)
(***************************************************************************)
EXTENDS LabSetup, BorrowedSettings, LabInputs, TLAPS

-----------------------------------------------------------------------------
(* LabSetup: the inductive invariant.                                      *)

Levels == {"admin", "viewer", "operator"}

Deployments == [gen : Nat, on : BOOLEAN, by : {"user", "setup"}]

Items == Models \X Nat

Keys == {"official", "own", "test"}

JobPlaces == {"off", "inputs", "inspect", "save", "grant", "token", "restore", "restored",
             "bootfile", "bootstrap", "recover", "trust", "patch", "trusted", "unboot",
             "actions", "stops", "stopping", "stopped", "test", "publish"}

Jobs == [acc : Accounts \cup {"none"}, op : {"none", "tests", "recover"}, pc : JobPlaces,
         then : JobPlaces, facts : Levels \cup {"none"}, keys : SUBSET (Models \cup Keys),
         reviewed : SUBSET Items]

SetupTypes ==
  /\ level \in [Accounts -> Levels]
  /\ exists \subseteq Accounts
  /\ grant = NoGrant \/ grant \in [acc : Accounts, level : Levels]
  /\ model \in [Models -> Deployments]
  /\ stops \in [items : SUBSET Items, done : SUBSET Items]
  /\ recorded \subseteq Items
  /\ trust \subseteq Keys
  /\ job \in Jobs
  /\ job.pc # "off" => job.acc \in Accounts

\* An account with a Job or a journal is needed, and is not deleted.
Needed ==
  /\ ~In("off") => job.acc \in exists \cap required
  /\ grant # NoGrant => grant.acc \in exists \cap required

\* An account is raised only once the level it had is journalled, which was
\* not the administrator's.
Journalled ==
  /\ job.pc \in {"inspect", "save"} => grant = NoGrant
  /\ In("save") => job.facts \in Levels \ {"admin"}
  /\ job.pc \in {"grant", "restored"} => grant # NoGrant /\ grant.acc = job.acc
  /\ grant # NoGrant => grant.level # "admin"

\* Where a Job goes on after a step that it makes on the way.
Onward ==
  job.pc \in {"save", "grant", "token", "restore", "restored", "unboot"} =>
    job.then \in {"inputs", "publish", "bootfile", "actions"}

\* The model of an item was stopped at its revision, and has since been left
\* alone or been changed by somebody.
Stopped(i) == Gen(i[1]) >= i[2] + 1 /\ (Gen(i[1]) = i[2] + 1 => ~model[i[1]].on)

\* The receipt of the stops, as far as the Job has got.
Receipted ==
  /\ \A i, j \in job.reviewed : i[1] = j[1] => i = j
  /\ job.pc \in {"stopping", "stopped"} => stops.items = job.reviewed
  /\ In("stops") => stops = NoStops
  /\ \A i \in stops.done : Stopped(i)
  /\ In("stopped") => \A i \in job.reviewed : i[1] \in job.keys => Stopped(i)
  /\ \A m \in Models : model[m].by = "setup" => ~model[m].on

SetupInv ==
  /\ SetupTypes /\ Onward
  /\ Needed /\ Journalled /\ NoStandingAdmin
  /\ Receipted /\ NoForgottenStop /\ StopsTrue

-----------------------------------------------------------------------------
(* LabSetup: lemmas.                                                       *)

\* The fields of a Job other than where it is.
SameJob ==
  /\ job'.acc = job.acc /\ job'.op = job.op /\ job'.facts = job.facts
  /\ job'.keys = job.keys /\ job'.reviewed = job.reviewed

\* A Job that moves on stays the same Job.
LEMMA JobMoves ==
  ASSUME job \in Jobs, NEW s \in JobPlaces, Then(s)
  PROVE  job' \in Jobs /\ job'.pc = s /\ job'.then = job.then /\ SameJob
  BY SMT DEF Then, Jobs, SameJob

\* The same for one that also says where it goes on.
LEMMA JobTurns ==
  ASSUME job \in Jobs, NEW s \in JobPlaces, NEW t \in JobPlaces,
         job' = [job EXCEPT !.pc = s, !.then = t]
  PROVE  job' \in Jobs /\ job'.pc = s /\ job'.then = t /\ SameJob
<1>1. job' \in Jobs
  BY Zenon DEF Jobs
<1> QED
  BY <1>1, SMT DEF Jobs, SameJob

\* No Job is a Job record.
LEMMA NoJobTyped == NoJob \in Jobs /\ NoJob.pc = "off" /\ NoJob.reviewed = {}
  BY SMT DEF NoJob, Jobs, JobPlaces

\* What a step leaves of the receipts when it touches neither them nor a model.
LEMMA ReceiptsKept ==
  ASSUME SetupInv, UNCHANGED <<model, stops, recorded>>,
         \A i, j \in job'.reviewed : i[1] = j[1] => i = j,
         job'.pc \notin {"stops", "stopping", "stopped"}
  PROVE  Receipted' /\ NoForgottenStop' /\ StopsTrue'
<1>1. Receipted'
  BY DEF SetupInv, Receipted, Stopped, Gen, In
<1>2. NoForgottenStop' /\ StopsTrue'
  BY DEF SetupInv, NoForgottenStop, StopsTrue, Gen
<1> QED
  BY <1>1, <1>2

\* What a step leaves of the access when it touches no account.
LEMMA AccessKept ==
  ASSUME SetupInv, UNCHANGED <<level, exists, grant, required>>,
         job'.pc = "off" \/ (~In("off") /\ job'.acc = job.acc),
         job'.pc \notin {"inspect", "save", "grant", "restored"}
  PROVE  Needed' /\ Journalled' /\ NoStandingAdmin'
  BY DEF SetupInv, Needed, Journalled, NoStandingAdmin, In

\* A step of the Job that touches neither an account nor a model.
LEMMA QuietStep ==
  ASSUME SetupInv, job' \in Jobs, SameJob, ~In("off"),
         job'.pc \notin {"inspect", "save", "grant", "restored", "stops", "stopping", "stopped"},
         job'.pc \in {"token", "restore", "unboot"} =>
           job'.then \in {"inputs", "publish", "bootfile", "actions"},
         UNCHANGED <<level, exists, grant, model, stops, recorded, required>>,
         trust' \subseteq Keys
  PROVE  SetupInv'
<1>1. SetupTypes'
  BY DEF SetupInv, SetupTypes, SameJob, In
<1>2. Onward'
  BY DEF Onward
<1>3. Needed' /\ Journalled' /\ NoStandingAdmin'
  BY AccessKept DEF SameJob
<1>4. Receipted' /\ NoForgottenStop' /\ StopsTrue'
  BY ReceiptsKept DEF SameJob, SetupInv, Receipted
<1> QED
  BY <1>1, <1>2, <1>3, <1>4 DEF SetupInv

\* The places of a Job.
LEMMA Places ==
  ASSUME SetupInv
  PROVE  /\ job \in Jobs /\ trust \subseteq Keys
         /\ {"publish", "bootstrap", "recover", "trust", "patch", "trusted", "unboot", "restore",
             "restored", "inputs", "inspect", "save", "grant", "token", "bootfile", "actions",
             "stops", "stopping", "stopped", "test"} \subseteq JobPlaces
         /\ job.then \in JobPlaces
  BY DEF SetupInv, SetupTypes, Jobs, JobPlaces

\* The initial state satisfies the invariant.
LEMMA SetupInitInv == SetupInit => SetupInv
<1> SUFFICES ASSUME SetupInit PROVE SetupInv
  OBVIOUS
<1> USE SetupAssumption DEF SetupInit
<1>1. SetupTypes
  <2>1. level \in [Accounts -> Levels]
    BY DEF Levels
  <2>2. model \in [Models -> Deployments]
    BY SMT DEF Deployments
  <2>3. stops \in [items : SUBSET Items, done : SUBSET Items] /\ stops.items = {} /\ stops.done = {}
    BY SMT DEF NoStops
  <2> QED
    BY <2>1, <2>2, <2>3, NoJobTyped DEF SetupTypes, Keys
<1>2. Receipted /\ NoForgottenStop /\ StopsTrue
  BY NoJobTyped, SMT DEF Receipted, NoForgottenStop, StopsTrue, NoStops, In
<1>3. Onward /\ Needed /\ Journalled
  BY NoJobTyped DEF Onward, Needed, Journalled, In
<1>4. NoStandingAdmin
  BY DEF NoStandingAdmin
<1> QED
  BY <1>1, <1>2, <1>3, <1>4 DEF SetupInv

-----------------------------------------------------------------------------
(* LabSetup: the access of the account.                                    *)

\* BeginJob keeps the invariant.
LEMMA BeginJobInv ==
  ASSUME SetupInv, NEW a \in Accounts, NEW op \in {"tests", "recover"}, BeginJob(a, op)
  PROVE  SetupInv'
<1>1. /\ job' = [NoJob EXCEPT !.acc = a, !.op = op, !.pc = "inputs"]
      /\ UNCHANGED <<level, exists, grant, stops, trust, model, recorded>>
      /\ required' = required \union {a} /\ a \in exists
  BY DEF BeginJob, files
<1>2. job' \in Jobs /\ job'.pc = "inputs" /\ job'.acc = a /\ job'.reviewed = {}
  <2>1. a \in Accounts \cup {"none"} /\ op \in {"none", "tests", "recover"} /\ "inputs" \in JobPlaces
    BY DEF JobPlaces
  <2>2. job' \in Jobs
    BY <1>1, <2>1, NoJobTyped, Zenon DEF Jobs
  <2> QED
    BY <1>1, <2>2, NoJobTyped, SMT DEF Jobs
<1>3. SetupTypes'
  BY <1>1, <1>2 DEF SetupInv, SetupTypes
<1>4. Needed' /\ Journalled' /\ NoStandingAdmin' /\ Onward'
  BY <1>1, <1>2 DEF SetupInv, Needed, Journalled, NoStandingAdmin, Onward, In
<1>5. Receipted' /\ NoForgottenStop' /\ StopsTrue'
  BY <1>1, <1>2, ReceiptsKept
<1> QED
  BY <1>3, <1>4, <1>5 DEF SetupInv

\* Inputs keeps the invariant.
LEMMA InputsInv == ASSUME SetupInv, Inputs PROVE SetupInv'
<1>1. ~In("off") /\ UNCHANGED <<level, exists, grant, stops, trust, model, recorded, required>>
  BY DEF Inputs, In
<1>2. CASE grant # NoGrant
  <2>1. job' \in Jobs /\ job'.pc = "restore" /\ job'.then = "inputs" /\ SameJob
    BY <1>2, Places, JobTurns DEF Inputs
  <2> QED
    BY <1>1, <2>1, Places, QuietStep
<1>3. CASE grant = NoGrant
  <2>1. job' \in Jobs /\ job'.pc = "inspect" /\ SameJob
    BY <1>3, Places, JobMoves DEF Inputs
  <2>2. SetupTypes'
    BY <1>1, <2>1 DEF SetupInv, SetupTypes, SameJob, In
  <2>3. Needed' /\ Journalled' /\ NoStandingAdmin' /\ Onward'
    BY <1>1, <1>3, <2>1 DEF SetupInv, SameJob, Needed, Journalled, NoStandingAdmin, Onward, In
  <2>4. Receipted' /\ NoForgottenStop' /\ StopsTrue'
    BY <1>1, <2>1, ReceiptsKept DEF SameJob, SetupInv, Receipted
  <2> QED
    BY <2>2, <2>3, <2>4 DEF SetupInv
<1> QED
  BY <1>2, <1>3

\* The models under review have one revision each.
LEMMA Inventory ==
  ASSUME SetupInv
  PROVE  SuiteInventory \subseteq Items /\ \A i, j \in SuiteInventory : i[1] = j[1] => i = j
  BY SMT DEF SetupInv, SetupTypes, Deployments, SuiteInventory, Items

\* SetupFacts keeps the invariant.
LEMMA SetupFactsInv == ASSUME SetupInv, SetupFacts PROVE SetupInv'
<1>1. /\ ~In("off") /\ grant = NoGrant /\ job.acc \in Accounts
      /\ UNCHANGED <<level, exists, grant, stops, trust, model, recorded, required>>
  BY DEF SetupFacts, In, files, SetupInv, SetupTypes, Journalled
<1> DEFINE s == IF NeedsGrant THEN "save" ELSE "token"
<1>2. job' = [job EXCEPT !.pc = s, !.then = "bootfile", !.facts = level[job.acc],
                         !.reviewed = SuiteInventory]
  BY DEF SetupFacts
<1>3. s \in JobPlaces /\ "bootfile" \in JobPlaces /\ level[job.acc] \in Levels
  BY <1>1 DEF JobPlaces, SetupInv, SetupTypes
<1>4. s = "save" => level[job.acc] # "admin"
  BY DEF NeedsGrant
<1>5. s \in {"save", "token"}
  OBVIOUS
<1> HIDE DEF s
<1>6. job' \in Jobs
  BY <1>2, <1>3, Inventory, Places, Zenon DEF Jobs
<1>7. /\ job'.pc = s /\ job'.then = "bootfile" /\ job'.facts = level[job.acc]
      /\ job'.reviewed = SuiteInventory /\ job'.acc = job.acc
  BY <1>2, Places, SMT DEF Jobs
<1>8. SetupTypes'
  BY <1>1, <1>6, <1>7 DEF SetupInv, SetupTypes
<1>9. Needed' /\ Journalled' /\ NoStandingAdmin' /\ Onward'
  BY <1>1, <1>3, <1>4, <1>5, <1>7 DEF SetupInv, Needed, Journalled, NoStandingAdmin, Onward, In
<1>10. Receipted' /\ NoForgottenStop' /\ StopsTrue'
  BY <1>1, <1>5, <1>7, Inventory, ReceiptsKept
<1> QED
  BY <1>8, <1>9, <1>10 DEF SetupInv

\* SaveGrant keeps the invariant.
LEMMA SaveGrantInv == ASSUME SetupInv, SaveGrant PROVE SetupInv'
<1>1. /\ In("save") /\ grant' = [acc |-> job.acc, level |-> job.facts]
      /\ UNCHANGED <<level, exists, stops, trust, model, recorded, required>>
  BY DEF SaveGrant
<1>2. job.acc \in exists \cap required \cap Accounts /\ job.facts \in Levels \ {"admin"} /\ grant = NoGrant
  BY <1>1 DEF SetupInv, SetupTypes, Needed, Journalled, In
<1>3. job' \in Jobs /\ job'.pc = "grant" /\ job'.then = job.then /\ SameJob
  BY Places, JobMoves DEF SaveGrant
<1>4. /\ grant' \in [acc : Accounts, level : Levels] /\ grant' # NoGrant
      /\ grant'.acc = job.acc /\ grant'.level # "admin"
  BY <1>1, <1>2, SetupAssumption, SMT DEF NoGrant
<1>5. SetupTypes'
  BY <1>1, <1>2, <1>3, <1>4 DEF SetupInv, SetupTypes, SameJob
<1>6. Needed' /\ Journalled' /\ Onward'
  BY <1>1, <1>2, <1>3, <1>4 DEF SetupInv, Needed, Journalled, SameJob, Onward, In
<1>7. NoStandingAdmin'
  <2>1. grant.acc = "none"
    BY <1>2 DEF NoGrant
  <2> QED
    BY <1>1, <2>1, SetupAssumption DEF SetupInv, NoStandingAdmin
<1>8. Receipted' /\ NoForgottenStop' /\ StopsTrue'
  BY <1>1, <1>3, ReceiptsKept DEF SameJob, SetupInv, Receipted
<1> QED
  BY <1>5, <1>6, <1>7, <1>8 DEF SetupInv

\* ChangeAccess keeps the invariant: the journal names the account.
LEMMA ChangeAccessInv == ASSUME SetupInv, ChangeAccess PROVE SetupInv'
<1>1. /\ In("grant") /\ level' \in {level, [level EXCEPT ![job.acc] = "admin"]}
      /\ UNCHANGED <<exists, grant, stops, trust, model, recorded, required>>
  BY DEF ChangeAccess, files
<1>2. job.acc \in exists \cap Accounts /\ grant # NoGrant /\ grant.acc = job.acc
      /\ job.then \in {"inputs", "publish", "bootfile", "actions"}
  BY <1>1 DEF SetupInv, SetupTypes, Needed, Journalled, Onward, In
<1>3. /\ job' \in Jobs /\ job'.pc \in {"token", "restore"} /\ SameJob
      /\ job'.then \in {"inputs", "publish", "bootfile", "actions"}
  <2>1. CASE Then("token")
    BY <1>2, <2>1, Places, JobMoves
  <2>2. CASE job' = [job EXCEPT !.pc = "restore", !.then = "publish"]
    BY <2>2, Places, JobTurns
  <2> QED
    BY <2>1, <2>2 DEF ChangeAccess
<1>4. level' \in [Accounts -> Levels] /\ \A a \in Accounts \ {job.acc} : level'[a] = level[a]
  BY <1>1, <1>2 DEF SetupInv, SetupTypes, Levels
<1>5. SetupTypes'
  BY <1>1, <1>2, <1>3, <1>4 DEF SetupInv, SetupTypes, SameJob
<1>6. Needed' /\ Journalled' /\ Onward'
  BY <1>1, <1>2, <1>3 DEF SetupInv, Needed, Journalled, SameJob, Onward, In
<1>7. NoStandingAdmin'
  BY <1>1, <1>2, <1>4 DEF SetupInv, NoStandingAdmin
<1>8. Receipted' /\ NoForgottenStop' /\ StopsTrue'
  BY <1>1, <1>3, ReceiptsKept DEF SameJob, SetupInv, Receipted
<1> QED
  BY <1>5, <1>6, <1>7, <1>8 DEF SetupInv

\* SetupOidcToken keeps the invariant.
LEMMA SetupOidcTokenInv == ASSUME SetupInv, SetupOidcToken PROVE SetupInv'
<1>1. ~In("off") /\ UNCHANGED <<level, exists, grant, stops, trust, model, recorded, required>>
  BY DEF SetupOidcToken, files, In
<1>2. job.then \in {"inputs", "publish", "bootfile", "actions"}
  BY DEF SetupOidcToken, SetupInv, Onward, In
<1>3. PICK token \in {"own", "other"} :
        LET next == IF ForThisLogin(token) THEN job.then ELSE "publish" IN
        job' = [job EXCEPT !.pc = IF grant # NoGrant THEN "restore" ELSE next, !.then = next]
  BY DEF SetupOidcToken
<1> DEFINE next == IF ForThisLogin(token) THEN job.then ELSE "publish"
           place == IF grant # NoGrant THEN "restore" ELSE next
<1>4. next \in {"inputs", "publish", "bootfile", "actions"}
  BY <1>2
<1>5. place \in {"restore", "inputs", "publish", "bootfile", "actions"}
  BY <1>4
<1>6. job' = [job EXCEPT !.pc = place, !.then = next]
  BY <1>3
<1> HIDE DEF next, place
<1>7. next \in JobPlaces /\ place \in JobPlaces
  BY <1>4, <1>5 DEF JobPlaces
<1>8. job' \in Jobs /\ job'.pc = place /\ job'.then = next /\ SameJob
  BY <1>6, <1>7, Places, JobTurns
<1> QED
  BY <1>1, <1>4, <1>5, <1>8, Places, QuietStep

\* RestoreAccess keeps the invariant: the level put back is no administrator's.
LEMMA RestoreAccessInv == ASSUME SetupInv, RestoreAccess PROVE SetupInv'
<1>1. /\ In("restore") /\ UNCHANGED <<exists, grant, stops, trust, model, recorded, required>>
      /\ level' = level \/ (Restorable /\ level' = [level EXCEPT ![job.acc] = grant.level])
  BY DEF RestoreAccess, files
<1>2. job.acc \in exists \cap required \cap Accounts /\ job.then \in {"inputs", "publish", "bootfile", "actions"}
  BY <1>1 DEF SetupInv, SetupTypes, Needed, Onward, In
<1>3. Restorable => grant # NoGrant /\ grant.acc = job.acc /\ grant.level \in Levels \ {"admin"}
  BY <1>2, SetupAssumption DEF Restorable, NoGrant, SetupInv, SetupTypes, Journalled
<1>4. /\ job' \in Jobs /\ SameJob /\ job'.then = job.then
      /\ job'.pc = "publish" \/ (job'.pc = "restored" /\ Restorable)
  BY Places, JobMoves DEF RestoreAccess, Throws
<1>5. /\ level' \in [Accounts -> Levels]
      /\ \A a \in Accounts : level'[a] = "admin" => level[a] = "admin"
  BY <1>1, <1>2, <1>3 DEF SetupInv, SetupTypes
<1>6. SetupTypes'
  BY <1>1, <1>2, <1>4, <1>5 DEF SetupInv, SetupTypes, SameJob
<1>7. Needed' /\ Onward' /\ NoStandingAdmin'
  BY <1>1, <1>2, <1>4, <1>5 DEF SetupInv, Needed, SameJob, Onward, NoStandingAdmin, In
<1>8. Journalled'
  BY <1>1, <1>3, <1>4 DEF SetupInv, Journalled, SameJob, In
<1>9. Receipted' /\ NoForgottenStop' /\ StopsTrue'
  BY <1>1, <1>4, ReceiptsKept DEF SameJob, SetupInv, Receipted
<1> QED
  BY <1>6, <1>7, <1>8, <1>9 DEF SetupInv

\* VerifyRestored keeps the invariant: the journal goes when the level is read.
LEMMA VerifyRestoredInv == ASSUME SetupInv, VerifyRestored PROVE SetupInv'
<1>1. In("restored") /\ UNCHANGED <<level, exists, stops, trust, model, recorded, required>>
  BY DEF VerifyRestored
<1>2. /\ job.acc \in exists \cap required \cap Accounts
      /\ job.then \in {"inputs", "publish", "bootfile", "actions"}
      /\ grant.acc = job.acc /\ grant.level # "admin"
  BY <1>1 DEF SetupInv, SetupTypes, Needed, Journalled, Onward, In
<1>3. grant' = grant \/ (grant' = NoGrant /\ level[job.acc] = grant.level)
  BY DEF VerifyRestored
<1>4. job' \in Jobs /\ job'.pc \in {"publish", job.then} /\ job'.then = job.then /\ SameJob
  BY Places, JobMoves DEF VerifyRestored, Throws
<1>5. SetupTypes'
  BY <1>1, <1>2, <1>3, <1>4 DEF SetupInv, SetupTypes, SameJob
<1>6. Needed' /\ Onward' /\ Journalled'
  BY <1>1, <1>2, <1>3, <1>4 DEF SetupInv, Needed, Journalled, SameJob, Onward, In
<1>7. NoStandingAdmin'
  BY <1>1, <1>2, <1>3 DEF SetupInv, NoStandingAdmin
<1>8. Receipted' /\ NoForgottenStop' /\ StopsTrue'
  BY <1>1, <1>2, <1>4, ReceiptsKept DEF SameJob, SetupInv, Receipted
<1> QED
  BY <1>5, <1>6, <1>7, <1>8 DEF SetupInv

-----------------------------------------------------------------------------
(* LabSetup: the bootstrap, the tests and the end of a Job.                *)

\* WriteBootFile keeps the invariant.
LEMMA WriteBootFileInv == ASSUME SetupInv, WriteBootFile PROVE SetupInv'
<1>1. job' \in Jobs /\ job'.pc \in {"publish", "bootstrap"} /\ SameJob
  BY Places, JobMoves DEF WriteBootFile, Throws
<1> QED
  BY <1>1, Places, QuietStep DEF WriteBootFile, In

\* A step of the bootstrap goes on to the next, or to where its file goes.
LEMMA BootStep ==
  ASSUME SetupInv, ~In("off"),
         \/ \E s \in {"recover", "trust", "trusted"} : Then(s)
         \/ \E s \in {"publish", "actions"} : Bootstrapped(s),
         UNCHANGED <<level, exists, grant, model, stops, recorded, required>>,
         trust' \subseteq Keys
  PROVE  SetupInv'
<1>1. CASE \E s \in {"recover", "trust", "trusted"} : Then(s)
  <2>1. job' \in Jobs /\ job'.pc \in {"recover", "trust", "trusted"} /\ SameJob
    BY <1>1, Places, JobMoves
  <2> QED
    BY <2>1, QuietStep
<1>2. CASE \E s \in {"publish", "actions"} : Bootstrapped(s)
  <2>1. job' \in Jobs /\ job'.pc = "unboot" /\ job'.then \in {"publish", "actions"} /\ SameJob
    BY <1>2, Places, JobTurns DEF Bootstrapped
  <2> QED
    BY <2>1, QuietStep
<1> QED
  BY <1>1, <1>2

\* BootstrapRegisteredLab keeps the invariant.
LEMMA BootstrapRegisteredLabInv == ASSUME SetupInv, BootstrapRegisteredLab PROVE SetupInv'
  BY Places, BootStep DEF BootstrapRegisteredLab, files, In

\* RecoverLease keeps the invariant.
LEMMA RecoverLeaseInv == ASSUME SetupInv, RecoverLease PROVE SetupInv'
  BY Places, BootStep DEF RecoverLease, files, In

\* BootstrapTestLicenses keeps the invariant.
LEMMA BootstrapTestLicensesInv == ASSUME SetupInv, BootstrapTestLicenses PROVE SetupInv'
<1>1. CASE job' = [job EXCEPT !.pc = "patch", !.keys = trust]
  <2>1. job' \in Jobs
    <3>1. trust \in SUBSET (Models \cup Keys) /\ "patch" \in JobPlaces /\ job \in Jobs
      BY Places
    <3> QED
      BY <1>1, <3>1, Zenon DEF Jobs
  <2>2. job'.pc = "patch" /\ job'.acc = job.acc /\ job'.reviewed = job.reviewed
    BY <1>1, Places, SMT DEF Jobs
  <2>3. ~In("off") /\ UNCHANGED <<level, exists, grant, stops, trust, model, recorded, required>>
    BY DEF BootstrapTestLicenses, In
  <2>4. SetupTypes' /\ Onward'
    BY <2>1, <2>2, <2>3 DEF SetupInv, SetupTypes, Onward, In
  <2>5. Needed' /\ Journalled' /\ NoStandingAdmin'
    BY <2>2, <2>3, AccessKept
  <2>6. Receipted' /\ NoForgottenStop' /\ StopsTrue'
    BY <2>2, <2>3, ReceiptsKept DEF SetupInv, Receipted
  <2> QED
    BY <2>4, <2>5, <2>6 DEF SetupInv
<1>2. CASE Bootstrapped("publish") \/ Then("trusted")
  BY <1>2, Places, BootStep DEF BootstrapTestLicenses, In
<1> QED
  BY <1>1, <1>2 DEF BootstrapTestLicenses

\* PatchTrust keeps the invariant.
LEMMA PatchTrustInv == ASSUME SetupInv, PatchTrust PROVE SetupInv'
<1>1. trust' \subseteq Keys
  BY Places DEF PatchTrust, TrustUnchanged, Keys
<1> QED
  BY <1>1, Places, BootStep DEF PatchTrust, files, In

\* VerifyTrust keeps the invariant.
LEMMA VerifyTrustInv == ASSUME SetupInv, VerifyTrust PROVE SetupInv'
  BY Places, BootStep DEF VerifyTrust, In

\* RemoveBootFile keeps the invariant.
LEMMA RemoveBootFileInv == ASSUME SetupInv, RemoveBootFile PROVE SetupInv'
<1>1. job.then \in {"inputs", "publish", "bootfile", "actions"}
  BY DEF RemoveBootFile, SetupInv, Onward, In
<1>2. job' \in Jobs /\ job'.pc = job.then /\ SameJob
  BY Places, JobMoves DEF RemoveBootFile
<1> QED
  BY <1>1, <1>2, Places, QuietStep DEF RemoveBootFile, In

\* RunTests keeps the invariant.
LEMMA RunTestsInv == ASSUME SetupInv, RunTests PROVE SetupInv'
<1>1. job' \in Jobs /\ job'.pc = "publish" /\ SameJob
  BY Places, JobMoves DEF RunTests
<1> QED
  BY <1>1, Places, QuietStep DEF RunTests, files, In

\* Publish keeps the invariant: an account with a journal stays needed.
LEMMA PublishInv == ASSUME SetupInv, Publish PROVE SetupInv'
<1>1. /\ job' = NoJob /\ UNCHANGED <<level, exists, grant, stops, trust, model, recorded>>
      /\ required' = required \/ (required' = required \ {job.acc} /\ grant = NoGrant)
  BY DEF Publish, Retained, files
<1>2. SetupTypes'
  BY <1>1, NoJobTyped DEF SetupInv, SetupTypes
<1>3. Needed' /\ Journalled' /\ NoStandingAdmin' /\ Onward'
  BY <1>1, NoJobTyped DEF SetupInv, Needed, Journalled, NoStandingAdmin, Onward, In
<1>4. Receipted' /\ NoForgottenStop' /\ StopsTrue'
  BY <1>1, NoJobTyped, ReceiptsKept
<1> QED
  BY <1>2, <1>3, <1>4 DEF SetupInv

\* A killed Job keeps the invariant: everything it has done is in the files.
LEMMA JobKilledInv == ASSUME SetupInv, JobKilled PROVE SetupInv'
<1>1. job' = NoJob /\ UNCHANGED <<level, exists, grant, stops, trust, model, recorded, required>>
  BY DEF JobKilled, files
<1>2. SetupTypes' /\ Onward'
  BY <1>1, NoJobTyped DEF SetupInv, SetupTypes, Onward
<1>3. Needed' /\ Journalled' /\ NoStandingAdmin'
  BY <1>1, NoJobTyped, AccessKept
<1>4. Receipted' /\ NoForgottenStop' /\ StopsTrue'
  BY <1>1, NoJobTyped, ReceiptsKept
<1> QED
  BY <1>2, <1>3, <1>4 DEF SetupInv

\* The operator keeps the invariant: it deletes no account with a journal.
LEMMA DeleteAccountInv ==
  ASSUME SetupInv, NEW a \in Accounts, DeleteAccount(a) PROVE SetupInv'
<1>1. /\ exists' = exists \ {a} /\ a \notin required /\ job.acc # a
      /\ UNCHANGED <<level, grant, stops, trust, model, recorded, required, job>>
  BY DEF DeleteAccount, files
<1>2. SetupTypes' /\ Onward' /\ Journalled'
  BY <1>1 DEF SetupInv, SetupTypes, Onward, Journalled, In
<1>3. Needed'
  BY <1>1 DEF SetupInv, Needed, In
<1>4. NoStandingAdmin'
  <2>1. ASSUME NEW b \in Accounts \ Admins, level[b] = "admin" PROVE grant.acc = b /\ b \in exists'
    <3>1. grant.acc = b /\ b \in exists
      BY <2>1 DEF SetupInv, NoStandingAdmin
    <3>2. grant # NoGrant
      BY <2>1, <3>1, SetupAssumption DEF NoGrant
    <3> QED
      BY <1>1, <3>1, <3>2 DEF SetupInv, Needed
  <2> QED
    BY <1>1, <2>1 DEF NoStandingAdmin
<1>5. Receipted' /\ NoForgottenStop' /\ StopsTrue'
  BY <1>1 DEF SetupInv, Receipted, Stopped, NoForgottenStop, StopsTrue, Gen, In
<1> QED
  BY <1>2, <1>3, <1>4, <1>5 DEF SetupInv

\* A level set by an administrator keeps the invariant.
LEMMA UserSetsLevelInv ==
  ASSUME SetupInv, NEW a \in Accounts, UserSetsLevel(a) PROVE SetupInv'
<1>1. /\ level' = [level EXCEPT ![a] = "operator"]
      /\ UNCHANGED <<exists, grant, stops, trust, model, recorded, required, job>>
  BY DEF UserSetsLevel, files
<1>2. SetupTypes'
  BY <1>1 DEF SetupInv, SetupTypes, Levels
<1>3. Needed' /\ Onward' /\ Journalled'
  BY <1>1 DEF SetupInv, Onward, Journalled, Needed, In
<1>4. NoStandingAdmin'
  BY <1>1 DEF SetupInv, SetupTypes, NoStandingAdmin
<1>5. Receipted' /\ NoForgottenStop' /\ StopsTrue'
  BY <1>1 DEF SetupInv, Receipted, Stopped, NoForgottenStop, StopsTrue, Gen, In
<1> QED
  BY <1>2, <1>3, <1>4, <1>5 DEF SetupInv

\* An edit of the trust store and the end of a live run keep the invariant.
LEMMA OthersInv == ASSUME SetupInv, UserEditsTrust \/ HolderEnds PROVE SetupInv'
<1>1. /\ trust' \subseteq Keys
      /\ UNCHANGED <<level, exists, grant, stops, model, recorded, required, job>>
  BY Places DEF UserEditsTrust, HolderEnds, files, Keys
<1>2. SetupTypes'
  BY <1>1 DEF SetupInv, SetupTypes
<1>3. Needed' /\ Onward' /\ Journalled' /\ NoStandingAdmin'
  BY <1>1 DEF SetupInv, Onward, Journalled, Needed, NoStandingAdmin, In
<1>4. Receipted' /\ NoForgottenStop' /\ StopsTrue'
  BY <1>1 DEF SetupInv, Receipted, Stopped, NoForgottenStop, StopsTrue, Gen, In
<1> QED
  BY <1>2, <1>3, <1>4 DEF SetupInv

-----------------------------------------------------------------------------
(* LabSetup: the models.                                                   *)

\* What a step leaves of the access when it touches models and receipts only.
LEMMA ModelStep ==
  ASSUME SetupInv, UNCHANGED <<level, exists, grant, trust, required>>,
         job' = job \/ (job' \in Jobs /\ job'.acc = job.acc /\ ~In("off")),
         job' = job \/ job'.pc \in {"publish", "stops", "stopping", "stopped", "test"},
         model' \in [Models -> Deployments],
         stops' \in [items : SUBSET Items, done : SUBSET Items],
         recorded' \subseteq Items,
         Receipted', NoForgottenStop', StopsTrue'
  PROVE  SetupInv'
<1>1. SetupTypes'
  BY DEF SetupInv, SetupTypes, In
<1>2. Needed' /\ Journalled' /\ NoStandingAdmin' /\ Onward'
  BY DEF SetupInv, Onward, Journalled, Needed, NoStandingAdmin, In
<1> QED
  BY <1>1, <1>2 DEF SetupInv

\* An item is a model with its revision.
LEMMA ItemParts ==
  ASSUME NEW i \in Items
  PROVE  i[1] \in Models /\ i[2] \in Nat /\ i = <<i[1], i[2]>> /\ <<i[1], i[2] + 1>> \in Items
  BY SMT DEF Items

\* An empty receipt.
LEMMA NoStopsTyped ==
  NoStops \in [items : SUBSET Items, done : SUBSET Items] /\ NoStops.items = {} /\ NoStops.done = {}
  BY SMT DEF NoStops

\* A receipt that records stops which did happen keeps every record true.
LEMMA RecordedTrue ==
  ASSUME SetupInv, NEW S \in SUBSET Items, \A i \in S : Stopped(i),
         UNCHANGED model, recorded' = recorded \union {<<i[1], i[2] + 1>> : i \in S}
  PROVE  StopsTrue' /\ recorded' \subseteq Items
<1>1. ASSUME NEW i \in S
      PROVE  LET r == <<i[1], i[2] + 1>>
             IN  r \in Items /\ Gen(r[1]) >= r[2] /\ (Gen(r[1]) = r[2] => ~model[r[1]].on)
  BY <1>1, ItemParts DEF Stopped
<1> QED
  BY <1>1 DEF SetupInv, SetupTypes, StopsTrue, Gen

\* RecoverReviewedActions keeps the invariant: a stop without its record is
\* recorded before the receipt goes.
LEMMA RecoverReviewedActionsInv == ASSUME SetupInv, RecoverReviewedActions PROVE SetupInv'
<1>1. ~In("off") /\ UNCHANGED <<level, exists, grant, trust, model, required>>
  BY DEF RecoverReviewedActions, In
<1>2. CASE ~Exact
  BY <1>2, Places, JobMoves, QuietStep DEF RecoverReviewedActions, Throws, In
<1>3. CASE Exact
  <2>1. /\ recorded' = recorded \union Reconciled /\ stops' = NoStops
        /\ job' \in Jobs /\ job'.pc = "stops" /\ SameJob
    BY <1>3, Places, JobMoves DEF RecoverReviewedActions
  <2> DEFINE S == {j \in stops.items : ~model[j[1]].on}
  <2>2. S \in SUBSET Items /\ \A i \in S : Stopped(i)
    <3>1. ASSUME NEW i \in S PROVE i \in Items /\ Stopped(i)
      <4>1. i \in stops.items /\ ~model[i[1]].on /\ stops.items \subseteq Items
        BY <3>1 DEF SetupInv, SetupTypes
      <4>2. i \in Items /\ i[2] \in Nat /\ Gen(i[1]) = i[2] + 1
        BY <1>3, <4>1, ItemParts DEF Exact
      <4> QED
        BY <4>1, <4>2 DEF Stopped
    <3> QED
      BY <3>1
  <2>3. Reconciled = {<<i[1], i[2] + 1>> : i \in S}
    BY DEF Reconciled
  <2> HIDE DEF S
  <2>4. StopsTrue' /\ recorded' \subseteq Items
    BY <1>1, <2>1, <2>2, <2>3, RecordedTrue
  <2>5. NoForgottenStop'
    <3>1. ASSUME NEW m \in Models, model[m].by = "setup" PROVE <<m, Gen(m)>> \in recorded'
      <4>1. CASE <<m, Gen(m)>> \in recorded
        BY <2>1, <4>1
      <4>2. CASE \E i \in stops.items : i[1] = m /\ i[2] + 1 = Gen(m)
        <5>1. PICK i \in stops.items : i[1] = m /\ i[2] + 1 = Gen(m)
          BY <4>2
        <5>2. i \in S
          BY <3>1, <5>1 DEF S, SetupInv, Receipted
        <5> QED
          BY <2>1, <2>3, <5>1, <5>2
      <4> QED
        BY <3>1, <4>1, <4>2 DEF SetupInv, NoForgottenStop
    <3> QED
      BY <1>1, <3>1 DEF NoForgottenStop, Gen
  <2>6. Receipted'
    BY <1>1, <2>1, NoStopsTyped DEF SetupInv, Receipted, SameJob, In
  <2> QED
    BY <1>1, <2>1, <2>4, <2>5, <2>6, NoStopsTyped, ModelStep DEF SetupInv, SetupTypes, SameJob
<1> QED
  BY <1>2, <1>3

\* OpenStops keeps the invariant: no earlier receipt is open.
LEMMA OpenStopsInv == ASSUME SetupInv, OpenStops PROVE SetupInv'
<1>1. ~In("off") /\ UNCHANGED <<level, exists, grant, trust, model, recorded, required>>
  BY DEF OpenStops, In
<1>2. CASE Then("test") /\ UNCHANGED stops
  BY <1>1, <1>2, Places, JobMoves, QuietStep
<1>3. CASE Then("stopping") /\ stops' = [items |-> job.reviewed, done |-> {}]
  <2>1. job' \in Jobs /\ job'.pc = "stopping" /\ SameJob
    BY <1>3, Places, JobMoves
  <2>2. /\ stops' \in [items : SUBSET Items, done : SUBSET Items]
        /\ stops'.items = job.reviewed /\ stops'.done = {} /\ stops.items = {}
    BY <1>3, Places, NoStopsTyped, SMT DEF Jobs, OpenStops, SetupInv, Receipted, In
  <2>3. Receipted'
    BY <1>1, <2>1, <2>2 DEF SetupInv, Receipted, SameJob, In
  <2>4. NoForgottenStop' /\ StopsTrue'
    BY <1>1, <2>2 DEF SetupInv, NoForgottenStop, StopsTrue, Gen
  <2> QED
    BY <1>1, <2>1, <2>2, <2>3, <2>4, ModelStep DEF SetupInv, SetupTypes, SameJob
<1> QED
  BY <1>2, <1>3 DEF OpenStops

\* A change of a model raises its generation.
LEMMA ModelChanged ==
  ASSUME SetupInv, NEW m \in Models, NEW d \in Deployments, d.gen = Gen(m) + 1,
         model' = [model EXCEPT ![m] = d]
  PROVE  /\ model' \in [Models -> Deployments]
         /\ model'[m] = d /\ \A n \in Models \ {m} : model'[n] = model[n]
         /\ \A i \in Items : Stopped(i) => Stopped(i)'
         /\ StopsTrue /\ recorded' = recorded => StopsTrue'
<1>1. model \in [Models -> Deployments] /\ Gen(m) \in Nat
  BY SMT DEF SetupInv, SetupTypes, Gen, Deployments
<1>2. /\ model' \in [Models -> Deployments]
      /\ model'[m] = d /\ \A n \in Models \ {m} : model'[n] = model[n]
  BY <1>1, SMT
<1>3. \A i \in Items : Stopped(i) => Stopped(i)'
  <2>1. ASSUME NEW i \in Items, Stopped(i) PROVE Stopped(i)'
    <3>1. i[1] \in Models /\ i[2] \in Nat
      BY ItemParts
    <3>2. CASE i[1] = m
      BY <1>1, <1>2, <2>1, <3>1, <3>2, SMT DEF Stopped, Gen, Deployments
    <3>3. CASE i[1] # m
      BY <1>2, <2>1, <3>1, <3>3 DEF Stopped, Gen
    <3> QED
      BY <3>2, <3>3
  <2> QED
    BY <2>1
<1>4. ASSUME StopsTrue, recorded' = recorded PROVE StopsTrue'
  <2>1. ASSUME NEW r \in recorded
        PROVE  Gen(r[1])' >= r[2] /\ (Gen(r[1])' = r[2] => ~model'[r[1]].on)
    <3>1. r[1] \in Models /\ r[2] \in Nat
      BY <2>1, ItemParts DEF SetupInv, SetupTypes
    <3>2. CASE r[1] = m
      BY <1>1, <1>2, <1>4, <2>1, <3>1, <3>2, SMT DEF StopsTrue, Gen, Deployments
    <3>3. CASE r[1] # m
      BY <1>2, <1>4, <2>1, <3>1, <3>3 DEF StopsTrue, Gen
    <3> QED
      BY <3>2, <3>3
  <2> QED
    BY <1>4, <2>1 DEF StopsTrue, Gen
<1> QED
  BY <1>2, <1>3, <1>4

\* StopModel keeps the invariant: the receipt names the model before it stops.
LEMMA StopModelInv == ASSUME SetupInv, NEW m \in Models, StopModel(m) PROVE SetupInv'
<1>1. /\ In("stopping")
      /\ UNCHANGED <<level, exists, grant, trust, stops, recorded, required>>
  BY DEF StopModel, files
<1>2. CASE Throws /\ UNCHANGED model
  <2>1. job' \in Jobs /\ job'.pc = "publish" /\ SameJob
    BY <1>2, Places, JobMoves DEF Throws
  <2> QED
    BY <1>1, <1>2, <2>1, Places, QuietStep DEF In
<1>3. ASSUME NEW i \in job.reviewed \ stops.done, i[1] = m, Gen(m) = i[2],
             model' = [model EXCEPT ![m] = [gen |-> i[2] + 1, on |-> FALSE, by |-> "setup"]],
             job' = [job EXCEPT !.pc = "stopped", !.keys = {m}]
      PROVE  SetupInv'
  <2> DEFINE d == [gen |-> i[2] + 1, on |-> FALSE, by |-> "setup"]
  <2>1. job.reviewed \subseteq Items /\ i \in Items /\ i[2] \in Nat
    <3>1. job.reviewed \subseteq Items
      BY Places DEF Jobs
    <3> QED
      BY <1>3, <3>1, ItemParts
  <2>2. d \in Deployments /\ d.gen = Gen(m) + 1 /\ d.on = FALSE /\ d.by = "setup"
    BY <1>3, <2>1, SMT DEF Deployments
  <2>3. model' = [model EXCEPT ![m] = d]
    BY <1>3
  <2> HIDE DEF d
  <2>4. /\ model' \in [Models -> Deployments]
        /\ model'[m] = d /\ \A n \in Models \ {m} : model'[n] = model[n]
        /\ \A j \in Items : Stopped(j) => Stopped(j)'
        /\ StopsTrue'
    BY <1>1, <2>2, <2>3, ModelChanged DEF SetupInv
  <2>5. job' \in Jobs
    <3>1. {m} \in SUBSET (Models \cup Keys) /\ "stopped" \in JobPlaces /\ job \in Jobs
      BY Places
    <3> QED
      BY <1>3, <3>1, Zenon DEF Jobs
  <2>6. /\ job'.pc = "stopped" /\ job'.keys = {m} /\ job'.acc = job.acc
        /\ job'.reviewed = job.reviewed
    BY <1>3, Places, SMT DEF Jobs
  <2>7. Gen(m)' = i[2] + 1 /\ ~model'[m].on
    BY <1>3, <2>2, <2>4 DEF Gen
  <2>8. stops.items = job.reviewed /\ stops.done \subseteq Items
    BY <1>1 DEF SetupInv, Receipted, SetupTypes, In
  <2>9. Receipted'
    <3>1. \A j \in stops.done : Stopped(j)'
      BY <2>4, <2>8 DEF SetupInv, Receipted
    <3>2. \A j \in job.reviewed : j[1] \in {m} => Stopped(j)'
      <4>1. Stopped(i)'
        BY <1>3, <2>1, <2>7 DEF Stopped, Gen
      <4>2. \A j \in job.reviewed : j[1] \in {m} => j = i
        BY <1>3 DEF SetupInv, Receipted
      <4> QED
        BY <4>1, <4>2
    <3>3. \A n \in Models : model'[n].by = "setup" => ~model'[n].on
      BY <2>4, <2>7 DEF SetupInv, Receipted
    <3> QED
      BY <1>1, <2>6, <2>8, <3>1, <3>2, <3>3 DEF SetupInv, Receipted, In
  <2>10. NoForgottenStop'
    <3>1. ASSUME NEW n \in Models, model'[n].by = "setup"
          PROVE  \/ <<n, Gen(n)'>> \in recorded
                 \/ \E j \in stops.items : j[1] = n /\ j[2] + 1 = Gen(n)'
      <4>1. CASE n = m
        BY <1>3, <2>7, <2>8, <4>1
      <4>2. CASE n # m
        BY <2>4, <3>1, <4>2 DEF SetupInv, NoForgottenStop, Gen
      <4> QED
        BY <4>1, <4>2
    <3> QED
      BY <1>1, <3>1 DEF NoForgottenStop
  <2> QED
    BY <1>1, <2>4, <2>5, <2>6, <2>9, <2>10, ModelStep DEF SetupInv, SetupTypes, In
<1> QED
  BY <1>2, <1>3 DEF StopModel

\* StopSeen keeps the invariant: what it marks as done has stopped.
LEMMA StopSeenInv == ASSUME SetupInv, StopSeen PROVE SetupInv'
<1>1. /\ In("stopped") /\ job' = [job EXCEPT !.pc = "stopping", !.keys = {}]
      /\ UNCHANGED <<level, exists, grant, trust, model, recorded, required>>
  BY DEF StopSeen
<1> DEFINE seen == {i \in job.reviewed : i[1] \in job.keys}
<1>2. stops' = [stops EXCEPT !.done = @ \union seen]
  BY DEF StopSeen
<1>3. job' \in Jobs
  <2>1. {} \in SUBSET (Models \cup Keys) /\ "stopping" \in JobPlaces /\ job \in Jobs
    BY Places
  <2> QED
    BY <1>1, <2>1, Zenon DEF Jobs
<1>4. job'.pc = "stopping" /\ job'.acc = job.acc /\ job'.reviewed = job.reviewed
  BY <1>1, Places, SMT DEF Jobs
<1>5. /\ seen \subseteq Items /\ \A i \in seen : Stopped(i)
      /\ stops.items = job.reviewed
  BY <1>1, Places DEF SetupInv, Receipted, Jobs, In
<1> HIDE DEF seen
<1>6. /\ stops' \in [items : SUBSET Items, done : SUBSET Items]
      /\ stops'.items = stops.items /\ stops'.done = stops.done \union seen
  BY <1>2, <1>5, SMT DEF SetupInv, SetupTypes
<1>7. Receipted'
  BY <1>1, <1>4, <1>5, <1>6 DEF SetupInv, Receipted, Stopped, Gen, In
<1>8. NoForgottenStop' /\ StopsTrue'
  BY <1>1, <1>6 DEF SetupInv, NoForgottenStop, StopsTrue, Gen
<1> QED
  BY <1>1, <1>3, <1>4, <1>6, <1>7, <1>8, ModelStep DEF SetupInv, SetupTypes, In

\* CloseStops keeps the invariant: the whole receipt is recorded.
LEMMA CloseStopsInv == ASSUME SetupInv, CloseStops PROVE SetupInv'
<1>1. /\ In("stopping") /\ stops.done = job.reviewed /\ stops' = NoStops
      /\ recorded' = recorded \union {<<i[1], i[2] + 1>> : i \in stops.done}
      /\ UNCHANGED <<level, exists, grant, trust, model, required>>
  BY DEF CloseStops
<1>2. job' \in Jobs /\ job'.pc = "test" /\ SameJob
  BY Places, JobMoves DEF CloseStops
<1>3. /\ stops.items = stops.done /\ stops.done \subseteq Items
      /\ \A i \in stops.done : Stopped(i)
  BY <1>1 DEF SetupInv, SetupTypes, Receipted, In
<1>4. StopsTrue' /\ recorded' \subseteq Items
  BY <1>1, <1>3, RecordedTrue
<1>5. NoForgottenStop'
  <2>1. ASSUME NEW m \in Models, model[m].by = "setup" PROVE <<m, Gen(m)>> \in recorded'
    BY <1>1, <1>3, <2>1 DEF SetupInv, NoForgottenStop
  <2> QED
    BY <1>1, <2>1 DEF NoForgottenStop, Gen
<1>6. Receipted'
  BY <1>1, <1>2, NoStopsTyped DEF SetupInv, Receipted, SameJob, In
<1> QED
  BY <1>1, <1>2, <1>4, <1>5, <1>6, NoStopsTyped, ModelStep DEF SetupInv, SetupTypes, SameJob, In

\* A model switched by somebody else keeps the invariant: it is theirs now.
LEMMA UserSwitchesInv ==
  ASSUME SetupInv, NEW m \in Models, UserSwitches(m) PROVE SetupInv'
<1>1. UNCHANGED <<level, exists, grant, trust, stops, recorded, required, job>>
  BY DEF UserSwitches, files
<1> DEFINE d == [gen |-> model[m].gen + 1, on |-> ~model[m].on, by |-> "user"]
<1>2. d \in Deployments /\ d.gen = Gen(m) + 1 /\ d.by = "user"
  BY SMT DEF SetupInv, SetupTypes, Deployments, Gen
<1>3. model' = [model EXCEPT ![m] = d]
  BY DEF UserSwitches
<1> HIDE DEF d
<1>4. /\ model' \in [Models -> Deployments]
      /\ model'[m] = d /\ \A n \in Models \ {m} : model'[n] = model[n]
      /\ \A j \in Items : Stopped(j) => Stopped(j)'
      /\ StopsTrue'
  BY <1>1, <1>2, <1>3, ModelChanged DEF SetupInv
<1>5. Receipted'
  <2>1. stops.done \subseteq Items /\ job.reviewed \subseteq Items
    BY Places DEF SetupInv, SetupTypes, Jobs
  <2>2. \A j \in stops.done : Stopped(j)'
    BY <1>4, <2>1 DEF SetupInv, Receipted
  <2>3. In("stopped") => \A j \in job.reviewed : j[1] \in job.keys => Stopped(j)'
    BY <1>4, <2>1 DEF SetupInv, Receipted
  <2>4. \A n \in Models : model'[n].by = "setup" => ~model'[n].on
    BY <1>2, <1>4 DEF SetupInv, Receipted
  <2> QED
    BY <1>1, <2>2, <2>3, <2>4 DEF SetupInv, Receipted, In
<1>6. NoForgottenStop'
  <2>1. ASSUME NEW n \in Models, model'[n].by = "setup"
        PROVE  n # m /\ model[n].by = "setup" /\ Gen(n)' = Gen(n)
    BY <1>2, <1>4, <2>1 DEF Gen
  <2> QED
    BY <1>1, <2>1 DEF SetupInv, NoForgottenStop
<1> QED
  BY <1>1, <1>4, <1>5, <1>6, ModelStep DEF SetupInv, SetupTypes

-----------------------------------------------------------------------------
(* LabSetup: the theorems.                                                 *)

\* Every step of the Job keeps the invariant.
LEMMA JobStepsInv == ASSUME SetupInv, JobSteps PROVE SetupInv'
<1>1. CASE Inputs \/ SetupFacts \/ SaveGrant \/ ChangeAccess \/ SetupOidcToken
  BY <1>1, InputsInv, SetupFactsInv, SaveGrantInv, ChangeAccessInv, SetupOidcTokenInv
<1>2. CASE RestoreAccess \/ VerifyRestored \/ WriteBootFile \/ BootstrapRegisteredLab
  BY <1>2, RestoreAccessInv, VerifyRestoredInv, WriteBootFileInv, BootstrapRegisteredLabInv
<1>3. CASE RecoverLease \/ BootstrapTestLicenses \/ PatchTrust \/ VerifyTrust
  BY <1>3, RecoverLeaseInv, BootstrapTestLicensesInv, PatchTrustInv, VerifyTrustInv
<1>4. CASE RemoveBootFile \/ RecoverReviewedActions \/ OpenStops
  BY <1>4, RemoveBootFileInv, RecoverReviewedActionsInv, OpenStopsInv
<1>5. CASE (\E m \in Models : StopModel(m)) \/ StopSeen \/ CloseStops
  BY <1>5, StopModelInv, StopSeenInv, CloseStopsInv
<1>6. CASE RunTests \/ Publish
  BY <1>6, RunTestsInv, PublishInv
<1> QED
  BY <1>1, <1>2, <1>3, <1>4, <1>5, <1>6 DEF JobSteps

\* Every step keeps the invariant.
LEMMA SetupNextInv == ASSUME SetupInv, [SetupNext]_setupVars PROVE SetupInv'
<1>1. CASE \E a \in Accounts, op \in {"tests", "recover"} : BeginJob(a, op)
  BY <1>1, BeginJobInv
<1>2. CASE JobSteps \/ JobKilled \/ HolderEnds \/ UserEditsTrust
  BY <1>2, JobStepsInv, JobKilledInv, OthersInv
<1>3. CASE \E a \in Accounts : DeleteAccount(a) \/ UserSetsLevel(a)
  BY <1>3, DeleteAccountInv, UserSetsLevelInv
<1>4. CASE \E m \in Models : UserSwitches(m)
  BY <1>4, UserSwitchesInv
<1>5. CASE UNCHANGED setupVars
  <2>1. UNCHANGED <<level, exists, grant, trust, model, stops, recorded, job, required>>
    BY <1>5 DEF setupVars
  <2>2. SetupTypes' /\ Onward' /\ Needed' /\ Journalled' /\ NoStandingAdmin'
    BY <2>1 DEF SetupInv, SetupTypes, Onward, Needed, Journalled, NoStandingAdmin, In
  <2>3. Receipted' /\ NoForgottenStop' /\ StopsTrue'
    BY <2>1 DEF SetupInv, Receipted, Stopped, NoForgottenStop, StopsTrue, Gen, In
  <2> QED
    BY <2>2, <2>3 DEF SetupInv
<1> QED
  BY <1>1, <1>2, <1>3, <1>4, <1>5 DEF SetupNext

\* The invariant holds in every state.
LEMMA SetupInvariance == SetupSpec => []SetupInv
  BY SetupInitInv, SetupNextInv, PTL DEF SetupSpec

\* What the setup has done to the appliance is on record wherever its Job was
\* killed (kubernetes.mjs, setup.mjs): an account is administrator for it only
\* while the journal names it, a stopped model is in the open receipt or in a
\* closed one, and no receipt claims a stop that did not happen.
THEOREM SetupStaysOnRecord == SetupSpec => []SetupOnRecord
<1>1. SetupInv => SetupOnRecord
  BY DEF SetupInv, SetupOnRecord
<1> QED
  BY <1>1, SetupInvariance, PTL

\* No step loses a key of somebody else from the license trust store (bootstrap
\* of the test key, setup.mjs): the key is added to exactly what was read.
THEOREM TrustStaysKept == SetupSpec => TrustKept
<1>1. ASSUME [SetupNext]_setupVars PROVE [trust \ {"test"} \subseteq trust']_setupVars
  <2>1. CASE PatchTrust \/ UserEditsTrust
    BY <2>1 DEF PatchTrust, TrustUnchanged, UserEditsTrust
  <2>2. CASE UNCHANGED trust
    BY <2>2
  <2>3. CASE UNCHANGED setupVars
    BY <2>3
  <2>4. ASSUME JobSteps PROVE PatchTrust \/ UNCHANGED trust
    BY <2>4, Zenon DEF JobSteps, Inputs, SetupFacts, SaveGrant, ChangeAccess, SetupOidcToken,
       RestoreAccess, VerifyRestored, WriteBootFile, BootstrapRegisteredLab, RecoverLease,
       BootstrapTestLicenses, VerifyTrust, RemoveBootFile, RecoverReviewedActions, OpenStops,
       StopModel, StopSeen, CloseStops, RunTests, Publish
  <2> QED
    BY <1>1, <2>1, <2>2, <2>3, <2>4 DEF SetupNext, BeginJob, JobKilled, HolderEnds,
       DeleteAccount,
       UserSetsLevel, UserSwitches
<1> QED
  BY <1>1, PTL DEF SetupSpec, TrustKept

-----------------------------------------------------------------------------
(* BorrowedSettings: the inductive invariant.                              *)

Contents == {"original", "run", "again", "managed", "admin"}

Settings == [gen : Nat \ {0}, spec : Contents]

Writes == [op : {"none", "sent", "done", "rejected"}, spec : Contents \cup {"none"}, rev : Nat]

SettingTypes ==
  /\ cur \in Settings /\ known \in Settings /\ write \in Writes
  /\ file \in [state : {"none", "settled", "pending", "restoring", "restored"}, at : Settings]
  /\ lost \in BOOLEAN
  /\ defaults \in BOOLEAN /\ (defaults => kind = "sharing")

\* What a process has read is an earlier setting of the appliance: a change
\* of the content is a new generation, and nobody reads an administrator's.
Earlier(s) == s.spec # "admin" /\ s.gen <= cur.gen /\ (s.gen = cur.gen => s = cur)

\* The write in flight: where it can be, and that a compared one does not
\* meet an administrator's content.
WriteHeld ==
  /\ step \in {"idle", "ready", "reconcile"} => write.op # "sent"
  /\ step = "answer" => rec = "pending"
  /\ step = "restore" /\ write.op = "sent" => rec # "settled" /\ ~Licensing
  /\ step = "restoring" /\ kind = "module" => write.spec = "original"
  /\ write.op # "none" => write.spec \notin {"admin", "none"}
  /\ write.op = "sent" =>
       /\ file.state # "restored"
       /\ Compares => write.rev <= cur.gen /\ (write.rev = cur.gen => cur.spec # "admin")

\* Only a module can lose a change, and its generation has then run ahead of
\* everything the run or a recovery could confirm.
LossShows ==
  lost => /\ kind = "module"
          /\ cur.gen >= known.gen + 2 /\ cur.gen >= file.at.gen + 2

BorrowInv ==
  /\ SettingTypes
  /\ Earlier(known) /\ Earlier(file.at) /\ Earlier(NoFile.at)
  /\ WriteHeld /\ LossShows
  /\ step = "idle" => cur = known
  /\ file.state = "restored" => ~lost /\ step = "left" /\ cur.spec \in {"original", "admin"}

-----------------------------------------------------------------------------
(* BorrowedSettings: lemmas and theorem.                                   *)

LEMMA BorrowInvInit ==
  BorrowedInit => BorrowInv
<1> SUFFICES ASSUME BorrowedInit PROVE BorrowInv
  OBVIOUS
<1>1. defaults \in BOOLEAN /\ (defaults => kind = "sharing")
  BY Zenon DEF BorrowedInit
<1>2. cur \in Settings /\ known \in Settings /\ lost = FALSE
  BY DEF BorrowedInit, Settings, Contents
<1>3. write \in Writes
  BY DEF BorrowedInit, Writes, NoWrite
<1>4. file \in [state : {"none", "settled", "pending", "restoring", "restored"}, at : Settings]
  BY DEF BorrowedInit, NoFile, Settings, Contents
<1>5. SettingTypes
  BY <1>1, <1>2, <1>3, <1>4, Zenon DEF SettingTypes
<1> QED
  BY <1>5 DEF BorrowedInit, BorrowInv, Earlier, WriteHeld, LossShows, NoFile, NoWrite

LEMMA BorrowInvInductive ==
  ASSUME ~(Licensing /\ LateLicense),
         BorrowInv, BorrowedNext
  PROVE  BorrowInv'
<1>1. CASE Borrow
  BY <1>1 DEF Borrow, Record, Keep, NoFile,
       BorrowInv, SettingTypes, Settings, Writes, Contents, Earlier, WriteHeld, LossShows
<1>2. CASE Change
  BY <1>2 DEF Change, Current, Licensing, Record, Send, Compares, NoFile,
       BorrowInv, SettingTypes, Settings, Writes, Contents, Earlier, WriteHeld, LossShows
<1>3. CASE EndScenario
  BY <1>3 DEF EndScenario, Keep, NoFile,
       BorrowInv, SettingTypes, Settings, Writes, Contents, Earlier, WriteHeld, LossShows
<1>4. CASE ServeWrite
  <2>1. /\ write.op = "sent" /\ write'.op \in {"done", "rejected"}
        /\ write'.spec = write.spec /\ write'.rev = write.rev
        /\ write' \in Writes
    BY <1>4 DEF ServeWrite, BorrowInv, SettingTypes, Writes
  <2>2. \/ /\ ~Compares \/ cur.gen = write.rev
           /\ cur' = IF cur.spec = write.spec THEN cur
                     ELSE [gen |-> cur.gen + 1, spec |-> write.spec]
           /\ lost' = (lost \/ (cur.spec = "admin" /\ write.spec # "admin"))
        \/ UNCHANGED <<cur, lost>>
    BY <1>4 DEF ServeWrite
  <2>3. UNCHANGED <<kind, defaults, known, rec, file, user, step>>
    BY <1>4 DEF ServeWrite
  <2>4. cur' = cur \/ cur' = [gen |-> cur.gen + 1, spec |-> write.spec]
    BY <2>2, Zenon
  <2>9. lost \in BOOLEAN
    BY Zenon DEF BorrowInv, SettingTypes
  <2>c. lost' \in BOOLEAN
    BY <2>2, <2>9, Zenon
  <2>d. lost' => lost \/ (cur.spec = "admin" /\ write.spec # "admin" /\ cur' # cur)
    <3>1. CASE UNCHANGED <<cur, lost>>
      BY <3>1
    <3>2. CASE /\ cur' = IF cur.spec = write.spec THEN cur
                     ELSE [gen |-> cur.gen + 1, spec |-> write.spec]
               /\ lost' = (lost \/ (cur.spec = "admin" /\ write.spec # "admin"))
      <4>1. lost' => lost \/ (cur.spec = "admin" /\ write.spec # "admin")
        BY <3>2, Zenon
      <4>2. cur.spec # write.spec => cur'.spec = write.spec
        BY <3>2
      <4> QED
        BY <4>1, <4>2
    <3> QED
      BY <2>2, <3>1, <3>2
  <2>a. cur' = cur \/ (cur'.gen = cur.gen + 1 /\ cur'.spec = write.spec)
    BY <2>4
  <2>b. cur' \in Settings
    BY <2>1, <2>4 DEF BorrowInv, SettingTypes, Settings, Writes, WriteHeld
  <2>5. SettingTypes'
    BY <2>1, <2>3, <2>c, <2>b, Zenon DEF SettingTypes, BorrowInv
  <2>6. Earlier(known)' /\ Earlier(file.at)' /\ Earlier(NoFile.at)'
    BY <2>3, <2>a, <2>b DEF BorrowInv, SettingTypes, Settings, Writes, Contents, Earlier, WriteHeld, LossShows,
       Licensing, Compares, NoFile, NoWrite
  <2>7. lost' /\ ~lost => kind = "module" /\ cur.spec = "admin"
    BY <2>1, <2>2, <2>d DEF BorrowInv, SettingTypes, Settings, Writes, Contents, Earlier, WriteHeld, LossShows,
       Licensing, Compares, NoFile, NoWrite
  <2>8. LossShows'
    BY <2>3, <2>7, <2>a, <2>b, <2>d DEF BorrowInv, SettingTypes, Settings, Writes, Contents, Earlier, WriteHeld, LossShows,
       Licensing, Compares, NoFile, NoWrite
  <2> QED
    BY <2>1, <2>3, <2>4, <2>5, <2>6, <2>8, <2>a DEF BorrowInv, SettingTypes, Settings, Writes, Contents, WriteHeld,
       Licensing, Compares, NoFile, NoWrite
<1>5. CASE ChangeAnswered
  BY <1>5 DEF ChangeAnswered, Confirmed, Record, NoWrite, Keep, NoFile,
       BorrowInv, SettingTypes, Settings, Writes, Contents, Earlier, WriteHeld, LossShows
<1>6. CASE ChangeRejected
  BY <1>6 DEF ChangeRejected, Current, Licensing, Record, NoWrite, Keep, NoFile,
       BorrowInv, SettingTypes, Settings, Writes, Contents, Earlier, WriteHeld, LossShows
<1>7. CASE WriteTimeout
  <2>1. write' = write \/ write' = NoWrite
    BY <1>7 DEF WriteTimeout, Abandoned
  <2>2. write'.op = "sent" => write' = write /\ ~Licensing
    BY <1>7 DEF WriteTimeout, Abandoned, NoWrite
  <2> QED
    BY <1>7, <2>1, <2>2 DEF WriteTimeout, Leave, Keep,
       BorrowInv, SettingTypes, Settings, Writes, Contents, Earlier, WriteHeld, LossShows,
       Licensing, Compares, NoFile, NoWrite
<1>8. CASE Restore
  BY <1>8 DEF Restore, Licensing, Resolved, Current, Leave, Record, Send, Target, Compares, Keep, NoFile,
       BorrowInv, SettingTypes, Settings, Writes, Contents, Earlier, WriteHeld, LossShows
<1>9. CASE RestoreLicense
  BY <1>9 DEF RestoreLicense, Licensing, Leave, Record, Send, Compares, Keep, NoFile,
       BorrowInv, SettingTypes, Settings, Writes, Contents, Earlier, WriteHeld, LossShows
<1>10. CASE RestoreBaseline
  BY <1>10 DEF RestoreBaseline, Licensing, Leave, Send, Compares, Keep, NoFile,
       BorrowInv, SettingTypes, Settings, Writes, Contents, Earlier, WriteHeld, LossShows
<1>11. CASE RestoreAnswered
  BY <1>11 DEF RestoreAnswered, Licensing, Confirmed, Leave, NoWrite, Record, Keep, NoFile,
       BorrowInv, SettingTypes, Settings, Writes, Contents, Earlier, WriteHeld, LossShows
<1>12. CASE RestoreRejected
  BY <1>12 DEF RestoreRejected, Current, Leave, NoWrite, Record, Keep, NoFile,
       BorrowInv, SettingTypes, Settings, Writes, Contents, Earlier, WriteHeld, LossShows
<1>13. CASE RecoverSetting
  BY <1>13 DEF RecoverSetting, Licensing, Unrestored, NoWrite, Keep, NoFile,
       BorrowInv, SettingTypes, Settings, Writes, Contents, Earlier, WriteHeld, LossShows
<1>14. CASE ReconcileUnchanged
  BY <1>14 DEF ReconcileUnchanged, Current, Leave, Record, Keep, NoFile,
       BorrowInv, SettingTypes, Settings, Writes, Contents, Earlier, WriteHeld, LossShows
<1>15. CASE Die
  <2>1. write' = write \/ write' = NoWrite
    BY <1>15 DEF Die, Abandoned
  <2>2. write'.op = "sent" => write' = write /\ ~Licensing
    BY <1>15 DEF Die, Abandoned, NoWrite
  <2> QED
    BY <1>15, <2>1, <2>2 DEF Die, Leave, Keep,
       BorrowInv, SettingTypes, Settings, Writes, Contents, Earlier, WriteHeld, LossShows,
       Licensing, Compares, NoFile, NoWrite
<1>16. CASE AdminEdit
  <2>1. PICK spec \in {"admin", "original"} \ {cur.spec} :
          cur' = [gen |-> cur.gen + 1, spec |-> spec]
    BY <1>16 DEF AdminEdit
  <2>2. /\ cur' \in Settings /\ cur'.gen = cur.gen + 1
        /\ cur'.spec \in {"admin", "original"}
    BY <2>1 DEF BorrowInv, SettingTypes, Settings, Contents
  <2> QED
    BY <1>16, <2>2 DEF AdminEdit, BorrowInv, SettingTypes, Settings, Writes, Contents, Earlier, WriteHeld, LossShows,
       Licensing, Compares, NoFile, NoWrite
<1>q. QED
  BY <1>1, <1>2, <1>3, <1>4, <1>5, <1>6, <1>7, <1>8, <1>9, <1>10, <1>11, <1>12, <1>13, <1>14, <1>15, <1>16 DEF BorrowedNext, UserStep

LEMMA BorrowInvHolds ==
  BorrowedSpec => [](~(Licensing /\ LateLicense) => BorrowInv)
<1> DEFINE P == ~(Licensing /\ LateLicense) => BorrowInv
<1>1. BorrowedInit => P
  BY BorrowInvInit
<1>2. P /\ [BorrowedNext]_borrowedVars => P'
  <2> SUFFICES ASSUME P, [BorrowedNext]_borrowedVars, ~(Licensing /\ LateLicense)'
               PROVE  BorrowInv'
    OBVIOUS
  <2>1. kind' = kind
    BY DEF borrowedVars, BorrowedNext, UserStep, Borrow, Change, EndScenario, ChangeAnswered,
           ChangeRejected, Restore, RestoreLicense, RestoreBaseline, RestoreAnswered,
           RestoreRejected, ReconcileUnchanged, ServeWrite, RecoverSetting, WriteTimeout, Die,
           AdminEdit, Keep
  <2>2. ~(Licensing /\ LateLicense) /\ BorrowInv
    BY <2>1 DEF Licensing
  <2>3. CASE BorrowedNext
    BY <2>2, <2>3, BorrowInvInductive
  <2>4. CASE UNCHANGED borrowedVars
    BY <2>2, <2>4 DEF borrowedVars, BorrowInv, SettingTypes, Earlier, WriteHeld, LossShows,
                      Licensing, Compares, NoFile
  <2> QED
    BY <2>3, <2>4
<1> QED
  BY <1>1, <1>2, PTL DEF BorrowedSpec

\* No borrowed setting is called restored while a change of an administrator
\* was overwritten, or while it has content of the run (borrowed-module.ts,
\* borrowed-sharing.ts, license-*.ts): for every number of changes, edits and
\* faults, unless the write of a license may be served after its client gave up.
THEOREM BorrowedSafe ==
  BorrowedSpec => [](~(Licensing /\ LateLicense) => SettingsSafe)
<1>1. BorrowInv => SettingsSafe
  BY DEF BorrowInv, WriteHeld, SettingsSafe, NoSilentLoss, RestoredTrue
<1> QED
  BY <1>1, BorrowInvHolds, PTL

-----------------------------------------------------------------------------
(* LabInputs: the inductive invariant.                                     *)

LabFiles == [gen : Nat, uid : Nat, boot : Nat]
ProfileFiles == [gen : Nat, consent : Nat]
DrillFiles == [uid : Nat, boot : Nat]
InputSets == [lab : LabFiles, profile : ProfileFiles, drills : DrillFiles]

PrepPlaces == {"idle", "discover", "drop", "mark", "profile", "drills", "lab", "unmark"}

Preparations == [pc : PrepPlaces, mode : PreparationModes \cup {"none"}, src : InputSets,
                 cand : InputSets, interrupted : BOOLEAN]

Uses == [pc : {"idle", "entered", "loaded", "reserved", "using"}, lab : LabFiles,
         profile : ProfileFiles, drills : DrillFiles, overlap : BOOLEAN]

InputTypes ==
  /\ target \in [uid : Nat, boot : Nat]
  /\ lab \in LabFiles /\ profile \in ProfileFiles /\ drills \in DrillFiles
  /\ inputPlan \in [src : InputSets, snap : DrillFiles, cand : InputSets, fresh : BOOLEAN]
  /\ prep \in [Preparers -> Preparations]
  /\ using \in Uses /\ plans \in Nat /\ raced \in BOOLEAN

\* The files of one acceptance; and with its consent for that appliance.
OneSet(s) == s.lab.gen = s.profile.gen

Bound(s) == s.profile.consent \in {0, s.lab.uid}

\* No live preparation has lost its marker, and nothing happened in a gap that
\* lets a run or the next preparation see a mixture.
Orderly == ~raced /\ gap \subseteq {"planned"}

Calm == ~raced /\ gap = {}

\* No preparation is between the old marker and its own.
NoGap == marker = NoMarker /\ \A p \in Preparers : ~Unmarked(p)

\* One preparation writes at a time, under its own marker.
OneWriter ==
  \A p \in Preparers :
    /\ Writing(p) => marker.kind # "none" /\ marker.by = p
    /\ prep[p].pc \in {"drills", "lab", "unmark"} => profile = prep[p].cand.profile
    /\ At(p, "unmark") => lab = prep[p].cand.lab

\* Where a preparation is says what it does.
Placed ==
  \A p \in Preparers :
    /\ At(p, "drop") => prep[p].interrupted
    /\ prep[p].mode = "accept" => ~prep[p].interrupted
    /\ prep[p].pc \in {"drop", "mark"} \/ Writing(p) => prep[p].mode \in {"accept", "automatic"}

\* Every candidate is one set, and so are the files when nobody writes them.
WholeSets ==
  /\ OneSet(inputPlan.cand) /\ \A p \in Preparers : OneSet(prep[p].cand)
  /\ Orderly /\ NoGap => OneSet(Source)

BoundSets ==
  Calm =>
    /\ Bound(inputPlan.cand)
    /\ \A p \in Preparers : Bound(prep[p].cand) /\ Bound(prep[p].src)
    /\ NoGap => Bound(Source)

\* A run that no acceptance overlapped has the files as they are.
RunReads ==
  Orderly /\ using.pc # "idle" /\ ~using.overlap =>
    /\ NoGap
    /\ using.pc # "entered" => using.lab = lab
    /\ using.pc = "using" => using.profile = profile

InputInv ==
  /\ InputTypes /\ Placed /\ (~raced => OneWriter)
  /\ WholeSets /\ BoundSets /\ RunReads

-----------------------------------------------------------------------------
(* LabInputs: lemmas.                                                      *)

\* Everything but one preparation is as it was.
OnlyPrep(p) ==
  /\ prep' \in [Preparers -> Preparations]
  /\ \A q \in Preparers \ {p} : prep'[q] = prep[q]

LEMMA GotoParts ==
  ASSUME InputTypes, NEW p \in Preparers, NEW s \in PrepPlaces, Goto(p, s)
  PROVE  /\ OnlyPrep(p)
         /\ prep'[p].pc = s /\ prep'[p].mode = prep[p].mode /\ prep'[p].src = prep[p].src
         /\ prep'[p].cand = prep[p].cand /\ prep'[p].interrupted = prep[p].interrupted
BY DEF InputTypes, Goto, OnlyPrep, Preparations

LEMMA AcceptedTyped ==
  /\ Accepted \in InputSets /\ NoDrills \in DrillFiles
  /\ OneSet(Accepted) /\ Bound(Accepted)
BY InputUids DEF Accepted, InputSets, NoDrills, LabFiles, ProfileFiles, DrillFiles, OneSet, Bound

LEMMA UnstartedTyped ==
  Unstarted \in Preparations
BY AcceptedTyped DEF Unstarted, Preparations, PrepPlaces, PreparationModes

LEMMA OverParts ==
  ASSUME InputTypes, NEW p \in Preparers, Over(p)
  PROVE  OnlyPrep(p) /\ prep'[p] = Unstarted
BY UnstartedTyped DEF InputTypes, Over, OnlyPrep

LEMMA UnmarkedKept ==
  ASSUME NEW p \in Preparers, OnlyPrep(p)
  PROVE  \A q \in Preparers \ {p} : Unmarked(q)' <=> Unmarked(q)
BY DEF OnlyPrep, Unmarked, At

LEMMA InputInitInv == InputInit => InputInv
<1> SUFFICES ASSUME InputInit PROVE InputInv
  OBVIOUS
<1>1. /\ target \in [uid : Nat, boot : Nat] /\ plans \in Nat
      /\ lab = Accepted.lab /\ profile = Accepted.profile /\ drills = NoDrills
      /\ inputPlan = NoPlan /\ raced = FALSE /\ gap = {} /\ using.pc = "idle"
  BY InputUids DEF InputInit, NoUse
<1>2. prep \in [Preparers -> Preparations] /\ \A p \in Preparers : prep[p] = Unstarted
  BY UnstartedTyped DEF InputInit
<1>3. lab \in LabFiles /\ profile \in ProfileFiles /\ drills \in DrillFiles
  BY <1>1, AcceptedTyped DEF InputSets
<1>4. inputPlan \in [src : InputSets, snap : DrillFiles, cand : InputSets, fresh : BOOLEAN]
  BY <1>1, AcceptedTyped DEF NoPlan, DrillFiles
<1>5. NoUse \in Uses
  BY AcceptedTyped DEF NoUse, Uses, InputSets
<1>6. InputTypes
  BY <1>1, <1>2, <1>3, <1>4, <1>5 DEF InputTypes, InputInit
<1> QED
  BY <1>1, <1>2, <1>6, AcceptedTyped
  DEF InputInv, Placed, OneWriter, WholeSets, BoundSets, RunReads,
       OneSet, Bound, Orderly, Calm, NoGap, Unmarked, Writing, At, Source, NoPlan, Unstarted

\* A step of a preparation that does not write.
LEMMA QuietPrep ==
  ASSUME InputInv, NEW p \in Preparers, OnlyPrep(p),
         UNCHANGED <<target, inputFiles, using, raced>>, gap \subseteq gap', plans' \in Nat,
         inputPlan' \in [src : InputSets, snap : DrillFiles, cand : InputSets, fresh : BOOLEAN],
         OneSet(inputPlan'.cand), Calm' => Bound(inputPlan'.cand),
         OneSet(prep'[p].cand), Calm' => Bound(prep'[p].cand) /\ Bound(prep'[p].src),
         prep'[p].pc \in {"idle", "discover", "drop", "mark"},
         prep'[p].pc = "drop" => prep'[p].interrupted,
         prep'[p].mode = "accept" => ~prep'[p].interrupted,
         prep'[p].pc \in {"drop", "mark"} => prep'[p].mode \in {"accept", "automatic"},
         Unmarked(p)' => Unmarked(p),
         Unmarked(p) => Unmarked(p)' \/ "killed" \in gap' \/ marker # NoMarker
  PROVE  InputInv'
<1>1. \A q \in Preparers \ {p} : prep'[q] = prep[q]
  BY DEF OnlyPrep
<1>2. InputTypes'
  BY DEF InputInv, InputTypes, OnlyPrep, inputFiles
<1>3. Placed' /\ (~raced' => OneWriter')
  BY <1>1 DEF InputInv, Placed, OneWriter, Writing, At, inputFiles
<1>4. (Orderly /\ NoGap)' => Orderly /\ NoGap
  <2>1. "killed" \in gap' => ~Orderly'
    BY DEF Orderly
  <2> QED
    BY <1>1, <2>1 DEF Orderly, NoGap, Unmarked, At, inputFiles
<1>5. Calm' => Calm /\ Orderly'
  BY DEF Calm, Orderly
<1>6. Source' = Source
  BY DEF Source, inputFiles
<1>7. WholeSets'
  BY <1>1, <1>4, <1>6 DEF InputInv, WholeSets, OneSet
<1>8. BoundSets'
  BY <1>1, <1>4, <1>5, <1>6 DEF InputInv, BoundSets, Bound
<1>9. RunReads'
  BY <1>1 DEF InputInv, RunReads, Orderly, NoGap, Unmarked, At, inputFiles
<1> QED
  BY <1>2, <1>3, <1>7, <1>8, <1>9 DEF InputInv

LEMMA StartInv ==
  ASSUME InputInv, NEW p \in Preparers, NEW m \in PreparationModes, Start(p, m)
  PROVE  InputInv'
<1> DEFINE new == [pc |-> "discover", mode |-> m, src |-> IF m = "automatic" THEN Accepted ELSE Source,
                   cand |-> Accepted, interrupted |-> marker # NoMarker]
<1>1. UNCHANGED <<target, inputFiles, inputPlan, using, plans, raced>>
  BY DEF Start
<1>2. new \in Preparations
  <2>1. Source \in InputSets
    BY DEF InputInv, InputTypes, Source, InputSets
  <2> QED
    BY <2>1, AcceptedTyped DEF Preparations, PrepPlaces
<1>3. OnlyPrep(p) /\ prep'[p] = new
  BY <1>2 DEF InputInv, InputTypes, OnlyPrep, Start
<1>4. gap \subseteq gap'
  BY DEF Start, InGap
<1>5. Calm' => Bound(prep'[p].src)
  <2>1. CASE m = "automatic"
    BY <1>3, <2>1, AcceptedTyped
  <2>2. CASE m # "automatic"
    <3> SUFFICES ASSUME Calm' PROVE Bound(Source)
      BY <1>3, <2>2
    <3>1. marker = NoMarker
      BY <2>2 DEF Start, AutomaticInputRecovery
    <3>2. gap' = InGap("planned")
      BY <2>2 DEF Start
    <3>3. \A q \in Preparers : ~Unmarked(q)
      BY <3>2 DEF InGap, Calm
    <3> QED
      BY <1>1, <1>4, <3>1, <3>3 DEF InputInv, BoundSets, NoGap, Calm
  <2> QED
    BY <2>1, <2>2
<1>6. ~Unmarked(p) /\ ~Unmarked(p)'
  BY <1>3 DEF Start, Unmarked, At
<1>8. new.mode = "accept" => ~new.interrupted
  BY DEF Start, AutomaticInputRecovery
<1>7. plans \in Nat /\ OneSet(inputPlan.cand) /\ (Calm' => Bound(inputPlan.cand))
  BY <1>1, <1>4 DEF InputInv, InputTypes, WholeSets, BoundSets, Calm
<1> QED
  BY <1>1, <1>3, <1>4, <1>5, <1>6, <1>7, <1>8, AcceptedTyped, QuietPrep DEF InputInv, InputTypes

\* A candidate for a set of inputs that is bound to its appliance is one set,
\* bound to the appliance inspected.
LEMMA CandidateWhole ==
  ASSUME InputTypes, NEW gen \in Nat, NEW src \in InputSets, NEW approve, NEW drill
  PROVE  /\ Candidate(gen, src, approve, drill) \in InputSets
         /\ OneSet(Candidate(gen, src, approve, drill))
         /\ Bound(src) => Bound(Candidate(gen, src, approve, drill))
BY DEF InputTypes, Candidate, PreparedLab, PreparedProfile, PreparedReboot, Discover, NoDrills,
       InputSets, LabFiles, ProfileFiles, DrillFiles, OneSet, Bound

LEMMA AutomaticWhole ==
  ASSUME InputTypes, NEW gen \in Nat
  PROVE  /\ AutomaticCandidate(gen) \in InputSets
         /\ OneSet(AutomaticCandidate(gen))
         /\ RegisteredLab => Bound(AutomaticCandidate(gen))
BY InputUids DEF InputTypes, AutomaticCandidate, PreparedLab, AutomaticProfile, AutomaticHostRecipes,
       Discover, RegisteredLab, InputSets, LabFiles, ProfileFiles, DrillFiles, OneSet, Bound

LEMMA SavePlanInv ==
  ASSUME InputInv, NEW p \in Preparers, SavePlan(p)
  PROVE  InputInv'
<1>1. UNCHANGED <<target, inputFiles, using, raced, gap>> /\ plans' = plans + 1
  BY DEF SavePlan
<1>2. OnlyPrep(p) /\ prep'[p] = Unstarted
  BY OverParts DEF SavePlan, InputInv
<1>3. PICK flags \in SUBSET {"approve", "drill"} :
        inputPlan' = [src |-> prep[p].src, snap |-> Discover, fresh |-> TRUE,
                cand |-> Candidate(plans + 1, prep[p].src, "approve" \in flags,
                                   flags = {"approve", "drill"})]
  BY DEF SavePlan
<1> DEFINE c == Candidate(plans + 1, prep[p].src, "approve" \in flags, flags = {"approve", "drill"})
<1>4. prep[p].src \in InputSets /\ plans + 1 \in Nat /\ Discover \in DrillFiles
  BY DEF InputInv, InputTypes, Preparations, Discover, DrillFiles
<1>5. c \in InputSets /\ OneSet(c) /\ (Bound(prep[p].src) => Bound(c))
  BY <1>4, CandidateWhole DEF InputInv
<1> HIDE DEF c
<1>6. inputPlan' \in [src : InputSets, snap : DrillFiles, cand : InputSets, fresh : BOOLEAN]
  BY <1>3, <1>4, <1>5 DEF c
<1>7. inputPlan'.cand = c
  BY <1>3 DEF c
<1>8. Calm' => Bound(c)
  BY <1>1, <1>5 DEF InputInv, BoundSets, Calm
<1>9. ~Unmarked(p) /\ ~Unmarked(p)'
  BY <1>2 DEF SavePlan, Unmarked, At, Unstarted
<1>10. plans' \in Nat /\ OneSet(Accepted) /\ Bound(Accepted)
  BY <1>1, <1>4, AcceptedTyped
<1> QED
  BY <1>1, <1>2, <1>5, <1>6, <1>7, <1>8, <1>9, <1>10, QuietPrep DEF Unstarted

LEMMA OverQuiet ==
  ASSUME InputInv, NEW p \in Preparers, Over(p),
         UNCHANGED <<target, inputFiles, inputPlan, using, raced, plans>>, gap \subseteq gap',
         Unmarked(p) => "killed" \in gap' \/ marker # NoMarker
  PROVE  InputInv'
<1>1. OnlyPrep(p) /\ prep'[p] = Unstarted
  BY OverParts DEF InputInv
<1>2. plans \in Nat /\ OneSet(inputPlan.cand) /\ (Calm' => Bound(inputPlan.cand))
  BY DEF InputInv, InputTypes, WholeSets, BoundSets, Calm
<1>3. ~Unmarked(p)'
  BY <1>1 DEF Unmarked, At, Unstarted
<1> QED
  BY <1>1, <1>2, <1>3, AcceptedTyped, QuietPrep DEF Unstarted, InputInv, InputTypes

LEMMA InputsValidatedInv ==
  ASSUME InputInv, NEW p \in Preparers, InputsValidated(p)
  PROVE  InputInv'
<1>1. UNCHANGED <<target, inputFiles, inputPlan, using, plans, raced, gap>>
  BY DEF InputsValidated
<1>2. ~Unmarked(p)
  BY DEF InputsValidated, Unmarked, At
<1>3. CASE Over(p)
  BY <1>1, <1>2, <1>3, OverQuiet
<1>4. CASE prep' = [prep EXCEPT ![p].pc = "mark", ![p].cand = inputPlan.cand, ![p].src = Accepted]
  <2>1. /\ prep'[p].pc = "mark" /\ prep'[p].mode = prep[p].mode /\ prep'[p].src = Accepted
        /\ prep'[p].cand = inputPlan.cand /\ prep'[p].interrupted = prep[p].interrupted
        /\ OnlyPrep(p)
    BY <1>4, AcceptedTyped DEF InputInv, InputTypes, OnlyPrep, Preparations, PrepPlaces
  <2>2. prep[p].mode = "accept" /\ ~prep[p].interrupted
    BY DEF InputsValidated, InputInv, Placed
  <2>3. /\ inputPlan \in [src : InputSets, snap : DrillFiles, cand : InputSets, fresh : BOOLEAN]
        /\ plans \in Nat /\ OneSet(inputPlan.cand) /\ (Calm' => Bound(inputPlan.cand))
    BY <1>1 DEF InputInv, InputTypes, WholeSets, BoundSets, Calm
  <2>4. ~Unmarked(p)'
    BY <2>1, <2>2 DEF Unmarked
  <2> QED
    BY <1>1, <1>2, <2>1, <2>2, <2>3, <2>4, AcceptedTyped, QuietPrep
<1> QED
  BY <1>3, <1>4 DEF InputsValidated

LEMMA GenerateInv ==
  ASSUME InputInv, NEW p \in Preparers, Generate(p)
  PROVE  InputInv'
<1>1. UNCHANGED <<target, inputFiles, inputPlan, using, raced, gap>>
  BY DEF Generate
<1>2. ~Unmarked(p) /\ prep[p].mode = "automatic"
  BY DEF Generate, Unmarked, At
<1>3. CASE Over(p) /\ UNCHANGED plans
  BY <1>1, <1>2, <1>3, OverQuiet
<1>4. CASE /\ RegisteredLab /\ plans' = plans + 1
           /\ prep' = [prep EXCEPT ![p].cand = AutomaticCandidate(plans + 1),
                        ![p].pc = IF prep[p].interrupted THEN "drop" ELSE "mark"]
  <2> DEFINE c == AutomaticCandidate(plans + 1)
  <2>1. c \in InputSets /\ OneSet(c) /\ Bound(c) /\ plans' \in Nat
    BY <1>4, AutomaticWhole DEF InputInv, InputTypes
  <2> HIDE DEF c
  <2>2. /\ prep'[p].pc = IF prep[p].interrupted THEN "drop" ELSE "mark"
        /\ prep'[p].mode = prep[p].mode /\ prep'[p].src = prep[p].src
        /\ prep'[p].cand = c /\ prep'[p].interrupted = prep[p].interrupted
        /\ OnlyPrep(p)
    BY <1>4, <2>1 DEF InputInv, InputTypes, OnlyPrep, Preparations, PrepPlaces, c
  <2>3. ~Unmarked(p)'
    BY <2>2 DEF Unmarked, At
  <2>4. /\ inputPlan \in [src : InputSets, snap : DrillFiles, cand : InputSets, fresh : BOOLEAN]
        /\ OneSet(inputPlan.cand)
        /\ Calm' => Bound(inputPlan.cand) /\ Bound(prep[p].src)
    BY <1>1 DEF InputInv, InputTypes, WholeSets, BoundSets, Calm
  <2> QED
    BY <1>1, <1>2, <2>1, <2>2, <2>3, <2>4, QuietPrep
<1> QED
  BY <1>3, <1>4 DEF Generate

LEMMA PrepKilledInv ==
  ASSUME InputInv, NEW p \in Preparers, PrepKilled(p)
  PROVE  InputInv'
BY OverQuiet DEF PrepKilled

\* The marker of an interrupted acceptance is gone; what it left is mixed.
LEMMA DropMarkerInv ==
  ASSUME InputInv, NEW p \in Preparers, DropMarker(p)
  PROVE  InputInv'
<1>1. /\ UNCHANGED <<target, lab, profile, drills, inputPlan, using, plans, gap>>
      /\ marker' = NoMarker
      /\ raced' = (raced \/ \E q \in Preparers : marker.by = q /\ Writing(q))
  BY DEF DropMarker
<1>2. CASE marker = NoMarker
  <2>1. Over(p) /\ ~Unmarked(p)
    BY <1>2 DEF DropMarker, Unmarked, At
  <2>2. raced' = raced
    <3>1. ~raced => ~\E q \in Preparers : marker.by = q /\ Writing(q)
      BY <1>2 DEF InputInv, OneWriter, NoMarker
    <3>2. raced \in BOOLEAN
      BY DEF InputInv, InputTypes
    <3> QED
      BY <1>1, <3>1, <3>2, Zenon
  <2> QED
    BY <1>1, <1>2, <2>1, <2>2, OverQuiet DEF inputFiles
<1>3. CASE marker # NoMarker
  <2>1. /\ OnlyPrep(p)
        /\ prep'[p].pc = "mark" /\ prep'[p].mode = prep[p].mode /\ prep'[p].src = prep[p].src
        /\ prep'[p].cand = prep[p].cand /\ prep'[p].interrupted = prep[p].interrupted
    BY <1>3, GotoParts DEF DropMarker, InputInv, PrepPlaces
  <2>2. Unmarked(p)' /\ ~NoGap'
    BY <2>1 DEF DropMarker, Unmarked, NoGap, InputInv, Placed, At
  <2>3. ~raced' => ~raced /\ \A q \in Preparers : ~Writing(q)
    BY <1>1 DEF InputInv, OneWriter
  <2>4. \A q \in Preparers \ {p} : prep'[q] = prep[q]
    BY <2>1 DEF OnlyPrep
  <2>10. raced' \in BOOLEAN
    BY <1>1 DEF InputInv, InputTypes
  <2>5. InputTypes'
    BY <1>1, <2>1, <2>10 DEF InputInv, InputTypes, OnlyPrep
  <2>6. ~raced' => OneWriter'
    BY <2>1, <2>3, <2>4 DEF OneWriter, Writing, At
  <2>7. Placed'
    BY <2>1, <2>4 DEF InputInv, Placed, Writing, At, DropMarker
  <2>8. WholeSets' /\ BoundSets'
    BY <1>1, <2>1, <2>2, <2>3, <2>4 DEF InputInv, WholeSets, BoundSets, Calm, OneSet, Bound
  <2>9. RunReads'
    BY <1>1, <1>3, <2>3 DEF InputInv, RunReads, Orderly, NoGap
  <2> QED
    BY <2>5, <2>6, <2>7, <2>8, <2>9 DEF InputInv
<1> QED
  BY <1>2, <1>3

LEMMA MarkInv ==
  ASSUME InputInv, NEW p \in Preparers, Mark(p)
  PROVE  InputInv'
<1>1. UNCHANGED <<target, lab, profile, drills, inputPlan, plans, raced, gap>>
  BY DEF Mark
<1>2. CASE marker # NoMarker
  BY <1>1, <1>2, OverQuiet DEF Mark, inputFiles
<1>3. CASE marker = NoMarker
  <2>1. /\ OnlyPrep(p)
        /\ prep'[p].pc = "profile" /\ prep'[p].mode = prep[p].mode /\ prep'[p].src = prep[p].src
        /\ prep'[p].cand = prep[p].cand /\ prep'[p].interrupted = prep[p].interrupted
    BY <1>3, GotoParts DEF Mark, InputInv, PrepPlaces
  <2>2. /\ marker' = [kind |-> prep[p].mode, by |-> p]
        /\ prep[p].mode \in {"accept", "automatic"}
    BY <1>3 DEF Mark, At, InputInv, Placed
  <2>3. marker'.kind # "none" /\ marker'.by = p /\ marker' # NoMarker
    BY <2>2 DEF NoMarker
  <2>4. \A q \in Preparers \ {p} : prep'[q] = prep[q]
    BY <2>1 DEF OnlyPrep
  <2>13. using' = [using EXCEPT !.overlap = @ \/ using.pc # "idle"]
    BY <1>3 DEF Mark
  <2>14. using \in Uses
    BY DEF InputInv, InputTypes
  <2>15. using' \in Uses
    BY <2>13, <2>14 DEF Uses
  <2>5. InputTypes'
    BY <1>1, <2>1, <2>15 DEF InputInv, InputTypes, OnlyPrep
  <2>6. ~raced => \A q \in Preparers : ~Writing(q)
    BY <1>3 DEF InputInv, OneWriter, NoMarker
  <2>7. ~raced' => OneWriter'
    BY <1>1, <2>1, <2>3, <2>4, <2>6 DEF OneWriter, Writing, At
  <2>8. Placed'
    BY <2>1, <2>2, <2>4 DEF InputInv, Placed, Writing, At
  <2>9. ~NoGap'
    BY <2>3 DEF NoGap
  <2>10. WholeSets' /\ BoundSets'
    BY <1>1, <2>1, <2>4, <2>9 DEF InputInv, WholeSets, BoundSets, Calm, OneSet, Bound
  <2>11. using'.pc = "idle" \/ using'.overlap
    BY <2>13, <2>14 DEF Uses
  <2>12. RunReads'
    BY <2>11 DEF RunReads
  <2> QED
    BY <2>5, <2>7, <2>8, <2>10, <2>12 DEF InputInv
<1> QED
  BY <1>2, <1>3

\* An acceptance writes a file; nobody else does.
LEMMA WriteStep ==
  ASSUME InputInv, NEW p \in Preparers, Writing(p), OnlyPrep(p),
         UNCHANGED <<target, marker, inputPlan, using, plans, raced, gap>>,
         lab' \in LabFiles, profile' \in ProfileFiles, drills' \in DrillFiles,
         prep'[p].mode = prep[p].mode, prep'[p].src = prep[p].src,
         prep'[p].cand = prep[p].cand, prep'[p].interrupted = prep[p].interrupted,
         prep'[p].pc \in {"drills", "lab", "unmark"},
         ~raced => profile' = prep[p].cand.profile,
         ~raced /\ prep'[p].pc = "unmark" => lab' = prep[p].cand.lab
  PROVE  InputInv'
<1>1. \A q \in Preparers \ {p} : prep'[q] = prep[q]
  BY DEF OnlyPrep
<1>2. ~raced => ~NoGap /\ ~NoGap' /\ marker.by = p
  BY DEF InputInv, OneWriter, NoGap, NoMarker
<1>3. InputTypes'
  BY DEF InputInv, InputTypes, OnlyPrep
<1>4. Placed'
  BY <1>1 DEF InputInv, Placed, Writing, At
<1>5. ~raced' => OneWriter'
  BY <1>1, <1>2 DEF InputInv, OneWriter, Writing, At
<1>6. WholeSets' /\ BoundSets'
  BY <1>1, <1>2 DEF InputInv, WholeSets, BoundSets, Orderly, Calm, OneSet, Bound
<1>7. RunReads'
  BY <1>2 DEF InputInv, RunReads, Orderly
<1> QED
  BY <1>3, <1>4, <1>5, <1>6, <1>7 DEF InputInv

LEMMA WriteProfileInv ==
  ASSUME InputInv, NEW p \in Preparers, WriteProfile(p)
  PROVE  InputInv'
<1>1. prep[p].pc = "profile" /\ Goto(p, "drills")
  BY DEF WriteProfile, At
<1>2. /\ OnlyPrep(p)
      /\ prep'[p].pc = "drills" /\ prep'[p].mode = prep[p].mode /\ prep'[p].src = prep[p].src
      /\ prep'[p].cand = prep[p].cand /\ prep'[p].interrupted = prep[p].interrupted
  BY <1>1, GotoParts DEF InputInv, PrepPlaces
<1>3. prep[p].cand \in InputSets
  BY DEF InputInv, InputTypes, Preparations
<1>4. lab' \in LabFiles /\ profile' \in ProfileFiles /\ drills' \in DrillFiles
  BY <1>3 DEF WriteProfile, InputInv, InputTypes, InputSets
<1> QED
  BY <1>1, <1>2, <1>4, WriteStep DEF WriteProfile, Writing, At, InputInv, OneWriter

LEMMA WriteDrillsInv ==
  ASSUME InputInv, NEW p \in Preparers, WriteDrills(p)
  PROVE  InputInv'
<1>1. prep[p].pc = "drills" /\ Goto(p, "lab")
  BY DEF WriteDrills, At
<1>2. /\ OnlyPrep(p)
      /\ prep'[p].pc = "lab" /\ prep'[p].mode = prep[p].mode /\ prep'[p].src = prep[p].src
      /\ prep'[p].cand = prep[p].cand /\ prep'[p].interrupted = prep[p].interrupted
  BY <1>1, GotoParts DEF InputInv, PrepPlaces
<1>3. prep[p].cand \in InputSets
  BY DEF InputInv, InputTypes, Preparations
<1>4. lab' \in LabFiles /\ profile' \in ProfileFiles /\ drills' \in DrillFiles
  BY <1>3 DEF WriteDrills, InputInv, InputTypes, InputSets
<1> QED
  BY <1>1, <1>2, <1>4, WriteStep DEF WriteDrills, Writing, At, InputInv, OneWriter

LEMMA WriteLabInv ==
  ASSUME InputInv, NEW p \in Preparers, WriteLab(p)
  PROVE  InputInv'
<1>1. prep[p].pc = "lab" /\ Goto(p, "unmark")
  BY DEF WriteLab, At
<1>2. /\ OnlyPrep(p)
      /\ prep'[p].pc = "unmark" /\ prep'[p].mode = prep[p].mode /\ prep'[p].src = prep[p].src
      /\ prep'[p].cand = prep[p].cand /\ prep'[p].interrupted = prep[p].interrupted
  BY <1>1, GotoParts DEF InputInv, PrepPlaces
<1>3. prep[p].cand \in InputSets
  BY DEF InputInv, InputTypes, Preparations
<1>4. lab' \in LabFiles /\ profile' \in ProfileFiles /\ drills' \in DrillFiles
  BY <1>3 DEF WriteLab, InputInv, InputTypes, InputSets
<1> QED
  BY <1>1, <1>2, <1>4, WriteStep DEF WriteLab, Writing, At, InputInv, OneWriter

\* The marker goes once all files are of one acceptance.
LEMMA UnmarkInv ==
  ASSUME InputInv, NEW p \in Preparers, Unmark(p)
  PROVE  InputInv'
<1>1. /\ UNCHANGED <<target, lab, profile, drills, inputPlan, using, plans, raced, gap>>
      /\ marker' = NoMarker /\ prep[p].pc = "unmark"
  BY DEF Unmark, At
<1>2. OnlyPrep(p) /\ prep'[p] = Unstarted
  BY OverParts DEF Unmark, InputInv
<1>3. \A q \in Preparers \ {p} : prep'[q] = prep[q]
  BY <1>2 DEF OnlyPrep
<1>4. ~raced => /\ ~NoGap /\ lab = prep[p].cand.lab /\ profile = prep[p].cand.profile
                /\ \A q \in Preparers \ {p} : ~Writing(q)
  BY <1>1 DEF InputInv, OneWriter, NoGap, NoMarker, Writing, At
<1>5. InputTypes'
  BY <1>1, <1>2 DEF InputInv, InputTypes, OnlyPrep
<1>6. Placed' /\ (~raced' => OneWriter')
  BY <1>1, <1>2, <1>3, <1>4 DEF InputInv, Placed, OneWriter, Writing, At, Unstarted
<1>7. ~raced => Source' = [lab |-> prep[p].cand.lab, profile |-> prep[p].cand.profile, drills |-> drills]
  BY <1>1, <1>4 DEF Source
<1>8. WholeSets' /\ BoundSets'
  BY <1>1, <1>2, <1>3, <1>7, AcceptedTyped
  DEF InputInv, WholeSets, BoundSets, Orderly, Calm, OneSet, Bound, Unstarted
<1>9. RunReads'
  BY <1>1, <1>4 DEF InputInv, RunReads, Orderly
<1> QED
  BY <1>5, <1>6, <1>8, <1>9 DEF InputInv

\* A run reads; no preparation and no file changes.
LEMMA ReadStep ==
  ASSUME InputInv, UNCHANGED <<inputFiles, inputPlan, prep, plans, raced>>,
         target' \in [uid : Nat, boot : Nat], using' \in Uses, gap \subseteq gap',
         RunReads'
  PROVE  InputInv'
<1>1. InputTypes'
  BY DEF InputInv, InputTypes, inputFiles
<1>2. Placed' /\ (~raced' => OneWriter')
  BY DEF InputInv, Placed, OneWriter, Writing, At, inputFiles
<1>3. (Orderly' => Orderly) /\ (Calm' => Calm) /\ (NoGap' <=> NoGap) /\ Source' = Source
  BY DEF Orderly, Calm, NoGap, Unmarked, At, Source, inputFiles
<1>4. WholeSets' /\ BoundSets'
  BY <1>3 DEF InputInv, WholeSets, BoundSets, OneSet, Bound
<1> QED
  BY <1>1, <1>2, <1>4 DEF InputInv

LEMMA EnterInv == ASSUME InputInv, Enter PROVE InputInv'
<1>1. UNCHANGED <<target, inputFiles, inputPlan, prep, plans, raced>> /\ marker = NoMarker
  BY DEF Enter, LiveGate
<1>2. gap \subseteq gap' /\ (Orderly' => \A p \in Preparers : ~Unmarked(p))
  BY DEF Enter, InGap, Orderly
<1>3. using' = [NoUse EXCEPT !.pc = "entered"]
  BY DEF Enter
<1>4. using' \in Uses /\ using'.pc = "entered"
  BY <1>3, AcceptedTyped DEF NoUse, Uses, InputSets
<1>5. RunReads'
  BY <1>1, <1>2, <1>4 DEF RunReads, NoGap, Unmarked, At, inputFiles
<1>6. target \in [uid : Nat, boot : Nat]
  BY DEF InputInv, InputTypes
<1> QED
  BY <1>1, <1>2, <1>4, <1>5, <1>6, ReadStep

LEMMA RunStepsInv == ASSUME InputInv, RunSteps PROVE InputInv'
<1>1. UNCHANGED <<target, inputFiles, inputPlan, prep, plans, raced, gap>>
  BY DEF RunSteps, LoadLabConfig, Reserve, LoadProfile, LeaveInputs
<1>2. /\ using \in Uses /\ lab \in LabFiles /\ profile \in ProfileFiles /\ drills \in DrillFiles
      /\ target \in [uid : Nat, boot : Nat]
  BY DEF InputInv, InputTypes
<1>3. NoUse \in Uses /\ NoUse.pc = "idle"
  BY AcceptedTyped DEF NoUse, Uses, InputSets
<1>4. (Orderly' <=> Orderly) /\ (NoGap' <=> NoGap)
  BY <1>1 DEF Orderly, NoGap, Unmarked, At, inputFiles
<1>5. CASE LoadLabConfig
  <2>1. using.pc = "entered" /\ using' = [using EXCEPT !.pc = "loaded", !.lab = lab]
    BY <1>5 DEF LoadLabConfig
  <2>2. /\ using' \in Uses /\ using'.pc = "loaded" /\ using'.lab = lab
        /\ using'.overlap = using.overlap
    BY <1>2, <2>1 DEF Uses
  <2>3. RunReads'
    BY <1>1, <1>4, <2>1, <2>2 DEF InputInv, RunReads, inputFiles
  <2> QED
    BY <1>1, <1>2, <2>2, <2>3, ReadStep
<1>6. CASE Reserve
  <2>1. using.pc = "loaded" /\ (using' = NoUse \/ using' = [using EXCEPT !.pc = "reserved"])
    BY <1>6 DEF Reserve
  <2>2. /\ using' \in Uses
        /\ \/ using'.pc = "idle"
           \/ /\ using'.pc = "reserved" /\ using'.lab = using.lab
              /\ using'.overlap = using.overlap
    BY <1>2, <1>3, <2>1 DEF Uses
  <2>3. RunReads'
    BY <1>1, <1>4, <2>1, <2>2 DEF InputInv, RunReads, inputFiles
  <2> QED
    BY <1>1, <1>2, <2>2, <2>3, ReadStep
<1>7. CASE LoadProfile
  <2>1. PICK d \in DrillFiles :
          using' = [using EXCEPT !.pc = "using", !.profile = profile, !.drills = d]
    BY <1>2, <1>7, AcceptedTyped DEF LoadProfile
  <2>2. /\ using' \in Uses /\ using'.pc = "using" /\ using'.profile = profile
        /\ using'.lab = using.lab /\ using'.overlap = using.overlap
    BY <1>2, <2>1 DEF Uses
  <2>3. using.pc = "reserved"
    BY <1>7 DEF LoadProfile
  <2>4. RunReads'
    BY <1>1, <1>4, <2>2, <2>3 DEF InputInv, RunReads, inputFiles
  <2> QED
    BY <1>1, <1>2, <2>2, <2>4, ReadStep
<1>8. CASE LeaveInputs
  BY <1>1, <1>2, <1>3, <1>8, ReadStep DEF LeaveInputs, RunReads
<1> QED
  BY <1>5, <1>6, <1>7, <1>8 DEF RunSteps

LEMMA OutsideInv == ASSUME InputInv, Reboot \/ Replace PROVE InputInv'
<1>1. UNCHANGED <<inputFiles, inputPlan, prep, using, plans, raced, gap>>
  BY DEF Reboot, Replace
<1>2. target' \in [uid : Nat, boot : Nat]
  BY InputUids DEF Reboot, Replace, InputInv, InputTypes
<1>3. using' \in Uses
  BY <1>1 DEF InputInv, InputTypes
<1>4. RunReads'
  BY <1>1 DEF InputInv, RunReads, Orderly, NoGap, Unmarked, At, inputFiles
<1> QED
  BY <1>1, <1>2, <1>3, <1>4, ReadStep

LEMMA PlanExpiresInv == ASSUME InputInv, PlanExpires PROVE InputInv'
<1>1. UNCHANGED <<target, inputFiles, prep, using, plans, raced, gap>> /\ inputPlan' = NoPlan
  BY DEF PlanExpires
<1>2. /\ NoPlan \in [src : InputSets, snap : DrillFiles, cand : InputSets, fresh : BOOLEAN]
      /\ NoPlan.cand = Accepted
  BY AcceptedTyped DEF NoPlan, DrillFiles
<1>3. InputTypes'
  BY <1>1, <1>2 DEF InputInv, InputTypes, inputFiles
<1>4. Placed' /\ (~raced' => OneWriter') /\ RunReads'
  BY <1>1 DEF InputInv, Placed, OneWriter, RunReads, Orderly, NoGap, Unmarked, Writing, At, inputFiles
<1>5. (Orderly' <=> Orderly) /\ (Calm' <=> Calm) /\ (NoGap' <=> NoGap) /\ Source' = Source
  BY <1>1 DEF Orderly, Calm, NoGap, Unmarked, At, Source, inputFiles
<1>6. WholeSets' /\ BoundSets'
  BY <1>1, <1>2, <1>5, AcceptedTyped DEF InputInv, WholeSets, BoundSets, OneSet, Bound
<1> QED
  BY <1>3, <1>4, <1>6 DEF InputInv

LEMMA InputNextInv == ASSUME InputInv, [InputNext]_inputVars PROVE InputInv'
<1>1. ASSUME NEW p \in Preparers, PrepSteps(p) PROVE InputInv'
  BY <1>1, SavePlanInv, InputsValidatedInv, GenerateInv, DropMarkerInv, MarkInv,
     WriteProfileInv, WriteDrillsInv, WriteLabInv, UnmarkInv DEF PrepSteps
<1>2. CASE UNCHANGED inputVars
  <2>1. UNCHANGED <<target, inputFiles, inputPlan, prep, using, plans, raced, gap>>
    BY <1>2 DEF inputVars, inputFiles
  <2>2. target' \in [uid : Nat, boot : Nat] /\ using' \in Uses
    BY <2>1 DEF InputInv, InputTypes
  <2>3. RunReads'
    BY <2>1 DEF InputInv, RunReads, Orderly, NoGap, Unmarked, At, inputFiles
  <2> QED
    BY <2>1, <2>2, <2>3, ReadStep
<1> QED
  BY <1>1, <1>2, StartInv, PrepKilledInv, EnterInv, RunStepsInv, OutsideInv, PlanExpiresInv
  DEF InputNext

\* A live run works with one accepted set of inputs, and with a consent given
\* for its appliance (prepare.mjs, launch.mjs), however many preparations race,
\* are killed or go on after a replacement, as far as InputsSafe says.
THEOREM InputsStaySafe == InputSpec => []InputsSafe
<1>1. InputInv => InputsSafe
  <2> SUFFICES ASSUME InputInv PROVE InputsSafe
    OBVIOUS
  <2>1. Orderly /\ using.pc = "using" /\ ~using.overlap =>
          using.lab = lab /\ using.profile = profile /\ NoGap
    BY DEF InputInv, RunReads
  <2>2. InputsWhole
    BY <2>1 DEF InputsWhole, PartialNeverRuns, InputInv, WholeSets, OneSet, Source, Orderly
  <2>3. ConsentBound
    BY <2>1 DEF ConsentBound, InputInv, BoundSets, Bound, Source, Orderly, Calm
  <2> QED
    BY <2>2, <2>3 DEF InputsSafe
<1> QED
  BY <1>1, InputInitInv, InputNextInv, PTL DEF InputSpec

=============================================================================

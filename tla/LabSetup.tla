------------------------------ MODULE LabSetup ------------------------------
(***************************************************************************)
(* A regression Job prepares its lab (kubernetes.mjs, setup.mjs): it       *)
(* raises its own account to Kubernetes administrator for one token, gives *)
(* the right back, bootstraps the lab with that token, adds a test key to  *)
(* the license trust store and stops the models in use.  Every one of      *)
(* these is journalled in a file before it is done, and the Job says in    *)
(* its status whether its account is still needed to undo something.       *)
(***************************************************************************)
EXTENDS Naturals

CONSTANTS
  Accounts,      \* one per regression run
  Admins,        \* the ones that are Kubernetes administrators anyway
  Models,        \* local models of the appliance
  SetupFaults,   \* bound: killed Jobs, failed and lost calls
  UserChanges    \* bound: changes administrators make meanwhile

ASSUME SetupAssumption ==
  /\ "none" \notin Accounts /\ Admins \subseteq Accounts
  /\ SetupFaults \in Nat /\ UserChanges \in Nat

VARIABLES
  level,         \* Kubernetes access level of each account
  exists,        \* accounts that have not been deleted
  grant,         \* .setup-access-restore.json: account and level to restore
  bootfile,      \* .setup-bootstrap.kubeconfig exists
  lease,         \* the lab lease: "idle", "held" by a live run, or "stale"
  trust,         \* keys of the license trust store
  trustPending,  \* .setup-license-trust-pending.json: the keys it started from
  model,         \* generation of each model, whether it runs, who stopped it
  stops,         \* .setup-model-stops.json: items and the ones done
  recorded,      \* stops that a receipt has recorded
  job,           \* the running Job: account, operation, step, what it has read
  required,      \* accounts whose last status says they are still needed
  setupFaults, userChanges

files == <<grant, bootfile, trustPending, stops>>
setupVars == <<level, exists, grant, bootfile, lease, trust, trustPending, model, stops,
               recorded, job, required, setupFaults, userChanges>>

NoGrant == [acc |-> "none", level |-> "none"]
NoStops == [items |-> {}, done |-> {}]
NoJob == [acc |-> "none", op |-> "none", pc |-> "off", then |-> "off",
          facts |-> "none", keys |-> {}, reviewed |-> {}]
NoPending == {"no file"}

SFault == setupFaults < SetupFaults /\ setupFaults' = setupFaults + 1
User == userChanges < UserChanges /\ userChanges' = userChanges + 1

SetupInit ==
  /\ level = [a \in Accounts |-> IF a \in Admins THEN "admin" ELSE "viewer"] /\ exists = Accounts
  /\ grant = NoGrant /\ bootfile = FALSE
  /\ lease \in {"idle", "held", "stale"}
  /\ trust = {"official"} /\ trustPending = NoPending
  /\ model = [m \in Models |-> [gen |-> 0, on |-> TRUE, by |-> "user"]]
  /\ stops = NoStops /\ recorded = {}
  /\ job = NoJob /\ required = {} /\ setupFaults = 0 /\ userChanges = 0

In(s) == job.pc = s
Then(s) == job' = [job EXCEPT !.pc = s]
\* A step that throws: the rest of the preparation is skipped.
Throws == Then("publish")

(***************************************************************************)
(* The Job and its first steps.                                            *)
(***************************************************************************)
\* The first status already says that the account is needed.
BeginJob(a, op) ==
  /\ In("off") /\ a \in exists
  /\ op = "recover" => lease = "stale" \/ a \in required
  /\ job' = [NoJob EXCEPT !.acc = a, !.op = op, !.pc = "inputs"]
  /\ required' = required \union {a}
  /\ UNCHANGED <<level, exists, files, lease, trust, model, recorded, setupFaults,
                 userChanges>>

\* A retained journal is restored first; a retained token is thrown away, but
\* not by a recovery.
Inputs ==
  /\ In("inputs")
  /\ IF grant # NoGrant
     THEN /\ job' = [job EXCEPT !.pc = "restore", !.then = "inputs"]
          /\ UNCHANGED bootfile
     ELSE Then("inspect") /\ bootfile' = (bootfile /\ job.op = "recover")
  /\ UNCHANGED <<level, exists, grant, lease, trust, trustPending, model, stops,
                 recorded, required, setupFaults, userChanges>>

\* The models that run, with the generation under review.
SuiteInventory == {<<m, model[m].gen>> : m \in {n \in Models : model[n].on}}

\* Only an account that is not administrator already is raised.
NeedsGrant == level[job.acc] # "admin"

\* Discovery: the account's level and the models that run.
SetupFacts ==
  /\ In("inspect")
  /\ job' = [job EXCEPT !.pc = IF NeedsGrant THEN "save" ELSE "token",
               !.then = "bootfile", !.facts = level[job.acc],
               !.reviewed = SuiteInventory]
  /\ UNCHANGED <<level, exists, files, lease, trust, model, recorded, required,
                 setupFaults, userChanges>>

(***************************************************************************)
(* withSetupAdmin: save, grant, use, restore.                              *)
(***************************************************************************)
\* Mutant: the right is granted first and recorded when it is there.
SaveGrantLate ==
  /\ In("save") /\ Then("grant")
  /\ level' = [level EXCEPT ![job.acc] = "admin"]
  /\ UNCHANGED <<exists, files, lease, trust, model, recorded, required, setupFaults,
                 userChanges>>

SaveGrant ==
  /\ In("save")
  /\ grant' = [acc |-> job.acc, level |-> job.facts] /\ Then("grant")
  /\ UNCHANGED <<level, exists, bootfile, lease, trust, trustPending, model, stops,
                 recorded, required, setupFaults, userChanges>>

\* The call may fail, or its answer may be lost; either way the level is given
\* back.
ChangeAccess ==
  /\ In("grant")
  /\ \/ /\ level' = [level EXCEPT ![job.acc] = "admin"] /\ Then("token")
        /\ UNCHANGED setupFaults
     \/ /\ SFault /\ level' \in {level, [level EXCEPT ![job.acc] = "admin"]}
        /\ job' = [job EXCEPT !.pc = "restore", !.then = "publish"]
  /\ UNCHANGED <<exists, files, lease, trust, model, recorded, required, userChanges>>

\* State, nonce, subject, audience, lifetime and group of the token.
ForThisLogin(token) == token = "own"

\* The OIDC login answers with the token of this login; any other is refused.
SetupOidcToken ==
  /\ In("token")
  /\ \E token \in {"own", "other"} :
       /\ IF ForThisLogin(token) THEN UNCHANGED setupFaults ELSE SFault
       /\ LET next == IF ForThisLogin(token) THEN job.then ELSE "publish" IN
          job' = [job EXCEPT !.pc = IF grant # NoGrant THEN "restore" ELSE next,
                             !.then = next]
  /\ UNCHANGED <<level, exists, files, lease, trust, model, recorded, required,
                 userChanges>>

\* Only the account of the journal, and only from the level it had or the one
\* it was given.
Restorable == job.acc = grant.acc /\ level[job.acc] \in {grant.level, "admin"}

RestoreAccess ==
  /\ In("restore")
  /\ \/ /\ ~Restorable /\ Throws /\ UNCHANGED <<level, setupFaults>>
     \/ /\ Restorable /\ Then("restored") /\ UNCHANGED setupFaults
        /\ level' = [level EXCEPT ![job.acc] = grant.level]
     \/ /\ Restorable /\ SFault /\ Throws
        /\ level' \in {level, [level EXCEPT ![job.acc] = grant.level]}
  /\ UNCHANGED <<exists, files, lease, trust, model, recorded, required, userChanges>>

\* The level is read again before the journal goes.
VerifyRestored ==
  /\ In("restored")
  /\ IF level[job.acc] = grant.level THEN grant' = NoGrant /\ Then(job.then)
     ELSE Throws /\ UNCHANGED grant
  /\ UNCHANGED <<level, exists, bootfile, lease, trust, trustPending, model, stops,
                 recorded, required, setupFaults, userChanges>>

(***************************************************************************)
(* Bootstrap of the registered lab with the token.                         *)
(***************************************************************************)
WriteBootFile ==
  /\ In("bootfile")
  /\ IF bootfile THEN Throws /\ UNCHANGED bootfile
     ELSE bootfile' = TRUE /\ Then("bootstrap")
  /\ UNCHANGED <<level, exists, grant, lease, trust, trustPending, model, stops,
                 recorded, required, setupFaults, userChanges>>

\* The token is removed however the bootstrap ends.
Bootstrapped(s) == job' = [job EXCEPT !.pc = "unboot", !.then = s]

\* A live holder is refused; a recovery needs exactly the reviewed stale lock.
ExactLock == lease = "stale" \/ (job.op = "tests" /\ lease = "idle")

BootstrapRegisteredLab ==
  /\ In("bootstrap")
  /\ \/ ExactLock /\ Then("recover") /\ UNCHANGED setupFaults
     \/ ~ExactLock /\ Bootstrapped("publish") /\ UNCHANGED setupFaults
     \/ SFault /\ Bootstrapped("publish")
  /\ UNCHANGED <<level, exists, files, lease, trust, model, recorded, required,
                 userChanges>>

\* The interrupted run is undone last, with the new scoped credentials.
RecoverLease ==
  /\ In("recover")
  /\ \/ /\ lease' = "idle" /\ UNCHANGED setupFaults
        /\ IF job.op = "recover" THEN Bootstrapped("publish") ELSE Then("trust")
     \/ /\ lease = "stale" /\ SFault /\ Bootstrapped("publish") /\ UNCHANGED lease
  /\ UNCHANGED <<level, exists, files, trust, model, recorded, required, userChanges>>

\* A pending key must be there already, or nothing may have changed since.
BootstrapTestLicenses ==
  /\ In("trust")
  /\ IF trustPending # NoPending /\ "test" \notin trust /\ trust # trustPending
     THEN Bootstrapped("publish") /\ UNCHANGED trustPending
     ELSE IF "test" \in trust THEN Then("trusted") /\ UNCHANGED trustPending
     ELSE trustPending' = trust /\ job' = [job EXCEPT !.pc = "patch", !.keys = trust]
  /\ UNCHANGED <<level, exists, grant, bootfile, lease, trust, model, stops, recorded,
                 required, setupFaults, userChanges>>

\* Mutant: the keys read before are written back whatever is there now.
TrustUnchangedNever == TRUE

TrustUnchanged == trust = job.keys

PatchTrust ==
  /\ In("patch")
  /\ \/ TrustUnchanged /\ trust' = job.keys \union {"test"} /\ Then("trusted")
     \/ ~TrustUnchanged /\ UNCHANGED trust /\ Bootstrapped("publish")
  /\ UNCHANGED <<level, exists, files, lease, model, recorded, required, setupFaults,
                 userChanges>>

VerifyTrust ==
  /\ In("trusted")
  /\ IF "test" \in trust THEN trustPending' = NoPending /\ Bootstrapped("actions")
     ELSE Bootstrapped("publish") /\ UNCHANGED trustPending
  /\ UNCHANGED <<level, exists, grant, bootfile, lease, trust, model, stops, recorded,
                 required, setupFaults, userChanges>>

RemoveBootFile ==
  /\ In("unboot") /\ bootfile' = FALSE /\ Then(job.then)
  /\ UNCHANGED <<level, exists, grant, lease, trust, trustPending, model, stops,
                 recorded, required, setupFaults, userChanges>>

(***************************************************************************)
(* Stopping the models in use.                                             *)
(***************************************************************************)
Gen(m) == model[m].gen

\* What an interrupted receipt turns out to have done.
Reconciled == {<<i[1], i[2] + 1>> : i \in {j \in stops.items : ~model[j[1]].on}}

Exact ==
  \A i \in stops.items :
    IF model[i[1]].on THEN i \notin stops.done /\ Gen(i[1]) = i[2]
    ELSE Gen(i[1]) = i[2] + 1

RecoverReviewedActions ==
  /\ In("actions")
  /\ IF Exact
     THEN /\ recorded' = recorded \union Reconciled /\ stops' = NoStops /\ Then("stops")
     ELSE Throws /\ UNCHANGED <<recorded, stops>>
  /\ UNCHANGED <<level, exists, grant, bootfile, lease, trust, trustPending, model,
                 required, setupFaults, userChanges>>

\* The receipt names every model before the first is stopped, under the lease.
OpenStops ==
  /\ In("stops")
  /\ IF job.reviewed = {} THEN Then("test") /\ UNCHANGED stops
     ELSE /\ lease = "idle" /\ Then("stopping")
          /\ stops' = [items |-> job.reviewed, done |-> {}]
  /\ UNCHANGED <<level, exists, grant, bootfile, lease, trust, trustPending, model,
                 recorded, required, setupFaults, userChanges>>

\* One model, checked against the review and stopped at its revision.
StopModel(m) ==
  /\ In("stopping")
  /\ \E i \in job.reviewed \ stops.done :
       /\ i[1] = m
       /\ IF Gen(m) = i[2]
          THEN /\ model' = [model EXCEPT ![m] = [gen |-> i[2] + 1, on |-> FALSE,
                                                 by |-> "setup"]]
               /\ job' = [job EXCEPT !.pc = "stopped", !.keys = {m}]
          ELSE Throws /\ UNCHANGED model
  /\ UNCHANGED <<level, exists, files, lease, trust, recorded, required, setupFaults,
                 userChanges>>

StopSeen ==
  /\ In("stopped") /\ job' = [job EXCEPT !.pc = "stopping", !.keys = {}]
  /\ stops' = [stops EXCEPT !.done = @ \union {i \in job.reviewed : i[1] \in job.keys}]
  /\ UNCHANGED <<level, exists, grant, bootfile, lease, trust, trustPending, model,
                 recorded, required, setupFaults, userChanges>>

CloseStops ==
  /\ In("stopping") /\ stops.done = job.reviewed /\ Then("test")
  /\ recorded' = recorded \union {<<i[1], i[2] + 1>> : i \in stops.done}
  /\ stops' = NoStops
  /\ UNCHANGED <<level, exists, grant, bootfile, lease, trust, trustPending, model,
                 required, setupFaults, userChanges>>

(***************************************************************************)
(* The tests and the published status.                                     *)
(***************************************************************************)
\* Live tests start with no journal left; their cleanup may fail.
RunTests ==
  /\ In("test") /\ grant = NoGrant /\ ~bootfile /\ stops = NoStops
  /\ trustPending = NoPending
  /\ Then("publish")
  /\ \/ UNCHANGED <<lease, setupFaults>>
     \/ SFault /\ lease' = "stale"
  /\ UNCHANGED <<level, exists, files, trust, model, recorded, required, userChanges>>

\* The account is still needed.
Retained == lease = "stale" \/ grant # NoGrant \/ bootfile

Publish ==
  /\ In("publish") /\ job' = NoJob
  /\ required' = IF Retained THEN required ELSE required \ {job.acc}
  /\ UNCHANGED <<level, exists, files, lease, trust, model, recorded, setupFaults,
                 userChanges>>

\* A killed Job publishes nothing any more; its children die with it.
JobKilled ==
  /\ ~In("off") /\ SFault /\ job' = NoJob
  /\ UNCHANGED <<level, exists, files, lease, trust, model, recorded, required,
                 userChanges>>

\* The operator deletes an account that is no longer needed, other than the
\* one the running Job uses.
DeleteAccount(a) ==
  /\ a \in exists \ required /\ job.acc # a /\ \E b \in exists : b # a
  /\ exists' = exists \ {a}
  /\ UNCHANGED <<level, files, lease, trust, model, recorded, job, required,
                 setupFaults, userChanges>>

(***************************************************************************)
(* Others who use the appliance.                                           *)
(***************************************************************************)
UserSetsLevel(a) ==
  /\ User /\ a \in exists /\ level' = [level EXCEPT ![a] = "operator"]
  /\ UNCHANGED <<exists, files, lease, trust, model, recorded, job, required,
                 setupFaults>>

UserEditsTrust ==
  /\ User /\ trust' \in {trust \union {"own"}, trust \ {"test"}}
  /\ UNCHANGED <<level, exists, files, lease, model, recorded, job, required,
                 setupFaults>>

UserSwitches(m) ==
  /\ User
  /\ model' = [model EXCEPT ![m] = [gen |-> @.gen + 1, on |-> ~@.on, by |-> "user"]]
  /\ UNCHANGED <<level, exists, files, lease, trust, recorded, job, required,
                 setupFaults>>

HolderEnds ==
  /\ lease = "held" /\ lease' \in {"idle", "stale"}
  /\ UNCHANGED <<level, exists, files, trust, model, recorded, job, required,
                 setupFaults, userChanges>>

JobSteps ==
  \/ Inputs \/ SetupFacts \/ SaveGrant \/ ChangeAccess \/ SetupOidcToken
  \/ RestoreAccess \/ VerifyRestored \/ WriteBootFile \/ BootstrapRegisteredLab
  \/ RecoverLease \/ BootstrapTestLicenses \/ PatchTrust \/ VerifyTrust
  \/ RemoveBootFile \/ RecoverReviewedActions \/ OpenStops
  \/ (\E m \in Models : StopModel(m)) \/ StopSeen \/ CloseStops \/ RunTests \/ Publish

SetupNext ==
  \/ \E a \in Accounts, op \in {"tests", "recover"} : BeginJob(a, op)
  \/ JobSteps \/ JobKilled \/ HolderEnds
  \/ \E a \in Accounts : DeleteAccount(a) \/ UserSetsLevel(a)
  \/ UserEditsTrust \/ \E m \in Models : UserSwitches(m)

\* A Job goes on, and an account that is still needed gets its recovery.
SetupFairness ==
  /\ WF_setupVars(JobSteps)
  /\ \A a \in Accounts : SF_setupVars(BeginJob(a, "recover"))

SetupSpec == SetupInit /\ [][SetupNext]_setupVars /\ SetupFairness

(***************************************************************************)
(* Properties.                                                             *)
(***************************************************************************)
\* Temporary rights are always on record: an account is raised to administrator
\* only while a durable journal names it and the account is there to restore it,
\* wherever a Job is killed and whatever the status said meanwhile.
NoStandingAdmin ==
  \A a \in Accounts \ Admins : level[a] = "admin" => grant.acc = a /\ a \in exists

\* Nobody else's key in the license trust store is lost to the test key.
TrustKept == [][trust \ {"test"} \subseteq trust']_setupVars

\* A model that setup has stopped, and nobody touched since, is on record: in
\* the open receipt or in one that was closed.
NoForgottenStop ==
  \A m \in Models : model[m].by = "setup" =>
    <<m, Gen(m)>> \in recorded \/ \E i \in stops.items : i[1] = m /\ i[2] + 1 = Gen(m)

\* A receipt never claims a stop that did not happen.
StopsTrue ==
  \A r \in recorded : Gen(r[1]) >= r[2] /\ (Gen(r[1]) = r[2] => ~model[r[1]].on)

\* What the setup has done to the appliance is on record wherever its Job was
\* killed: raised accounts and stopped models, no more and no less.
SetupOnRecord == NoStandingAdmin /\ NoForgottenStop /\ StopsTrue

AccessSettled(a) == grant.acc # a \/ level[a] \notin {grant.level, "admin"}

\* A journalled right is given back in the end, unless somebody else has set
\* another level meanwhile.
AccessRestored == \A a \in Accounts : []<>AccessSettled(a)

=============================================================================

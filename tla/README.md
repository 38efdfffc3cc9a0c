# A TLA+ model of the Magic Stick appliance

This directory holds TLA+ modules that model the parts of Magic Stick which
change a host or a cluster on an administrator's behalf, TLC configurations
that check them on small instances, and TLAPS proofs of what matters most.

## 1. The system

Magic Stick turns a computer into a local AI appliance: Ubuntu with K3s, a set
of GitOps-managed services, a dashboard, and a small root-owned worker on the
host that is the only part allowed to touch firmware, packages, network and
power.  The parts that keep state and have something to lose are:

| Component | State | Operations | Interacts with |
|---|---|---|---|
| Host worker (`host_worker.py`, `host_plan.py`, `gpu_memory.py`, `model_cache.py`) | `state.json` (`current`, `completed`), approval files | one timer tick: accept or reject the node's HostOperation, begin it, act, report, resume it after a crash or a boot | dashboard through the HostOperation resource; queued services through approval and status files; `maintenance.lock` |
| Dashboard host API (`dashboard-api.yaml`) | none of its own; the one HostOperation of a node | create (get, delete, post), confirm a network trial | host worker |
| Network trial (`network_apply.py`) | `network-trial.json`, Netplan files, `approved-network.json` | apply, wait for confirmation, restore, recover after a stop or at boot | host worker, dashboard confirmation, local administrators who edit Netplan |
| Ubuntu updates (`host_updates.py`) | `updates-status.json`, APT configuration, policy | requested and automatic runs, configure | host worker, the maintenance window |
| Software channel (`software_channel.py`) | `software-operation.json`, `software-blocked.json`, recovery snapshot, metadata | check, apply, rollback | converge runner, regression guard |
| Converge runner (`ai-appliance-converge`) | checkout, lock | scheduled pull and Ansible run | software channel, regression guard |
| Regression guard (`regression_guard.py`) | a Kubernetes Lease | acquire, renew, stop, release | converge runner, test runs, recoveries |
| Regression runs (`regression_api.py`, `regression_runs.py`) | RegressionRun resources, Jobs, one-time credentials | request, start, cancel, observe | guard, harness |
| Lab lease and sessions (`regression/core/lease.ts`, `runner-session.ts`, `automatic-recovery.ts`) | the same Lease, receipts and sessions in files | claim, heartbeat, reserve an outage, release, take over from a dead run | guard |
| Owned objects and borrowed settings (`journal.ts`, `owned-*.ts`, `borrowed-*.ts`, `license-*.ts`) | a journal and receipts in files, objects and settings of the appliance | create, clean up, borrow, restore, recover | product API, administrators |
| Inputs and setup of the lab (`prepare.mjs`, `setup.mjs`, `kubernetes.mjs`) | reviewed input files and their marker, a grant journal, stop receipts, the license trust store | plan, accept, regenerate; raise and lower an account, stop models, add a key | launcher, identity, operator |
| Launcher, reporter, supervisor (`launch.mjs`, `reporter.ts`, `process-supervisor.ts`) | evidence ledgers, reports, receipts, the recovery fence | run a step, kill it, judge it, run a campaign, recover between steps | all of the harness |
| Browser session of the live tests (`auth.ts`, `live-foundation.ts`) | the cookie of the browser, the subject bound to it, the writes a test expects | sign in, renew, route a request, guard a write | dashboard, identity provider, the lab's Lease |
| Baseline of a live run (`preflight.ts`, `preflight-diagnostic.ts`) | the first identity of each pin, the diagnostic of the first failure | read everything again until all pins are ready at once, give up, say why | Flux and the Deployments of the appliance |
| Host drills, GPU validation, GPU scenarios (`host-drill.ts`, `validation-workflow.ts`, `gpu-scenario.ts`) | a drill record, a network baseline, a series of observations | submit, replay, await, restore; watch a validation; configure, ask, stop and restore a model | host worker, device plugin, model controller |
| Terminal client and CLI (`apps/cli`) | a cached session, lists, dialogs | login, reload, confirm and perform; commands with a revision, a file or a consent | dashboard API |
| Dashboard web (`apps/web/src`) | polled queries, drafts, reviews, requests under way, the route | open, type, review, confirm, navigate | dashboard API |
| Service keys (`service_keys.py`) | Secrets with a current, a pending and an old key | rotate, promote, retire | gateways |
| Model catalog controller, operator controller | catalog ConfigMaps, KubeAI models, Appliance and module resources | reconcile loops | everything in the cluster |
| Private mesh (`core/magicstick_core/private_mesh`) | peers, transport | pair, relay | other appliances |
| Identity setup, licensing, federated SSO, instance access | Keycloak realm, licence and access records | setup job, API calls | dashboard |
| Tools, installer, infrastructure, Ansible roles | files | build, release, configure | |

### What is hard here

* **One lock, many writers.**  The worker's timer, the update, network and
  software services and the converge runner exclude each other only while a
  process holds `maintenance.lock`.  Between two ticks an operation lives in
  files and in a Kubernetes resource, and anybody may look or write.
* **A crash between any two writes.**  `state.json`, the status patch and the
  effect (a shutdown, a firmware write, a package installation) cannot be
  atomic.  The code writes first, acknowledges second and acts last, so that a
  crash leads to "interrupted" and never to a repetition.
* **Identity across boots.**  A consent is valid for one boot, a memory change
  spans up to three, a network trial must be undone by a boot service.
* **A client that races with itself and others**: get, delete and post are
  three calls on one named resource.
* **Deadlines without a network.**  The trial's rollback may not depend on the
  API server, the dashboard or the browser.
* **A source that moves.**  A branch or a tag may point elsewhere at every step
  between review and installation, and Ansible may stop between two roles.

* **A test laboratory that is the product.**  The regression harness creates,
  changes and restarts a real appliance that people use.  It may be killed
  anywhere, a later process must find out from files what is left, and every
  green result has to be worth something.
* **What was on screen is not what is there.**  Pages and dialogs show a poll,
  the user reads and agrees, and answers come late, twice, in another order or
  not at all.

### What makes each part correct

| Part | Properties |
|---|---|
| Host worker | no effect is repeated; nothing is done before it is acknowledged; nothing on another boot than the one consented to; a second restart only after an observed boot; closed operations stay closed; one active operation; every operation is answered |
| Network trial | the configuration changes as a whole or not at all, and only when confirmed; the network runs from its files; a published result is the recorded one; a kept configuration stays; every trial is resolved |
| Software channel, runner | the pause after a failed apply ends only when everything is at the reviewed commit; the recovery snapshot predates the failure; only reviewed commits are installed; a half-installed host is repaired |
| Lab lease, guard | one owner at a time; no write of an owner that was replaced; a holder can always be found from its receipt; the lab is free again in the end |
| Owned objects, borrowed settings | nothing foreign is removed, nothing of the run is forgotten, "clean" and "restored" are true, everything is settled in the end |
| Inputs and setup | a run reads one accepted set, made for this appliance; rights and stops are on record wherever a Job is killed; nobody's license key is lost |
| Launcher, campaign | passed means passed, green means clean, doubt means a fence; no live step behind an open fence; every run ends |
| Baseline | what is accepted was the same object all the time; a failure shows the first reason, whatever is read late |
| Drills, GPU tests | one disruption, recorded first and believed only for its own request; what is credited happened on the right card with the right configuration |
| Terminal, CLI, pages | what is done is what was agreed to on screen; nobody's change is overwritten unseen; nobody waits for ever |
| Service keys | a service always has a working key; a key without an owner is removed (not modelled) |

## 2. Modules

| Module | Models |
|---|---|
| `HostWorker` | the HostOperation, the dashboard's create call, the worker, the queued services as the worker sees them |
| `HostWorkerProofs` | theorems about it, and about the mixes of `MCWorkerMixes` |
| `NetworkTrial` | `network_apply.py`, write by write |
| `TrialCommit` | what a trial promises, in five actions |
| `NetworkTrialProofs` | theorems, and that `NetworkTrial` implements `TrialCommit` |
| `SoftwareChannel` | `software_channel.py` and `ai-appliance-converge` |
| `SoftwareChannelProofs` | theorems about it |
| `LabLease` | the Lease of the lab: test runs, recoveries and the host's convergence guard |
| `LabLeaseProofs` | theorems about it |
| `OwnedResources` | objects of a test run, their journal, teardown and recovery |
| `OwnedResourcesProofs` | a theorem about it |
| `BorrowedSettings` | the four kinds of setting a run borrows |
| `LabInputs`, `LabSetup` | the inputs of a run; rights, trust store and stops of the setup Job |
| `LabWorkProofs` | theorems about `LabSetup`, `BorrowedSettings` and `LabInputs` |
| `LeafRun`, `Campaign` | one supervised step with its evidence; phases, recovery steps and the fence |
| `HostDrill`, `GpuValidation`, `GpuScenario` | drills through restarts; observing a validation; a model on a card |
| `RunnerLogin` | the browser session of the live tests: sign-in, renewal, routing of writes, their guard |
| `DeploymentPins` | the baseline of a live run: attempts, checks, diagnostic, deadline |
| `RunnerProofs` | theorems about `RunnerLogin`, `Campaign`, `LeafRun`, `HostDrill`, `GpuValidation`, `GpuScenario` and `DeploymentPins` |
| `TerminalSession`, `CliCommands` | the terminal client; commands with several calls |
| `ModelEdit`, `ModelCreate` | the two forms of local models |
| `HostPages`, `AdminForms`, `DashboardRoutes` | the host pages; the other forms; which page is on screen |
| `ClientProofs` | theorems about the clients |
| `MCHostWorker`, `MCWorkerMixes`, `MCNetworkTrial`, `MCSoftwareChannel`, `MCLabLease` | instances of one module for TLC |
| `MCLabWork`, `MCRunner`, `MCClients` | one instance for several modules: the behaviours of each part, told apart by the constant variable `part` |

### HostWorker

The state is the files (`current`, `completed`, `approved`, `result`), the
resource (`op`, `posted`, `activation`, `nodeBoot`), the running host (`boot`,
`shutdown`, `queued`, `lock`, `late`) and the process (`w`).  `ran` is a history
variable: how often each operation had each effect.

A tick is split at every point where the process can die or somebody can look:
each write of `state.json`, each patch and each effect is a step.  `Update` is
`Worker.update`: it writes the state and leaves the tick at `patch`, from where
`PatchOk` goes on and `PatchError` raises, stored or not.  `Raise` is the except
clause of `reconcile` (or of `reconcile_memory`), which reports `Failed`.
`Accept`, `Reject` and the `Begin...` actions are the first half of `reconcile`,
`Reacknowledge` to `VerifyRegistration` the second, which resumes an operation
that an earlier tick began.  `DashGet`, `DashDelete` and `DashPost` are the three
calls of `create_host_operation`; a client is identified by its request identity.

The digest of a request, its plan and its payload never change once posted (the
CRD has the rule), so a request is its identity, action and boot, and
`ValidRequest` is the part of `validate_request` that depends on when it is
evaluated; everything else that can make a request invalid is a choice.  The
branch for a changed `nodeUid` (lines 483-485) cannot be reached with one node
and is left out.  A service is here only what the worker sees of it: it starts
under the lock if its guards hold (`MayRun`), and reports a result.

### NetworkTrial

A file is a number: none, the installation's, an administrator's, or the
configuration of the n-th trial.  `apply` is one action per write
(`SaveTrial`, `MarkChanged`, `WriteManaged`, `UnlinkOriginal`, `Generate`,
`Apply`, `AwaitConfirmation`, `Keep`), `restore` likewise.  `saved` is
`network-trial.json`, `mem` the dictionary in the process: they differ exactly
when a write failed, which is what the finding is about.  A killed service is
followed by `ExecStopPost` (`kind = "stop"`), a boot by the recovery service
(`kind = "boot"`), which restores and regenerates without applying.  A local
administrator may add a file during a trial, and edit files between trials;
editing a file of the backup during a trial is left out (the code would restore
the old content, as it says).  The 420 seconds after which the worker gives up a
trial are the action `WorkerReports`.  The Wi-Fi secret is data.

### SoftwareChannel

One process at a time holds the lock: `p` says whether it is an apply or check
(`run`), the recovery (`rollback`) or the timer's runner, and at which line.  A
selection is a branch, a tag (with its approved commit) or a commit; the
repository's branch and tag move at any time.  Checks of images, registry and
release records are steps that succeed or `Fail`.  The playbook is three steps,
in the order of its roles: the runner (`ansible-pull-timer`), the source of Flux
(`flux-bootstrap`), the host management files.  The snapshot is copied in place,
so it is `Torn` from the first file to the last; a torn copy cannot be run.

### The lab: LabLease, OwnedResources, BorrowedSettings, LabInputs, LabSetup

`LabLease` has a clock in ticks and requests that take up to `Latency`.  `proc`
is what a process believes (its step, whether it holds the Lease, how old its
last renewal is, a write under way), `lease` what the API server has, `receipt`,
`session` and `recovery` the files from which a later process judges.  A swap is
two steps, sent and answered, since the answer can be lost and the holder can
change in between.  `Stalls` lets a process sleep past its own expiry.

In `OwnedResources` `mem` and `disk` are the journal in memory and on disk, `wire`
the one request under way, `tail` what is left of an object after its deletion
(Pods, routes, a catalogue entry).  The kinds differ in what they can compare
(`Versioned`, `Deletable`), and cleanup is one loop over the journal for the
teardown and for a recovery, as in the code.  `lock` is the Lease, with its holder
and the run its annotation names: a later run overwrites the name and with it every way
to recover the earlier one.  `campaign` says that the run is a step of a campaign that
has its one attempt at a recovery left.  `BorrowedSettings` is one protocol
with four kinds; a receipt's states are grouped as its header says.

`LabInputs` reads and writes the input files one at a time; `gen` says which
acceptance a file came from, and `gap` the instants in which no marker says what the
files are, by how they came about: a plan begun by hand, a marker removed before the
next one is written.  `LabSetup` is a Job that writes each journal before
the call it is for; `recorded` and `required` are what its receipts say.

### The runner: LeafRun, Campaign, HostDrill, GpuValidation, GpuScenario, RunnerLogin, DeploymentPins

`LeafRun` has three processes: the launcher, the direct child and a worker that
may outlive it; `taken` is the judgement, made by the launcher or, if it died, by
its parent from the files.  `Campaign` has a coordinator for the whole, one for
each phase and one run at a time per step; `left` are the runs of which something
is left on the appliance.  `HostDrill` takes the shape of a case from `Cases` (six
shapes stand for the recipes), and the host carries out one operation at a time,
as `HostWorker` describes.  `GpuValidation` reads Pods, claims and slices one
after another while the cluster goes on.  `GpuScenario` waits for a view that is
read in one poll; status, Pods, route and backend follow the specification in
steps of their own.  `RunnerLogin` has callers, each with one write that passes the
routing (if a page makes it), the lease, the session and the lease again; a promise
that others await (`beat` of the guard, `pending` of the check) is the places `join`
and `wait`.  `shared` says whether calls that meet share one guard, as in
`live-foundation.ts`, or only the check of the session, as in `cpu-ollama.e2e.spec.ts`
and the recovery; that a write never goes out in the session of somebody else is
promised for the first.  The second contexts of license and actor tests, whose own
session the guard does not read, are left out.  In `DeploymentPins` pin 0 is the Flux
source, the others are Deployments; `poller` is the attempt and its place, `sample` what
it has read so far, `firstRead` what was read first of each pin.  The cluster changes
between any two reads, and the deadline races the attempt, which then goes on reading
without effect on the diagnostic.

### The clients: TerminalSession, CliCommands, ModelEdit, ModelCreate, HostPages, AdminForms, DashboardRoutes

State is what the process or the page keeps between two events; an action is a
key, a click, an answer, or a change by somebody else.  Effects of a React page
that follow a render are part of the action that causes it.  A value is a number
or a model value; a revision is a number.  `CliCommands` describes a command as
the sequence of its steps (`Plans`): options, consent, reads, writes, files.
`ModelEdit` keeps the settings that depend on each other (devices, deployment,
parallelism, host memory) and one that does not.  `HostPages` and `AdminForms`
have one page or form on screen; a record says in which way each differs from
the others.  An identity provider is validated beside its saves, and a save that breaks
off leaves it changed in part.  In `TerminalSession` a kubeconfig is copied without a
dialog, a license form that is submitted twice has two inspections under way, and a sign
out, once begun, goes on whatever dialog is shown by then.

## 3. Runs

| Run | Module, cfg | Shows |
|---|---|---|
| `worker_safety` | `MCWorkerMixes`, `Worker` | memory changes on three boots, three racing clients, queued updates, crashes at every write, lost state: `TypeOK`, `OneActiveUnlessLost`, `AtMostOnce`, `SecondRestartAfterBoot`, `AcknowledgedFirst`, `ConsentedBoot`, `NoRevival` |
| `trial_safety` | `MCNetworkTrial`, `Trial` | `AtomicChange` (the refinement), `RunningMatches`, `StatusTrue`, `KeptStays`, and `ResolvedUnlessRare` under fairness |
| `channel_safety` | `MCSoftwareChannel`, `Channel` | `ResumesReady`, `SnapshotKept`, `OnlyReviewed`, `PausedWhileBlocked`, and `Repaired` under fairness |
| `lab_lease` | `MCLabLease`, `Lab` | `ReceiptTrue`, `OneOwner`, `WriteOwned`, and `Recovered` under fairness |
| `lab_work` | `MCLabWork`, `LabWork` | `CleanupSafe`, `SettingsSafe`, `InputsSafe`, `SetupOnRecord`, `TrustKept`, and `LeftoversSettle` under fairness |
| `runner` | `MCRunner`, `Runner` | `StepTrue`, `VerdictTrue`, `DrillSafe`, `ReadingsTrue`, `FenceHolds`, `LoginGuarded`, and `RunEnds` under fairness |
| `clients` | `MCClients`, `Clients` | `ConsoleSafe`, `ModelFormsTrue`, `DoneAsReviewed`, `ScreenTrue`, `ChangesKept`, and `NobodyWaits` under fairness, the host worker included |

The properties of the last four runs are conjunctions of named parts, each stated
with its comment in the module it is about (`CleanupSafe`, for example, is
`ForeignKept`, `DurableIntent`, `VerifiedClean` and `LaterRunFindsClean` with the type
invariant).

Five runs state what a document, a comment or a message of the program says and
find a behaviour of the code against it:

| Run | Says | Happens |
|---|---|---|
| `network_replaced` | an active request cannot be replaced | the network service publishes its result before the worker has recorded it, a client replaces the resource, and the worker refuses everything from then on |
| `trial_disk_full` | "stopped before any configuration was changed" | the managed file is gone: the mark was only in memory |
| `channel_skipped` | "Host, Flux and dashboard are ready" | the runner was skipped because of a scheduled shutdown, and Flux alone was looked at; if the tag is moved then, nothing repairs the host |
| `model_cleared` | "Explicit null clears optional settings" | the API drops the cleared key from a merge patch, which keeps it; between one and two GPUs both ways to name devices remain and the CRD refuses the model |
| `trial_unconfirmable` | a trial is kept when the button is used within three minutes | after one confirmed trial the button stays disabled on a page that was left open |

Five more are stated next to the property that does hold, and are not run:
`HostReserved` (`LabLease`: a recovery can take over the host's reservation, since
a finished recovery leaves its marks on the Lease; if the guard was killed, its
command may still run then and when the next test run gets the Lease, so that
`HostHolds` is about a guard that lives), `PartialNeverRuns`
(`LabInputs`: the instants between removing a marker and writing one; `InputsWhole`
excludes all but that of a plan just begun), `EveryRunAttested` (`OwnedResources`: a run
that dies between giving the Lease back and its attestation is clean but not attested;
its campaign tries once, an administrator can ask for it, and once a later run has
overwritten the name on the Lease nobody can; `Settled` excludes that), `FenceRetained` (`Campaign`: a phase coordinator killed among
isolated steps takes the inherited fence with it, excluded from `FenceHolds`) and
`SignedOutStays` (`TerminalSession`: a renewal under way while the user signs out
writes the session again).

Others were seen in the models and have no property: a shutdown scheduled between
the worker's check and its own command is replaced (`host_worker.py` 155-160); a
status patch that was stored but reported as an error puts `Failed` over a
published `PreparedUnverified` (475); the history of 256 identities forgets, the
sooner since each re-acknowledgement appends one more (145, 481); a late license
inspection replaces whatever dialog is open (`tui.ts` 838); `settings set` and
several forms save without a revision (`commands.ts` 406, `SettingsPage` 77,
`HardwarePage` 60, `UsersPage` 47, `MeshPage` 29); a validated federation address
is the one typed when the answer comes (`FederatedSsoPage` 62); the memory page
does not know `RolledBack` as an end (`HostGpuMemory` 9).

**Bounds.**  Two operations are enough for everything about replacing, replaying
and forgetting; the race of two deletions takes three clients.  Three boots are
what a memory change needs, two for the rest.  `HistoryLimit` is 256 in the
code; one entry is what a second operation can meet.  Two trials and two boots let the
second trial replace the managed file of the first, with a reboot inside each.
Two commits are enough to move a branch and a tag; three requests are a check, a
failed apply and a retry.  Request identities are symmetric in the safety runs
(every definition treats them alike); runs with a liveness property use no symmetry.
In the lab two runs, two recoveries and two executions of the host are the fewest
in which a takeover can be taken over; a Lease of two ticks, an outage of three
and one of drain keep the order of the real durations.  Two objects of different
kinds, one borrowed setting, two preparations, two accounts and two models give
every pair of steps that can meet; the counters named `...Faults`, `Max...`,
`Meddling`, `...Edits`, `...Inputs` and `Reviews` bound kills, lost answers, other
people's changes and the user's own steps, at one to five each: what a property
needs to be violated by the mutants takes at most two of them.  In the instance
of `LabInputs` only one preparation is interactive.  In that of `GpuValidation`
`LateSharers` is `FALSE`: nobody takes the claim once the validation Pod is done (section 4
says what holds otherwise).  In that of `DeploymentPins` two Deployments are pinned: one
is read before the other, and both after the Pods and Flux; a second attempt is the
first that can differ from one before it, and one change of the cluster, next to a pin
that is not ready at first, falls between any two reads.  Three phases of a campaign
have a live step before and after an isolated one.  Deadlock is not checked where
the bounds end all behaviour.

**Several modules in one run.**  `MCLabWork`, `MCRunner` and `MCClients` extend
modules that do not meet.  `part` is chosen in the initial state and never
changes; all other parts stay in their initial state, so a behaviour of the run is
one of one module.  Their liveness property is a `CASE` on `part`, and a fairness
conjunct over several parts says of each behaviour what its module's own fairness
says.

**Fairness.**  *HostWorker*: the systemd timer fires again and a tick that is not
killed goes on (weak fairness of `Tick`, `Continue`); the API server answers, and
activating a profile succeeds, if tried again and again (strong fairness of
`PatchOk`, `EnableGpuProfile(FALSE, TRUE)`); the kubelet publishes the boot, time
passes, services start or refuse and finish.  While the driver is ready, phase
`Verifying` has no timeout in the code, so the second of these is needed.
*NetworkTrial*: the steps of the service end or raise, its recovery and the clock
go on, and nothing but the deadline or the resource has to end the waiting loop;
no faults (`Faults = {}`): a recovery that fails for ever resolves nothing, and
systemd does not repeat it.  *SoftwareChannel*: a process with the lock goes on until it
ends or a timeout of the code ends it; the 15-minute timer comes again, and no
step of its runs fails every time.  *LabLease*: time passes, requests are answered
or fail within their timeout, a recovery is tried again and, tried often enough,
releases.  *OwnedResources*, *BorrowedSettings*, *LabInputs*, *LabSetup*: a process
that is not killed goes on, the API serves what it was sent, controllers collect
what was deleted, and the recovery the code schedules before each run is started
again (for the grant journal with strong fairness, since another run may hold the
lab in between).  In *OwnedResources* that is the recovery of a Lease that has expired;
one that is free is taken up by the living campaign, once, and otherwise only where an
administrator asks for it, of which nothing is assumed.  *LeafRun*, *Campaign*, *HostDrill*, *GpuScenario*: launchers go on,
their timeouts fire, controllers reconcile; nothing is assumed of a test or of a
process that is being killed.  The clients: answers come or fail, polling goes on,
the host worker works; nothing is assumed of the user.

## 4. Proofs

TLAPS checks all proofs, for every value of the constants that satisfies the
assumptions of the modules.

**HostWorkerProofs.**  `TypeCorrect`, `Invariant`, `EffectsAtMostOnce`,
`ActsAfterAcknowledgement` and `ClosedStaysClosed`, for any requests, actions,
bounds and with lost state.  `AtMostOnce` is not inductive: it says nothing of why
a tick at `shutdown` has not shut down before.  `Inv` adds who a resource and an
approval belong to (`Identity`), that a tick's point fits its action (`Serial`),
what the status tells about the tick (`Acknowledged`: an operation with status
`Pending` has done nothing, and one past its first effect is no longer pending),
what has not happened yet at each point (`Counts`), and why a service does not run
an approval twice (`ServiceOnce`).  The proof has one step per action and, under
it, one per conjunct.

`FirstEffectOnConsentedBoot` and `RestartsAreSeen` (the properties `ConsentedBoot` and
`SecondRestartAfterBoot`) need two facts more, which say what `Inv` leaves open about
boots: what may have its first effect, at the worker or in a queued service, was asked
for on this boot (`OnConsentedBoot`), and a memory change that goes on after a restart
has recorded a later boot than the one it was asked for on (`RestartSeen`).
`OnlyTrialsAreReplaced` and `ActiveIsNotReplaced` are about `create_host_operation`: if
state.json is never lost (`StateLoss = FALSE`; with it every active operation can be
replaced), an operation that the worker calls active keeps its resource, unless it is a
network change, whose trial can publish its end first: the one case that
`network_replaced` shows.

`MixesReplaceNothingActive` is what `worker_safety` checks (`OneActiveUnlessLost`), for
the same three mixes of operations and any number of requests, operations and boots.
`MixInv` adds to `Inv` that only the mix's own action was ever asked for (`Asked`,
`Created`), so that the operation whose resource is gone cannot be a network change.
`MixesAreBehaviours` takes all theorems of this module to the run.

**NetworkTrialProofs.**  `TrialInvariant`, `TrialIsAtomic`, `RunningIsConfigured`
and `StatusIsTrue`, for a disk whose writes do not fail (`"disk" \notin Faults`;
with it, `trial_disk_full` shows the contrary), any number of files, trials,
boots, kills and failing recoveries.  `Restorable` is the core: as long as the
record says that nothing was changed, the files are the backup.  `TrialIsAtomic`
is the refinement: through the mapping `Surviving` (the backup while a changed
trial is unresolved, else the files) every step is a step of `TrialCommit` or
leaves it alone; the two interesting ones are `MarkChanged`, which must not
change `Surviving` although it switches its definition, and `Keep`.

`KeptIsKept` (`KeptStays`) holds on a disk that fails too.  Its invariant,
`WritesUnresolved`, is a separate one: files are written only under a record that is
not resolved, and where the record in memory is ahead of the one on disk, the process
will not restore.

**LabLeaseProofs.**  `HolderHasReceipt`, `LabHasOneOwner` and `WritesAreOwned` (and
`LabTypes`), for any test runs, recoveries and host executions, any number of
faults, and any durations in which a request is over before the drain is
(`Latency <= Drain`; the cluster requests of the harness and of the guard time out
after 15 to 25 seconds, and a takeover waits for 60).  None of the three is inductive.  `LabInv` says of every
owner how its private state relates to the Lease (`Sound`): a claim that can still
succeed was computed from a vacant Lease, a swap that can still succeed is the
holder's, a product request under way is younger than what is left of the
reservation, an owner that trusts its clock is the holder and at most one request
behind the Lease.  The argument has three parts.  An owner that does not hold the
Lease, or only on paper, is not disturbed by any change of it (`OthersSound`); so a
step has to be sound for the one who takes it only (`LocalStep`, `LeaseStep`); and
the clock ages both sides alike (`TickSound`).  The receipts need one more fact: a
run asks for the Lease once, so that a closed receipt is never needed again.

**SoftwareChannelProofs.**  `ChannelTypes`, `SnapshotIsKept`, `OnlyReviewedIsInstalled`,
`BlockedPauses` and `UnskippedResumesReady`, for any number of commits and requests,
kills, failures and moving branches and tags.  `ChannelInv` says where a process of
each kind can be (`Placed`), that the marker is there exactly while it has to be
(`Marked`), that the snapshot of an apply grows part by part before the marker is set
(`Saved`) and that the playbook installs the commit that was accepted (`Converging`).
`UnskippedResumesReady` has the hypothesis `[]Unskipped`, that no scheduled shutdown
makes the runner skip an apply; `channel_skipped` shows why it is needed.

**OwnedResourcesProofs.**  `CleanupIsSafe`: for any scenario, any kills, lost answers,
failed journal writes and administrators who edit and replace objects, no foreign
object is removed, whatever exists is in the journal on disk, an attested cleanup is one,
and another run gets the appliance only when nothing of this one is left (`Ceded`).  The core of `OwnedInv` is `Covers`: the journal on disk has an open entry for
what exists and for what the request under way may still create; the one in memory
has it while a process is at work.

**LabWorkProofs.**  `SetupStaysOnRecord` and `TrustStaysKept`, for any accounts,
models, killed Jobs and changes by administrators.  `SetupInv` says that an account is
raised only once its level is journalled (`Journalled`), that an account with a Job or
a journal is not deleted (`Needed`), and what the receipt of the stops says as far as
the Job has got (`Receipted`); the rest is the property itself.

`BorrowedSafe`, for any number of changes, edits and faults.  `BorrowInv` says that what
a process or a receipt has read is an earlier setting, told apart by its generation
(`Earlier`), where the write in flight can be and that a compared one does not meet an
administrator's content (`WriteHeld`), and that the one loss that can happen shows in the
generation (`LossShows`).  The proof needed a hypothesis that the run does not show: for
a license, no write is served after its client gave up (`LateLicense = FALSE`, as in the
run); with it `RestoredTrue` fails, since the answer that was awaited is the only thing
such a restoration is recorded on.

`InputsStaySafe`, for any preparations that race, are killed and go on elsewhere.
`InputInv` has four parts: one preparation writes at a time, under its own marker, unless
a marker was taken from a live one (`OneWriter`); every candidate is of one acceptance,
and so are the files while nobody writes them (`WholeSets`); they are of this appliance
(`BoundSets`); and a run that no acceptance overlapped has the files as they are
(`RunReads`).

**RunnerProofs.**  `LoginStaysGuarded`, for any number of callers, expired sessions and
changed accounts.  That a write goes out in the verified session needs more than the
check: no other caller may renew the session between the check and the write.
`LoginInv` says who checks and who guards (`OneCheck`, `OneGuard`: at most one, and
under the shared guard whoever comes joins it), what is known meanwhile (`SessionKept`),
that the routing knows of a page that signs in (`SigningKnown`) and that who waits is
accompanied (`Accompanied`).  Steps come in four kinds with a lemma each: a request,
progress of a guard, its end, and steps that move no call.

`VerdictStaysTrue` and `FenceAlwaysHolds`, for any phases, steps, killed processes,
failed cleanups and lost receipts.  `CampaignInv` relates the coordinators to the files
they leave: where each may be (`Positions`, `Files`), that phases and steps are taken in
order (`RunsInOrder`), what a step that ended has left behind and who knows of it
(`Evident`, `Fenced`), and that a row, a green end and a named cause are true
(`RowsTrue`, `Greens`, `Causes`).  That the cause of a refused step is a failed run, and
not a chain of refusals, takes a minimum: of the runs that failed, one was the first.

`StepStaysTrue`, for any tests and whatever dies, hangs or is interrupted.  `LeafInv`
follows a passed test through every place it is kept in (`AllHold`: the reporter's
memory, its ledger, the summary, the judgement), says what can be seen of processes
(`Seen`) and what the launcher has judged (`Judged`).

`DrillStaysSafe`, for any cases, faults and restarts of the host.  Its four parts are
conclusions of one invariant, `DrillInv`, of which two conjuncts carry the argument:
`FileNames`, that the request the host knows of this run is the one in its file, before
it is sent and under the id the browser made, and `ServedOnce`, that a request once
started is started no more.  `Credited` takes what the drill has seen to what the host
did, `NetworkKept` says that a drill of the kept network is only called clean with the
saved configuration in place and no operation left that could change it, and
`RaceKnown` that a cleanup running beside the wanted model was seen to.  Most steps
change nothing but the place of the drill and share one lemma (`QuietSafe`).

`ReadingsStayTrue`, for any faults, polls, edits, pins and attempts, is what three
observers make of reads that are no view of one instant.  `ValidationInv` follows one Pod
through reads that are true one after another and perhaps never together: what each read
still means (`ViewOk`), and what the engine can have run on once its claim was seen
allocated (`Proven`); `Undisturbed` says that without a fault the reads can disagree in
one way only, by an engine that was too quick.  `ScenarioInv` says what of the reads of
a poll is still so (`ReadsOk`): a single runtime of the saved configuration stays the
only one while the model is on (`OnlyRuntime`), and one that is gone does not come back
while it is off.  `PinsInv` says for the baseline that a pin which passed its check is the
one that was read first (`ChecksKnown`, `IdentitiesKept`), that a pin seen otherwise than
it should be ends the attempts (`StrangeEnds`), which failure the diagnostic keeps
(`FailureKept`) and that events and logs are awaited only while somebody collects them
(`AwaitedNow`).  The identity a later attempt compares with is remembered at the check and
not at the read: what `OfAttempt` says is why nothing is lost in between.  The theorem has the hypothesis `LateSharers = FALSE`, as in the run: no
other workload takes the claim after the validation Pod is done.  Without it
`ValidationTrue` fails, if the allocator gave the Pod a wrong card and the later
workload the right one: while the claim is allocated `nvidiaValidationBinding` compares
its device with the inventory and not whom it is reserved for; `reservedFor` is read only
where an earlier proof is reused.

**ClientProofs.**  `ConsoleStaysSafe`, `ReviewedIsDone`, `ChangesStayKept`,
`ScreenStaysTrue` and `ModelFormsStayTrue`, for any number of reviews, requests, lost answers, expired sessions
and changes by others.  Each client has an invariant of its own; `OneClient` says that
a step is a step of one of them and leaves the others' variables alone, so that they
hold side by side (`ClientsInv`).

- `CommandInv`: in each plan of a command every option is looked for before the first
  write (`OptionsFirst`, a lemma about the plans), and a write goes out with the revision
  that was seen; so a usage error has written nothing, and of two commands one fails.
- `TerminalInv`: an operation holds the screen from the key that began it until its
  reload is over, and what it was begun with is what the dialog showed.
- `PagesInv`: a review is of the form on screen and of what that shows, a request names
  what its review showed, and a number used by the requests of one review is used by no
  other (`OnlyRequest`), so that the host's check of `requestId` recognises it.
- `FormsInv`: every copy of the saved settings, on screen, in a form, in a poll under way
  or in an answer, is not ahead of them and equal to them if its revision is (`Known`);
  a request that names a revision was made for that revision's value; a review is of the
  draft; and the license form waits for one answer at most (`LicenseOk`).
- `EditInv`: the revision that was opened is not ahead of the stored one, and if it is
  the stored one the settings opened are the stored settings.
- `DraftsInv`: what is sent are the changes between the draft that was opened and the one
  on screen.  That the stored settings then give what the draft asks for is a chain of
  lemmas about `LocalModelChanges` and `PatchModelConfiguration`, key by key; the GPU keys
  are decided together, since naming one of them clears the others.
- `CreateInv`: an estimate under way is of the draft on screen, or its answer is dropped,
  and until one is to come the figures shown are the draft's (`EstimatesOk`); a task was
  detected for the reference that is shown, or chosen (`TasksOk`); and the counters of
  searches do not fall behind, so that a late answer is known as one (`DiscShape`) and the
  lists are those of the last query (`ListsOk`).
- `RoutesInv`: the route is its own correction for the session (`ShownRoute`) and the
  address leads back to it (`RoundTrip`); any path leads to a page there is
  (`LinksLead`), so the theorem is not about the links TLC tries only.

**Assumptions.**  `BoundsAssumption`, `ActionsAssumption`, `TrialAssumption`,
`ChannelAssumption`, `LabAssumption`, `OwnedAssumption`, `SetupAssumption`,
`LoginAssumption`, `InputUids`, `PhasesAssumption`, `DrillAssumption`,
`ValidationAssumption`, `PinsAssumption` and `FoundAssumption` say what kind of value each
constant is, and the relation of durations above; TLC evaluates them in every run of the
module.

**Only model-checked**: all liveness properties (`NobodyWaits`, `ResolvedUnlessRare`,
`Repaired`, `Recovered`, `LeftoversSettle`, `RunEnds`), since liveness under fairness is
outside the prover's reach.  Every safety property of a run that passes is the conclusion
of a theorem, under the hypotheses named above.

## 5. What could follow

Model the automatic run of `host_updates.py`, the objects of `regression_runs.py` and the
keys of `service_keys.py`, and compose the users of `maintenance.lock`.

## 6. Not modelled

The operator's and the catalog's reconcile loops, the remaining dashboard routes,
identity, licensing, sharing and the private mesh are request handlers and
renderers whose difficulty is in their data; the Ansible roles, the installer and
the tools are configuration.  Of the user interfaces, rendering, layout, wording
and pages that only show what they poll are left out, of the harness the single
test cases, the fixtures and the text of reports; `packages/contracts` declares
types.  The automatic run of Ubuntu updates, the RegressionRun objects and the
service keys have state worth a module and none yet.

Inside the modules, five things are coarser than the code.  `LeafRun` has one row of
evidence per test; the reporter writes one per mapped case and one per annotated step,
and a step that passed keeps its row when its test fails later (`reporter.ts` 262-296).
`HostDrill` has no case for the five conflicting requests of HOST-05, which are sent
after one look at the host and have no file (`host-drill.ts` 216-224).  In
`DeploymentPins` a Flux pin that fails collects no logs; the code reads those of the
kustomize controller, without a check of its identity (`preflight-capture.ts` 75-79).
In `ModelEdit` the stored `vram` and `vramMi` are one key, and a draft is opened from the
specification without the fallbacks to the status.  In `AdminForms` the revision of an
identity provider covers its value, which stands for the fields that are shown: the
client secret is not among them, neither here nor in the hash of `federated_sso.py`
(103-121), so that `DoneAsReviewed` says nothing of a secret somebody else replaces; and
a value that is changed and changed back, which has its old hash, does not occur.

`PROJECT.json` lists each part with its reason, and the hazards with the properties that
cover them.

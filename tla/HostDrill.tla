----------------------------- MODULE HostDrill -----------------------------
(***************************************************************************)
(* One disruptive host operation exercised on the real appliance           *)
(* (core/host-drill.ts): a reviewed plan of this boot becomes one request, *)
(* recorded before it is sent, followed through the outage it causes and   *)
(* credited only from independent observations.  An expected outage is not *)
(* an error, a lost answer is, and nothing is sent twice.                  *)
(*                                                                         *)
(* The drill runs against a host that other administrators use, that may   *)
(* restart by itself, and that answers late or never.                      *)
(***************************************************************************)
EXTENDS Integers, FiniteSets

CONSTANTS
  DrillCases,  \* the cases that are run: a subset of DOMAIN Cases
  DrillFaults, \* how many faults may happen
  DrillBoots   \* how often the host may boot

VARIABLES
  node,        \* the host: boot, up (its API answers), fresh (its report is of this boot)
  op,          \* the HostOperation object of the host
  net,         \* the network configuration the host has saved
  loader,      \* the competing model of the cache race
  drill,       \* the run: pc, the case, the planned boot, the boots it saw
  file,        \* host-drill-<case>.json
  baseline,    \* network-baseline-restore.json, or channel-preview-<case>.json
  pin,         \* the boot of post-drill-lab.json
  owned,       \* the run holds the lab lease
  served,      \* history: how each request ended, and the boots it took
  starts,      \* history: how often a request of the drill was started
  raced,       \* history: the model was wanted while the cache was being cleared
  drillFaults

drillVars == <<node, op, net, loader, drill, file, baseline, pin, owned, served,
               starts, raced, drillFaults>>
hostVars == <<node, op, net, served, starts>>
runVars == <<drill, file, baseline, pin, owned>>

(***************************************************************************)
(* ui: submitted in the browser, which makes its own request id.           *)
(***************************************************************************)
Case(ui, kind, boots, terminal) == [ui |-> ui, kind |-> kind, boots |-> boots, terminal |-> terminal]

Cases == [
  reboot  |-> Case(FALSE, "power", 1, "Succeeded"),    \* BOOT-02, -03, -04
  memory  |-> Case(TRUE, "power", 1, "Succeeded"),     \* GPUHOST-05
  prepare |-> Case(FALSE, "power", 1, "Succeeded"),    \* HOST-04: sent again on purpose
  keep    |-> Case(TRUE, "trial", 0, "Succeeded"),     \* NET-05
  lapse   |-> Case(FALSE, "trial", 0, "RolledBack"),   \* NET-06
  console |-> Case(FALSE, "trial", 1, "RolledBack"),   \* NET-07
  channel |-> Case(TRUE, "channel", 0, "Succeeded"),   \* CHANNEL-06
  race    |-> Case(FALSE, "cache", 0, "Succeeded")]    \* CACHE-06

ASSUME DrillAssumption == DrillCases \subseteq DOMAIN Cases

\* Request ids: the planned one, the browser's, two restorations, another
\* user's, the check of the software channel.
Planned == 1
Browser == 2
Restorations == {3, 4}
Other == 5
Preview == 6
Requests == {Planned, Browser, Other, Preview} \cup Restorations

Ended == {"Succeeded", "Failed", "RolledBack", "Rejected"}
NoOperation == [uid |-> 0, req |-> 0, kind |-> "none", phase |-> "none", boot |-> 0]
NoFile == [state |-> "none", req |-> 0, uid |-> 0]
NotServed == [phase |-> "none", boots |-> 0]
My == Cases[drill.case]

DrillInit ==
  /\ node = [boot |-> 0, up |-> TRUE, fresh |-> TRUE] /\ op = NoOperation
  /\ net = "base" /\ loader = "none"
  /\ \E c \in DrillCases :
       drill = [pc |-> CASE c = "race" -> "seed" [] c = "channel" -> "preview" [] OTHER -> "plan", case |-> c, plan |-> 0, seen |-> {}, at |-> 0,
                sent |-> Planned, back |-> "none", clean |-> FALSE]
  /\ file = NoFile /\ baseline = NoFile /\ pin = -1 /\ owned = TRUE
  /\ served = [r \in Requests |-> NotServed] /\ starts = [r \in Requests |-> 0]
  /\ raced = FALSE /\ drillFaults = 0

At(s) == drill.pc = s
Go(s) == drill' = [drill EXCEPT !.pc = s]
DFault == drillFaults < DrillFaults /\ drillFaults' = drillFaults + 1

(***************************************************************************)
(* The host (external): one operation at a time, one object per host.      *)
(***************************************************************************)
NothingRuns == op.uid = 0 \/ op.phase \in Ended
\* What the API makes of a request: the same one again changes nothing.
Accepts(r, boot) == op.req = r \/ (NothingRuns /\ boot = node.boot)
Posted(r, kind, boot) ==
  IF op.req = r THEN op
  ELSE [uid |-> op.uid + 1, req |-> r, kind |-> kind, phase |-> "Pending", boot |-> boot]

Serve(phase) ==
  /\ op' = [op EXCEPT !.phase = phase]
  /\ served' = [served EXCEPT ![op.req] = [phase |-> phase, boots |-> node.boot - op.boot]]

\* Every request is carried out at most once.
WorkerStart ==
  /\ node.up /\ node.fresh /\ op.uid # 0 /\ op.phase = "Pending"
  /\ IF starts[op.req] > 0 \/ op.boot # node.boot
     THEN op' = [op EXCEPT !.phase = "Rejected"] /\ UNCHANGED <<starts, raced>>
     ELSE /\ op' = [op EXCEPT !.phase = IF op.kind = "trial" THEN "AwaitingConfirmation" ELSE "Running"]
          /\ starts' = [starts EXCEPT ![op.req] = @ + 1]
          /\ raced' = (raced \/ (op.kind = "cache" /\ loader # "none"))
  /\ UNCHANGED <<node, net, loader, runVars, served, drillFaults>>

WorkerReboots ==
  /\ node.up /\ op.kind = "power" /\ op.phase = "Running" /\ node.boot = op.boot
  /\ node' = [boot |-> node.boot + 1, up |-> FALSE, fresh |-> FALSE]
  /\ UNCHANGED <<op, net, loader, runVars, served, starts, raced, drillFaults>>

NodeUp ==
  /\ ~node.up /\ node' = [node EXCEPT !.up = TRUE]
  /\ UNCHANGED <<op, net, loader, runVars, served, starts, raced, drillFaults>>

WorkerReports ==
  /\ node.up /\ ~node.fresh /\ node' = [node EXCEPT !.fresh = TRUE]
  /\ UNCHANGED <<op, net, loader, runVars, served, starts, raced, drillFaults>>

\* A trial ends by its timer or by the restart it did not survive.
WorkerFinishes ==
  /\ node.up /\ node.fresh
  /\ \/ /\ op.kind = "power" /\ op.phase = "Running" /\ node.boot # op.boot
        /\ Serve("Succeeded") /\ UNCHANGED <<net, loader, drillFaults>>
     \/ /\ op.phase = "AwaitingConfirmation"
        /\ Serve("RolledBack") /\ UNCHANGED <<net, loader, drillFaults>>
     \/ /\ op.phase = "Confirmed" /\ Serve("Succeeded")
        /\ net' = IF op.req \in Restorations THEN "base" ELSE "lab"
        /\ UNCHANGED <<loader, drillFaults>>
     \/ /\ op.kind = "cache" /\ op.phase = "Running"
        /\ Serve(IF loader = "none" THEN "Succeeded" ELSE "Failed")
        /\ UNCHANGED <<net, loader, drillFaults>>
     \/ /\ op.kind \in {"preview", "channel"} /\ op.phase = "Running"
        /\ Serve("Succeeded") /\ UNCHANGED <<net, loader, drillFaults>>
     \/ /\ op.phase = "Running" /\ DFault /\ Serve("Failed") /\ UNCHANGED <<net, loader>>
  /\ UNCHANGED <<node, runVars, starts, raced>>

\* The host restarts by itself, or at its console.
HostRestarts ==
  /\ node.boot < DrillBoots
  /\ \/ At("console") /\ UNCHANGED drillFaults
     \/ DFault
  /\ node' = [boot |-> node.boot + 1, up |-> FALSE, fresh |-> FALSE]
  /\ UNCHANGED <<op, net, loader, runVars, served, starts, raced>>

\* Another administrator's operation, done at once.
UserOperates ==
  /\ node.up /\ NothingRuns /\ DFault
  /\ op' = [uid |-> op.uid + 1, req |-> Other, kind |-> "local", phase |-> "Succeeded", boot |-> node.boot]
  /\ UNCHANGED <<node, net, loader, runVars, served, starts, raced>>

LeaseLost == owned /\ DFault /\ owned' = FALSE
             /\ UNCHANGED <<hostVars, loader, drill, file, baseline, pin, raced>>

(***************************************************************************)
(* The drill.  A step that throws leads to the teardown, which runs the    *)
(* registered restoration; a killed run leaves its files.                  *)
(***************************************************************************)
Throw == drill' = [drill EXCEPT !.pc = IF drill.case = "keep" /\ drill.back # "none"
                                       THEN "baseline" ELSE "ended",
                                !.back = IF drill.back = "inline" THEN "registered" ELSE drill.back,
                                !.clean = ~(drill.case = "keep" /\ drill.back # "none")]

\* The physical identity and the boot that was verified before (boot 0).
KnownBoot == node.up /\ node.fresh /\ node.boot = 0

\* The cache is filled through an owned model, which is removed again.
PrepareCacheFixture ==
  /\ At("seed") /\ IF KnownBoot /\ owned THEN Go("plan") ELSE Throw
  /\ UNCHANGED <<hostVars, loader, file, baseline, pin, owned, raced, drillFaults>>

\* The product's own preview, recorded before it is asked for.
RecordPreview ==
  /\ At("preview")
  /\ IF KnownBoot THEN /\ Go("ask")
                       /\ baseline' = [state |-> "requested", req |-> Preview, uid |-> 0]
     ELSE Throw /\ UNCHANGED baseline
  /\ UNCHANGED <<hostVars, loader, file, pin, owned, raced, drillFaults>>

CheckChannel ==
  /\ At("ask")
  /\ \/ /\ owned /\ node.up /\ Accepts(Preview, 0) /\ op' = Posted(Preview, "preview", 0)
        /\ \/ Go("checked") /\ UNCHANGED drillFaults
           \/ Throw /\ DFault
     \/ ~(owned /\ node.up /\ Accepts(Preview, 0)) /\ Throw /\ UNCHANGED <<op, drillFaults>>
  /\ UNCHANGED <<node, net, loader, file, baseline, pin, owned, served, starts, raced>>

AwaitPreview ==
  /\ At("checked") /\ node.up
  /\ \/ owned /\ op.req = Preview /\ op.phase = "Succeeded" /\ Go("plan")
     \/ (~owned \/ op.req # Preview \/ op.phase \in Ended \ {"Succeeded"}) /\ Throw
  /\ UNCHANGED <<hostVars, loader, file, baseline, pin, owned, raced, drillFaults>>

ParseHostDrill ==
  /\ At("plan")
  /\ \/ /\ KnownBoot
        /\ drill' = [drill EXCEPT !.pc = "reserve", !.plan = node.boot,
                       !.back = IF drill.case = "keep" THEN "registered" ELSE "none"]
     \/ Throw
  /\ UNCHANGED <<hostVars, loader, file, baseline, pin, owned, raced, drillFaults>>

\* The offline window of the lease, then the request on disk.
PersistRequest ==
  /\ At("reserve")
  /\ \/ /\ owned /\ file' = [state |-> "requested", req |-> Planned, uid |-> 0]
        /\ Go(IF My.ui THEN "browser" ELSE "send")
     \/ ~owned /\ Throw /\ UNCHANGED file
  /\ UNCHANGED <<hostVars, loader, baseline, pin, owned, raced, drillFaults>>

\* Mutant: the browser's request is sent under the id that was planned.
SubmitUnrecorded ==
  /\ At("browser") /\ drill' = [drill EXCEPT !.pc = "send", !.sent = Browser]
  /\ UNCHANGED <<hostVars, loader, file, baseline, pin, owned, raced, drillFaults>>

\* The id the browser made is recorded before the sole write goes on.
SubmitThroughUi ==
  /\ At("browser")
  /\ file' = [file EXCEPT !.req = Browser]
  /\ drill' = [drill EXCEPT !.pc = "send", !.sent = Browser]
  /\ UNCHANGED <<hostVars, loader, baseline, pin, owned, raced, drillFaults>>

\* The one write: a timeout cannot be retried.
Post ==
  /\ At("send")
  /\ \/ ~owned /\ Throw /\ UNCHANGED <<op, drillFaults>>
     \/ /\ owned /\ node.up /\ Accepts(drill.sent, drill.plan)
        /\ op' = Posted(drill.sent, My.kind, drill.plan)
        /\ \/ Go(IF drill.case = "race" THEN "compete" ELSE "observe") /\ UNCHANGED drillFaults
           \/ Throw /\ DFault
     \/ /\ owned /\ node.up /\ ~Accepts(drill.sent, drill.plan) /\ Throw /\ UNCHANGED <<op, drillFaults>>
     \/ /\ owned /\ ~node.up /\ Throw /\ UNCHANGED <<op, drillFaults>>
  /\ UNCHANGED <<node, net, loader, file, baseline, pin, owned, served, starts, raced>>

\* The competing intent follows the acknowledged cleanup at once.
CreateRace ==
  /\ At("compete") /\ loader' = "wanted"
  /\ raced' = (raced \/ (op.req = Planned /\ op.phase = "Running"))
  /\ Go("observe")
  /\ UNCHANGED <<hostVars, file, baseline, pin, owned, drillFaults>>

\* API status alone is no evidence: the intent is observed independently.
ObserveIntent ==
  /\ At("observe")
  /\ \/ /\ node.up /\ owned /\ op.req = file.req
        /\ file' = [file EXCEPT !.state = "accepted", !.uid = op.uid]
        /\ Go(CASE drill.case = "prepare" -> "replay" [] drill.case = "race" -> "race"
                [] My.kind = "trial" -> "trial" [] OTHER -> "poll")
     \/ /\ (node.up /\ (~owned \/ op.req # file.req)) /\ Throw /\ UNCHANGED file
  /\ UNCHANGED <<hostVars, loader, baseline, pin, owned, raced, drillFaults>>

\* HOST-04 sends the same request again: the same object must remain.
Replay ==
  /\ At("replay")
  /\ IF node.up /\ owned
     THEN /\ op' = IF Accepts(file.req, drill.plan) THEN Posted(file.req, My.kind, drill.plan) ELSE op
          /\ IF op'.uid = file.uid /\ op'.req = file.req THEN Go("poll") ELSE Throw
     ELSE Throw /\ UNCHANGED op
  /\ UNCHANGED <<node, net, loader, file, baseline, pin, owned, served, starts, raced, drillFaults>>

\* A cleanup that was over before the model competed proves nothing.
CacheRaceOutcome ==
  IF op.uid # file.uid THEN "throw"
  ELSE CASE op.phase = "Failed" -> IF raced THEN "won" ELSE "throw"
         [] op.phase \in {"Rejected", "Succeeded"} -> "throw"
         [] op.phase = "Running" -> "won"
         [] OTHER -> "wait"

AwaitRace ==
  /\ At("race") /\ node.up
  /\ \/ CacheRaceOutcome = "won" /\ Go("poll") /\ loader' = "removed"
     \/ CacheRaceOutcome = "throw" /\ Throw /\ UNCHANGED loader
  /\ UNCHANGED <<hostVars, file, baseline, pin, owned, raced, drillFaults>>

AwaitTrial ==
  /\ At("trial")
  /\ \/ /\ node.up /\ owned /\ op.uid = file.uid /\ op.phase = "AwaitingConfirmation"
        /\ Go(CASE drill.case = "keep" -> "keep" [] drill.case = "console" -> "console" [] OTHER -> "poll")
     \/ /\ node.up /\ (~owned \/ op.uid # file.uid \/ op.phase \in Ended) /\ Throw
  /\ UNCHANGED <<hostVars, loader, file, baseline, pin, owned, raced, drillFaults>>

Confirmable(r) == node.up /\ node.fresh /\ op.req = r /\ op.phase = "AwaitingConfirmation"
Confirmed(r) == op' = IF Confirmable(r) THEN [op EXCEPT !.phase = "Confirmed"] ELSE op

\* The browser says it was sent, or the page fails.
Keep ==
  /\ At("keep")
  /\ \/ owned /\ Confirmable(file.req) /\ Confirmed(file.req) /\ Go("poll") /\ UNCHANGED drillFaults
     \/ owned /\ Confirmed(file.req) /\ Throw /\ DFault
     \/ (~owned \/ ~Confirmable(file.req)) /\ Throw /\ UNCHANGED <<op, drillFaults>>
  /\ UNCHANGED <<node, net, loader, file, baseline, pin, owned, served, starts, raced>>

\* NET-07: the restart is made at the console, or nobody makes it.
AwaitConsole ==
  /\ At("console")
  /\ \/ node.up /\ node.boot # drill.plan /\ Go("poll")
     \/ node.up /\ node.boot = drill.plan /\ op.phase \in Ended /\ Throw
  /\ UNCHANGED <<hostVars, loader, file, baseline, pin, owned, raced, drillFaults>>

(***************************************************************************)
(* Following the outage: the node, then the host's own report.             *)
(***************************************************************************)
PollNode ==
  /\ At("poll") /\ node.up
  /\ \/ /\ owned
        /\ drill' = [drill EXCEPT !.pc = "report", !.at = node.boot, !.seen = @ \cup {node.boot}]
     \/ ~owned /\ Throw
  /\ UNCHANGED <<hostVars, loader, file, baseline, pin, owned, raced, drillFaults>>

\* Only the own request's expected end counts.
Terminal ==
  /\ op.req = file.req
  /\ \/ op.phase = My.terminal
     \/ drill.case = "race" /\ op.phase = "Failed" /\ raced

FailedOtherwise ==
  /\ op.req = file.req /\ op.phase \in {"Failed", "Rejected"} /\ ~Terminal

PollReport ==
  /\ At("report")
  /\ \/ /\ node.up /\ Terminal
        /\ Go(IF Cardinality(drill.seen \cup {drill.plan}) - 1 = My.boots /\ node.boot = drill.at /\ node.fresh
              THEN "oracles" ELSE "failed")
     \/ node.up /\ FailedOtherwise /\ Go("failed")
     \/ (~node.up \/ (~Terminal /\ ~FailedOtherwise)) /\ Go("poll")
  /\ UNCHANGED <<hostVars, loader, file, baseline, pin, owned, raced, drillFaults>>

\* Half an hour without the expected end.
PollTimesOut ==
  /\ At("poll") /\ node.up
  /\ op.req # file.req \/ (op.phase \in Ended /\ ~Terminal)
  /\ Throw /\ UNCHANGED <<hostVars, loader, file, baseline, pin, owned, raced, drillFaults>>

VerifyFailed ==
  /\ At("failed") /\ Throw
  /\ UNCHANGED <<hostVars, loader, file, baseline, pin, owned, raced, drillFaults>>

\* The case's oracles and inference on every model of the drill.
Oracles ==
  /\ At("oracles")
  /\ \/ /\ node.up /\ UNCHANGED drillFaults
        /\ drill' = IF drill.case = "keep" THEN [drill EXCEPT !.pc = "baseline", !.back = "inline"]
                    ELSE [drill EXCEPT !.pc = "credit"]
     \/ Throw /\ (IF node.up THEN DFault ELSE UNCHANGED drillFaults)
  /\ UNCHANGED <<hostVars, loader, file, baseline, pin, owned, raced>>

(***************************************************************************)
(* The network baseline, inline or in the teardown.                        *)
(***************************************************************************)
RestorationFails ==
  drill' = IF drill.back = "inline" THEN [drill EXCEPT !.back = "registered", !.pc = "baseline"]
           ELSE [drill EXCEPT !.pc = "ended", !.clean = FALSE]
Restored ==
  drill' = IF drill.back = "inline" THEN [drill EXCEPT !.pc = "credit", !.back = "none"]
           ELSE [drill EXCEPT !.pc = "ended", !.clean = TRUE]

HostIdle == node.up /\ node.fresh /\ (op.uid = 0 \/ op.phase \in {"Succeeded", "Failed", "RolledBack"})

RestoreNetworkBaseline ==
  /\ At("baseline")
  /\ \/ /\ HostIdle /\ owned /\ node.boot = drill.plan /\ net = "base" /\ Restored /\ UNCHANGED baseline
     \/ /\ HostIdle /\ owned /\ node.boot = drill.plan /\ net # "base"
        /\ \E r \in Restorations : /\ baseline.req # r
                                   /\ r = IF baseline.req = 3 THEN 4 ELSE 3
                                   /\ baseline' = [state |-> "requested", req |-> r, uid |-> 0]
        /\ Go("restore")
     \/ /\ (node.up /\ (~owned \/ (HostIdle /\ node.boot # drill.plan))) /\ RestorationFails /\ UNCHANGED baseline
     \/ /\ node.up /\ node.fresh /\ op.phase = "Rejected" /\ RestorationFails /\ UNCHANGED baseline
  /\ UNCHANGED <<hostVars, loader, file, pin, owned, raced, drillFaults>>

PostRestore ==
  /\ At("restore")
  /\ \/ /\ owned /\ node.up /\ Accepts(baseline.req, drill.plan)
        /\ op' = Posted(baseline.req, "trial", drill.plan)
        /\ \/ Go("confirm") /\ UNCHANGED drillFaults
           \/ RestorationFails /\ DFault
     \/ /\ (~owned \/ ~node.up \/ ~Accepts(baseline.req, drill.plan)) /\ RestorationFails
        /\ UNCHANGED <<op, drillFaults>>
  /\ UNCHANGED <<node, net, loader, file, baseline, pin, owned, served, starts, raced>>

ConfirmRestore ==
  /\ At("confirm")
  /\ \/ owned /\ Confirmable(baseline.req) /\ Confirmed(baseline.req) /\ Go("restored")
     \/ /\ (~owned \/ (node.up /\ (op.req # baseline.req \/ op.phase \in Ended)))
        /\ RestorationFails /\ UNCHANGED op
  /\ UNCHANGED <<node, net, loader, file, baseline, pin, owned, served, starts, raced, drillFaults>>

VerifyBaseline ==
  /\ At("restored") /\ node.up
  /\ \/ /\ owned /\ node.fresh /\ op.req = baseline.req /\ op.phase = "Succeeded"
        /\ IF node.boot = drill.plan /\ net = "base" THEN Restored ELSE RestorationFails
     \/ (~owned \/ op.req # baseline.req \/ op.phase \in Ended \ {"Succeeded"}) /\ RestorationFails
  /\ UNCHANGED <<hostVars, loader, file, baseline, pin, owned, raced, drillFaults>>

(***************************************************************************)
(* Credit: the verified record, then the proposed profile of the new boot. *)
(***************************************************************************)
Credit ==
  /\ At("credit")
  /\ file' = [file EXCEPT !.state = "verified"] /\ Go("pin")
  /\ UNCHANGED <<hostVars, loader, baseline, pin, owned, raced, drillFaults>>

Pin ==
  /\ At("pin") /\ pin' = drill.at
  /\ drill' = [drill EXCEPT !.pc = "ended", !.clean = TRUE]
  /\ UNCHANGED <<hostVars, loader, file, baseline, owned, raced, drillFaults>>

DrillKilled ==
  /\ ~At("ended") /\ ~At("killed") /\ DFault /\ Go("killed")
  /\ UNCHANGED <<hostVars, loader, file, baseline, pin, owned, raced>>

HostSteps == WorkerStart \/ WorkerReboots \/ NodeUp \/ WorkerReports \/ WorkerFinishes
DrillSteps ==
  \/ PrepareCacheFixture \/ RecordPreview \/ CheckChannel \/ AwaitPreview
  \/ ParseHostDrill \/ PersistRequest \/ SubmitThroughUi \/ Post \/ CreateRace
  \/ ObserveIntent \/ Replay \/ AwaitRace \/ AwaitTrial \/ Keep \/ AwaitConsole
  \/ PollNode \/ PollReport \/ PollTimesOut \/ VerifyFailed \/ Oracles
  \/ RestoreNetworkBaseline \/ PostRestore \/ ConfirmRestore \/ VerifyBaseline \/ Credit \/ Pin
DrillNext == HostSteps \/ DrillSteps \/ HostRestarts \/ UserOperates \/ LeaseLost \/ DrillKilled

\* The deadline of a wait comes although the wait goes on in the meantime.
DrillFairness == WF_drillVars(HostSteps) /\ WF_drillVars(DrillSteps) /\ SF_drillVars(PollTimesOut)
DrillSpec == DrillInit /\ [][DrillNext]_drillVars /\ DrillFairness

(***************************************************************************)
(* Correctness                                                             *)
(***************************************************************************)
\* A drill is recorded as verified only when the host carried out exactly the
\* recorded request and ended it as the case expects, with the boots the case
\* is about, whatever other operations and restarts fell into the outage.
DrillTrue ==
  file.state = "verified" =>
    /\ served[file.req].phase = My.terminal \/ (drill.case = "race" /\ served[file.req].phase = "Failed")
    /\ My.kind = "power" => served[file.req].boots >= 1
    /\ drill.case = "race" => raced

\* An operation of this run that the host has or still carries out is named in
\* a file of the run, also after a kill at any point and when the browser chose
\* the id: what is not recorded can never be recognised later.
RecordedFirst ==
  (op.uid # 0 /\ op.req # Other /\ op.phase \notin Ended) => op.req \in {file.req, baseline.req}

\* The disruptive operation is carried out at most once, lost answers, deliberate
\* replays and restarts included.
OneDisruption == starts[Planned] + starts[Browser] <= 1

\* A network drill that ends as cleaned up has left the saved configuration as
\* it was, also when it failed between confirming and verifying.
NetworkBack == (At("ended") /\ drill.case = "keep" /\ drill.clean) => net = "base"

\* A drill disturbs the host once, by a request it has on record, believes only
\* what the host did for that request, and puts the network back.
DrillSafe == DrillTrue /\ RecordedFirst /\ OneDisruption /\ NetworkBack

DrillEnded == At("ended") \/ At("killed")

\* Every drill ends: nothing it waits for can be outlived by the outage.
DrillEnds == <>DrillEnded
=============================================================================

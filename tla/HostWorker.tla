----------------------------- MODULE HostWorker -----------------------------
(***************************************************************************)
(* The life of a HostOperation: the dashboard that replaces the single     *)
(* resource of a node, the root worker whose timer tick executes it, and   *)
(* the three queued services (Ubuntu updates, software channel, network    *)
(* trial) that run on its behalf.                                          *)
(*                                                                         *)
(* A tick of the worker is split wherever the process can die or another   *)
(* party can look: after each write of state.json, each status patch and   *)
(* each side effect.  Reading the state and the resource, deciding, and    *)
(* the write that follows are one step: nothing can be observed between.   *)
(*                                                                         *)
(* uid n is the n-th HostOperation ever created; posted[n] is its spec,    *)
(* which the CRD makes immutable, and newest the last n used.  uid 0       *)
(* stands for "none".                                                      *)
(***************************************************************************)
EXTENDS Integers, Sequences

CONSTANTS
  Requests,      \* request identities (32 hex digits chosen by a client)
  Actions,       \* the actions clients ask for
  MaxOps,        \* bound: HostOperations ever created
  MaxBoots,      \* bound: boots of the host
  HistoryLimit,  \* length of state.completed (256 in the code)
  StateLoss      \* whether state.json can get lost

PowerActions == {"reboot", "poweroff"}

\* Actions the tick performs itself: announce, act once, report.
LocalActions == {"clear-model-cache", "scan-wifi", "configure-updates"}

\* Actions handed to a systemd service (check-updates and install-updates,
\* and the two software actions, follow the same path).
ServiceActions == {"install-updates", "apply-software-channel", "configure-network"}

AllActions == PowerActions \cup LocalActions \cup ServiceActions
              \cup {"prepare-gpu", "configure-gpu-memory"}

ASSUME BoundsAssumption ==
  /\ MaxOps \in Nat \ {0}
  /\ MaxBoots \in Nat \ {0}
  /\ HistoryLimit \in Nat \ {0}
  /\ StateLoss \in BOOLEAN

ASSUME ActionsAssumption == Actions \subseteq AllActions

TERMINAL == {"Succeeded", "PreparedUnverified", "Failed", "Rejected",
             "Interrupted", "RolledBack"}

Phases == TERMINAL \cup {"Accepted", "Preparing", "Applying", "RebootScheduled",
                         "PoweroffScheduled", "Verifying", "Registering"}

\* What an operation does to the host.  "service" is the run of a queued
\* service, "start" the systemctl call that queues it.
Effects == {"shutdown", "carveout", "ttm", "local", "packages", "activate",
            "start", "service"}

Uids == 1 .. MaxOps

NoRequest == "no request"

VARIABLES
  \* --- Kubernetes and the dashboard
  posted,      \* specs of all HostOperations created so far
  newest,      \* uid of the last one created
  op,          \* the node's HostOperation: [uid, phase]
  dash,        \* one create_host_operation call per request: [pc, seen, spec]
  nodeBoot,    \* boot identity the kubelet has published on the Node
  activation,  \* the amd-gpu ModuleActivation relative to activationBefore
  \* --- root-owned files
  current,     \* state.json "current": [uid, phase, boot, stage, reboots]
  completed,   \* state.json "completed"
  approved,    \* approved-*.json: the uid each service may run
  result,      \* the status file of each service: [req, phase]
  \* --- the running host
  boot,        \* boot identity
  shutdown,    \* /run/systemd/shutdown/scheduled: who scheduled it
  late,        \* the deadline of the current phase has passed
  queued,      \* start jobs systemd holds for each service
  lock,        \* the service holding maintenance.lock, or "free"
  w,           \* the worker process: [pc, next, caught]
  \* --- history
  ran          \* how often each uid had each effect

kubeVars == <<posted, newest, op, dash, nodeBoot, activation>>
fileVars == <<current, completed, approved, result>>
hostVars == <<boot, shutdown, late, queued, lock>>
vars == <<kubeVars, fileVars, hostVars, w, ran>>

Specs == [req : Requests, action : Actions, boot : 1 .. MaxBoots]

NoOp == [uid |-> 0, phase |-> "Pending"]

\* state.json before the first operation, or after it was lost.
NoCurrent == [uid |-> 0, phase |-> "none", boot |-> 0, stage |-> "none", reboots |-> 0]

Idle == [pc |-> "idle", next |-> "end", caught |-> FALSE]

NoSpec == [req |-> NoRequest, action |-> "none", boot |-> 0]

NoDash == [pc |-> "idle", seen |-> 0, spec |-> NoSpec]

Action == posted[current.uid].action

Active == current.phase \notin TERMINAL \cup {"none"}

Init ==
  /\ posted = [u \in Uids |-> NoSpec] /\ newest = 0 /\ op = NoOp /\ nodeBoot = 1 /\ activation = "before"
  /\ dash = [r \in Requests |-> NoDash]
  /\ current = NoCurrent /\ completed = <<>>
  /\ approved = [a \in ServiceActions |-> 0]
  /\ result = [a \in ServiceActions |-> [req |-> NoRequest, phase |-> "none"]]
  /\ boot = 1 /\ shutdown = "none" /\ late = FALSE
  /\ queued = [a \in ServiceActions |-> FALSE] /\ lock = "free"
  /\ w = Idle
  /\ ran = [u \in Uids |-> [e \in Effects |-> 0]]

-----------------------------------------------------------------------------
(* The dashboard: create_host_operation.  Two administrators, or one client *)
(* that retries, may be anywhere in it at once.  Answers that change        *)
(* nothing (the idempotent repeat, a 409) are not steps.                    *)

\* GET of the node's resource; an active one is never replaced.
DashGet(r, a) ==
  /\ dash[r].pc = "idle" /\ newest < MaxOps
  /\ op.uid # 0 => posted[op.uid].req # r /\ op.phase \in TERMINAL
  /\ dash' = [dash EXCEPT ![r] =
       [pc   |-> IF op.uid = 0 THEN "post" ELSE "delete",
        seen |-> op.uid,
        spec |-> [req |-> r, action |-> a, boot |-> nodeBoot]]]
  /\ UNCHANGED <<posted, newest, op, nodeBoot, activation, fileVars, hostVars, w, ran>>

\* Fault: the DELETE carries no uid precondition.
DashDeleteAny(r) ==
  /\ dash[r].pc = "delete"
  /\ op' = NoOp
  /\ dash' = [dash EXCEPT ![r] = [@ EXCEPT !.pc = "post"]]
  /\ UNCHANGED <<posted, newest, nodeBoot, activation, fileVars, hostVars, w, ran>>

\* DELETE with the uid seen by the GET as precondition.
DashDelete(r) ==
  /\ dash[r].pc = "delete"
  /\ IF op.uid = dash[r].seen
     THEN /\ op' = NoOp
          /\ dash' = [dash EXCEPT ![r] = [@ EXCEPT !.pc = "post"]]
     ELSE /\ op' = op
          /\ dash' = [dash EXCEPT ![r] = NoDash]
  /\ UNCHANGED <<posted, newest, nodeBoot, activation, fileVars, hostVars, w, ran>>

\* POST under the node's fixed name; a resource that appeared meanwhile wins.
DashPost(r) ==
  /\ dash[r].pc = "post"
  /\ newest < MaxOps
  /\ IF op.uid = 0
     THEN /\ newest' = newest + 1
          /\ posted' = [posted EXCEPT ![newest + 1] = dash[r].spec]
          /\ op' = [uid |-> newest + 1, phase |-> "Pending"]
     ELSE UNCHANGED <<posted, newest, op>>
  /\ dash' = [dash EXCEPT ![r] = NoDash]
  /\ UNCHANGED <<nodeBoot, activation, fileVars, hostVars, w, ran>>

\* The dashboard pod restarts, or a request raises, between two API calls.
DashAbort(r) ==
  /\ dash[r].pc # "idle"
  /\ dash' = [dash EXCEPT ![r] = NoDash]
  /\ UNCHANGED <<posted, newest, op, nodeBoot, activation, fileVars, hostVars, w, ran>>

-----------------------------------------------------------------------------
(* Worker.update: write state.json, then patch the status of the resource. *)

\* Fault: the history is not cut to its limit.
RememberAll(r) == Append(completed, r)

Remember(r) ==
  LET all == Append(completed, r)
  IN  IF Len(all) > HistoryLimit
      THEN SubSeq(all, Len(all) - HistoryLimit + 1, Len(all))
      ELSE all

\* Fault: side effects do not wait for the acknowledgement of the phase.
UpdateUnacknowledged(cur, next, caught) ==
  /\ current' = cur
  /\ completed' = IF cur.phase \in TERMINAL
                  THEN Append(completed, posted[cur.uid].req) ELSE completed
  /\ w' = [pc |-> IF next = "end" THEN "patch" ELSE next, next |-> "end", caught |-> caught]

\* The write.  next is what the code does once the patch is acknowledged;
\* caught says whether an exception ends in the handler that reports Failed.
Update(cur, next, caught) ==
  /\ current' = cur
  /\ completed' = IF cur.phase \in TERMINAL
                  THEN Remember(posted[cur.uid].req) ELSE completed
  /\ w' = [pc |-> "patch", next |-> next, caught |-> caught]

To(phase) == [current EXCEPT !.phase = phase]

Fail == Update(To("Failed"), "end", FALSE)

Goto(pc) == [w EXCEPT !.pc = pc]

\* An exception: reported by the handler, or the end of the process.
Raise ==
  IF w.caught THEN Fail ELSE w' = Idle /\ UNCHANGED <<current, completed>>

\* The patch carries the uid it was decided for, so it fails on another one.
PatchOk ==
  /\ w.pc = "patch"
  /\ op.uid = current.uid
  /\ op' = [op EXCEPT !.phase = current.phase]
  /\ w' = IF w.next = "end" THEN Idle
          ELSE [pc |-> w.next, next |-> "end", caught |-> w.caught]
  /\ UNCHANGED <<posted, newest, dash, nodeBoot, activation, fileVars, hostVars, ran>>

\* kubectl reports an error although the API server may have stored the patch.
PatchError(stored) ==
  /\ w.pc = "patch"
  /\ stored => op.uid = current.uid
  /\ op' = IF stored THEN [op EXCEPT !.phase = current.phase] ELSE op
  /\ Raise
  /\ UNCHANGED <<posted, newest, dash, nodeBoot, activation, approved, result, hostVars, ran>>

-----------------------------------------------------------------------------
(* Worker.main and the first half of Worker.reconcile: a new resource.     *)

\* A tick needs maintenance.lock and a kubelet that has published this boot.
CanTick == w.pc = "idle" /\ lock = "free" /\ nodeBoot = boot /\ op.uid # 0

Processed(r) == \E i \in 1 .. Len(completed) : completed[i] = r

\* Fault: the boot identity of the request is not compared.
ValidOnAnyBoot(u, valid) == valid

\* validate_request at the privilege boundary.  valid stands for what it
\* checks beyond the boot identity: age, plan, consent, fields of the action.
ValidRequest(u, valid) == posted[u].boot = boot /\ valid

\* An active operation under another uid makes the tick raise instead.
Accept(valid) ==
  /\ CanTick /\ op.uid # current.uid /\ ~Active
  /\ current' = [uid |-> op.uid, phase |-> "Accepted", boot |-> boot,
                 stage |-> "none", reboots |-> 0]
  /\ LET ok == /\ ~Processed(posted[op.uid].req)
               /\ op.phase = "Pending"
               /\ ValidRequest(op.uid, valid)
     IN  w' = [pc |-> IF ok THEN "begin" ELSE "reject", next |-> "end", caught |-> ok]
  /\ UNCHANGED <<kubeVars, completed, approved, result, hostVars, ran>>

Reject ==
  /\ w.pc = "reject"
  /\ Update(To("Rejected"), "end", FALSE)
  /\ UNCHANGED <<kubeVars, approved, result, hostVars, ran>>

\* The shutdown already scheduled, or fresh local evidence that differs from
\* the reviewed plan; power, preparation and cache actions check none.
BeginRefused ==
  /\ w.pc = "begin"
  /\ \/ shutdown # "none"
     \/ Action \notin PowerActions \cup {"prepare-gpu", "clear-model-cache"}
  /\ Fail
  /\ UNCHANGED <<kubeVars, approved, result, hostVars, ran>>

Begin(action) == w.pc = "begin" /\ shutdown = "none" /\ Action = action

ScheduledPhase == IF Action = "poweroff" THEN "PoweroffScheduled" ELSE "RebootScheduled"

\* schedule_power up to the shutdown command.
SchedulePower(cur) ==
  IF shutdown # "none"
  THEN Fail /\ UNCHANGED late
  ELSE /\ Update([cur EXCEPT !.phase = ScheduledPhase], "shutdown", TRUE)
       /\ late' = FALSE

BeginPower ==
  /\ \E a \in PowerActions : Begin(a)
  /\ SchedulePower(current)
  /\ UNCHANGED <<kubeVars, approved, result, boot, shutdown, queued, lock, ran>>

BeginLocal ==
  /\ \E a \in LocalActions : Begin(a)
  /\ Update(To(IF Action = "configure-updates" THEN "Applying" ELSE "Preparing"),
            "local", TRUE)
  /\ UNCHANGED <<kubeVars, approved, result, hostVars, ran>>

\* The approval file is written before the phase is.
BeginService ==
  /\ \E a \in ServiceActions : Begin(a)
  /\ approved' = [approved EXCEPT ![Action] = current.uid]
  /\ w' = Goto("queue")
  /\ UNCHANGED <<kubeVars, current, completed, result, hostVars, ran>>

QueueService ==
  /\ w.pc = "queue"
  /\ Update(To("Applying"), "start", TRUE)
  /\ late' = FALSE
  /\ UNCHANGED <<kubeVars, approved, result, boot, shutdown, queued, lock, ran>>

\* apply_dynamic_memory up to Ansible: done already, or the second stage.
ApplyDynamicMemory ==
  \/ Update(To("Succeeded"), "end", TRUE)
  \/ Update([current EXCEPT !.phase = "Preparing", !.stage = "ttm"], "ttm", TRUE)

BeginMemory ==
  /\ Begin("configure-gpu-memory")
  /\ \/ Update([current EXCEPT !.phase = "Preparing", !.stage = "uma"], "carveout", TRUE)
     \/ ApplyDynamicMemory
  /\ UNCHANGED <<kubeVars, approved, result, hostVars, ran>>

\* The stage records whether the plan's layout has an engine profile.
BeginPrepare ==
  /\ Begin("prepare-gpu")
  /\ \E stage \in {"profile", "unverified"} :
       Update([current EXCEPT !.phase = "Preparing", !.stage = stage], "capture", TRUE)
  /\ UNCHANGED <<kubeVars, approved, result, hostVars, ran>>

-----------------------------------------------------------------------------
(* Side effects.  A command can fail before or after it had its effect.    *)

Ran(u, e) == ran' = [ran EXCEPT ![u] = [ran[u] EXCEPT ![e] = ran[u][e] + 1]]

Shutdown(error, done) ==
  /\ w.pc = "shutdown"
  /\ error \/ done
  /\ IF done THEN shutdown' = "worker" /\ Ran(current.uid, "shutdown")
             ELSE UNCHANGED <<shutdown, ran>>
  /\ IF error THEN Raise ELSE w' = Idle /\ UNCHANGED <<current, completed>>
  /\ UNCHANGED <<kubeVars, approved, result, boot, late, queued, lock>>

\* The firmware write, the Ansible run for the TTM limit, the cache cleanup or
\* Wi-Fi scan or policy write, and the package installation.
Commands == {"carveout", "ttm", "local", "packages"}

After(e) == CASE e = "local" -> "finish" [] e = "packages" -> "prepared" [] OTHER -> "memreboot"

RunCommand(e, error, done) ==
  /\ w.pc = e
  /\ error \/ done \/ e = "packages"           \* all packages may be installed already
  /\ IF done THEN Ran(current.uid, e) ELSE UNCHANGED ran
  /\ IF error THEN Raise ELSE w' = Goto(After(e)) /\ UNCHANGED <<current, completed>>
  /\ UNCHANGED <<kubeVars, approved, result, hostVars>>

FinishLocal ==
  /\ w.pc = "finish"
  /\ Update(To("Succeeded"), "end", TRUE)
  /\ UNCHANGED <<kubeVars, approved, result, hostVars, ran>>

\* memory_reboot: at most two restarts, counted before the second schedule.
MemoryReboot ==
  /\ w.pc = "memreboot"
  /\ IF current.reboots >= 2
     THEN Fail /\ UNCHANGED late
     ELSE SchedulePower([current EXCEPT !.boot = boot, !.reboots = @ + 1])
  /\ UNCHANGED <<kubeVars, approved, result, boot, shutdown, queued, lock, ran>>

\* The identity of the module activation is saved before the packages change.
CaptureActivation ==
  /\ w.pc = "capture"
  /\ \/ activation' = "before" /\ w' = Goto("packages") /\ UNCHANGED <<current, completed>>
     \/ Raise /\ UNCHANGED activation
  /\ UNCHANGED <<posted, newest, op, dash, nodeBoot, approved, result, hostVars, ran>>

\* After the packages: a reboot, a missing kernel file, or no reboot at all.
PackagesInstalled ==
  /\ w.pc = "prepared"
  /\ \/ SchedulePower(current)
     \/ Fail /\ UNCHANGED late
     \/ w' = Goto("profile") /\ UNCHANGED <<current, completed, late>>
  /\ UNCHANGED <<kubeVars, approved, result, boot, shutdown, queued, lock, ran>>

\* enable_gpu_profile: the activation is written with the resourceVersion it
\* was compared under, so comparison and write are one step.
EnableGpuProfile(error, done) ==
  /\ w.pc = "profile"
  /\ IF current.stage = "unverified" THEN
       /\ Update(To("PreparedUnverified"), "end", w.caught)
       /\ UNCHANGED <<activation, ran>>
     ELSE IF activation # "before" THEN
       /\ Update(To("Interrupted"), "end", w.caught)
       /\ UNCHANGED <<activation, ran>>
     ELSE
       /\ error \/ done
       /\ IF done THEN activation' = "ours" /\ Ran(current.uid, "activate")
                  ELSE UNCHANGED <<activation, ran>>
       /\ IF error THEN Raise ELSE w' = Goto("register") /\ UNCHANGED <<current, completed>>
  /\ UNCHANGED <<posted, newest, op, dash, nodeBoot, approved, result, hostVars>>

Register ==
  /\ w.pc = "register"
  /\ Update([current EXCEPT !.phase = "Registering", !.boot = boot], "end", w.caught)
  /\ late' = FALSE
  /\ UNCHANGED <<kubeVars, approved, result, boot, shutdown, queued, lock, ran>>

\* systemctl start --no-block.
StartJob(error, done) ==
  /\ w.pc = "start"
  /\ error \/ done
  /\ IF done THEN queued' = [queued EXCEPT ![Action] = TRUE] /\ Ran(current.uid, "start")
             ELSE UNCHANGED <<queued, ran>>
  /\ IF error THEN Raise ELSE w' = Idle /\ UNCHANGED <<current, completed>>
  /\ UNCHANGED <<kubeVars, approved, result, boot, shutdown, late, lock>>

-----------------------------------------------------------------------------
(* The second half of Worker.reconcile: the resource already accepted.     *)

Resume(phase) == CanTick /\ op.uid = current.uid /\ current.phase = phase

\* Fault: state.json follows the resource instead of the reverse.
AdoptStatus ==
  /\ CanTick /\ op.uid = current.uid /\ current.phase \in TERMINAL
  /\ op.phase \notin {current.phase, "Pending"}
  /\ Update(To(op.phase), "end", FALSE)
  /\ UNCHANGED <<kubeVars, approved, result, hostVars, ran>>

Reacknowledge ==
  /\ CanTick /\ op.uid = current.uid /\ current.phase \in TERMINAL
  /\ op.phase # current.phase
  /\ Update(current, "end", FALSE)
  /\ UNCHANGED <<kubeVars, approved, result, hostVars, ran>>

\* Fault: an operation whose tick died is begun again on the same boot.
BeginUnfinished ==
  /\ \/ Resume("Accepted")
     \/ Resume("Preparing")
     \/ Resume("Applying") /\ Action = "configure-updates"
  /\ IF boot = current.boot /\ current.phase = "Preparing"
     THEN /\ w' = [pc |-> "begin", next |-> "end", caught |-> TRUE]
          /\ UNCHANGED <<current, completed>>
     ELSE Update(To("Interrupted"), "end", FALSE)
  /\ UNCHANGED <<kubeVars, approved, result, hostVars, ran>>

\* A tick died between accepting and reporting: never continue, never repeat.
InterruptUnfinished ==
  /\ \/ Resume("Accepted")
     \/ Resume("Preparing")
     \/ Resume("Applying") /\ Action = "configure-updates"
  /\ Update(To("Interrupted"), "end", FALSE)
  /\ UNCHANGED <<kubeVars, approved, result, hostVars, ran>>

\* kernel: the host came back with the reviewed kernel.
ObserveBoot(kernel) ==
  /\ Resume("RebootScheduled") \/ Resume("PoweroffScheduled")
  /\ boot # current.boot
  /\ CASE Action \in PowerActions -> Update(To("Succeeded"), "end", FALSE)
       [] Action = "prepare-gpu"  -> Update(To(IF kernel THEN "Verifying" ELSE "Failed"), "end", FALSE)
       [] OTHER -> Update([current EXCEPT !.phase = "Verifying", !.boot = boot], "end", FALSE)
  /\ late' = FALSE
  /\ UNCHANGED <<kubeVars, approved, result, boot, shutdown, queued, lock, ran>>

\* Fault: a restart that does not come is scheduled again.
NoBootAgain ==
  /\ Resume("RebootScheduled") \/ Resume("PoweroffScheduled")
  /\ boot = current.boot /\ late
  /\ IF current.reboots < 2 THEN SchedulePower([current EXCEPT !.reboots = @ + 1])
                            ELSE Fail /\ UNCHANGED late
  /\ UNCHANGED <<kubeVars, approved, result, boot, shutdown, queued, lock, ran>>

NoBoot ==
  /\ Resume("RebootScheduled") \/ Resume("PoweroffScheduled")
  /\ boot = current.boot /\ late
  /\ Fail
  /\ UNCHANGED <<kubeVars, approved, result, hostVars, ran>>

\* ready: the host driver is up.
VerifyPrepare(ready) ==
  /\ Resume("Verifying") /\ Action = "prepare-gpu"
  /\ IF ready
     THEN w' = [pc |-> "profile", next |-> "end", caught |-> FALSE]
          /\ UNCHANGED <<current, completed>>
     ELSE late /\ Fail
  /\ UNCHANGED <<kubeVars, approved, result, hostVars, ran>>

\* evidence: fresh, eligible and registered for this boot.
VerifyRegistration(evidence) ==
  /\ Resume("Registering")
  /\ IF boot # current.boot \/ activation = "other" THEN Update(To("Interrupted"), "end", FALSE)
     ELSE IF evidence THEN Update(To("Succeeded"), "end", FALSE)
     ELSE late /\ Fail
  /\ UNCHANGED <<kubeVars, approved, result, hostVars, ran>>

\* Everything from the checks on runs under the handler that reports Failed.
VerifyMemory ==
  /\ Resume("Verifying") /\ Action = "configure-gpu-memory"
  /\ IF boot # current.boot THEN Update(To("Interrupted"), "end", FALSE)
     ELSE \/ Fail                                             \* evidence changed
          \/ ~late /\ Update(current, "end", TRUE)            \* companion driver not bound
          \/ current.stage = "uma" /\ ApplyDynamicMemory
          \/ current.stage = "ttm" /\ Update(To("Succeeded"), "end", TRUE)
  /\ UNCHANGED <<kubeVars, approved, result, hostVars, ran>>

\* reconcile_updates, reconcile_software and reconcile_network.
ReconcileService ==
  /\ Resume("Applying") /\ Action \in ServiceActions
  /\ LET r == result[Action]
         mine == r.req = posted[current.uid].req
     IN  \/ mine /\ r.phase \in TERMINAL /\ Update(To(r.phase), "end", FALSE)
         \/ /\ late
            /\ IF Action = "configure-network" THEN ~(mine /\ r.phase \in TERMINAL) ELSE ~mine
            /\ Update(To("Interrupted"), "end", FALSE)
  /\ UNCHANGED <<kubeVars, approved, result, hostVars, ran>>

-----------------------------------------------------------------------------
(* The services.  Each waits for maintenance.lock, then checks whether the *)
(* approval it finds may still run.                                        *)

MayRun(a) ==
  LET u == approved[a]
  IN  /\ u # 0
      /\ u = current.uid => ~late
      /\ CASE a = "install-updates" ->
                /\ current.uid = u /\ current.phase = "Applying" /\ current.boot = boot
                /\ result[a].req # posted[u].req
                /\ shutdown = "none"
           [] a = "apply-software-channel" ->
                result[a].req # posted[u].req
           [] a = "configure-network" ->
                /\ op.uid = u /\ op.phase = "Applying"
                /\ posted[u].boot = boot /\ nodeBoot = boot

StartService(a) ==
  /\ queued[a] /\ lock = "free" /\ w.pc = "idle"
  /\ MayRun(a)
  /\ lock' = a
  /\ queued' = [queued EXCEPT ![a] = FALSE]
  /\ result' = [result EXCEPT ![a] = [req |-> posted[approved[a]].req, phase |-> "Running"]]
  /\ Ran(approved[a], "service")
  /\ UNCHANGED <<kubeVars, current, completed, approved, boot, shutdown, late, w>>

\* Refused; the network service also refuses an approval older than a minute
\* or a changed inventory.  Its ExecStopPost removes the approval.
RefuseService(a) ==
  /\ queued[a] /\ lock = "free" /\ w.pc = "idle"
  /\ ~MayRun(a) \/ a = "configure-network"
  /\ queued' = [queued EXCEPT ![a] = FALSE]
  /\ approved' = IF a = "configure-network" THEN [approved EXCEPT ![a] = 0] ELSE approved
  /\ UNCHANGED <<kubeVars, current, completed, result, boot, shutdown, late, lock, w, ran>>

\* The network trial reports its result on the resource by itself; that patch
\* may get lost.  A killed trial is rolled back by ExecStopPost.
FinishService(a, phase, published) ==
  /\ lock = a
  /\ phase = "RolledBack" => a = "configure-network"
  /\ phase = "Interrupted" => a # "configure-network"
  /\ published => a = "configure-network" /\ op.uid = approved[a]
  /\ lock' = "free"
  /\ result' = [result EXCEPT ![a] = [@ EXCEPT !.phase = phase]]
  /\ op' = IF published THEN [op EXCEPT !.phase = phase] ELSE op
  /\ approved' = IF a = "configure-network" THEN [approved EXCEPT ![a] = 0] ELSE approved
  /\ UNCHANGED <<posted, newest, dash, nodeBoot, activation, current, completed, boot, shutdown,
                 late, queued, w, ran>>

-----------------------------------------------------------------------------
(* The host: power loss and restarts, kubelet, clock, a local administrator *)

\* A service that was running is reported Interrupted by its status(); the
\* boot recovery service restores the network and removes the approval.
Interrupted(a, r) ==
  IF r.phase # "Running" THEN r
  ELSE [r EXCEPT !.phase = IF a = "configure-network" THEN "RolledBack" ELSE "Interrupted"]

Reboot ==
  /\ boot < MaxBoots
  /\ boot' = boot + 1
  /\ shutdown' = "none" /\ lock' = "free" /\ w' = Idle
  /\ queued' = [a \in ServiceActions |-> FALSE]
  /\ result' = [a \in ServiceActions |-> Interrupted(a, result[a])]
  /\ approved' = [approved EXCEPT !["configure-network"] = 0]
  /\ UNCHANGED <<kubeVars, current, completed, late, ran>>

KubeletPublishes ==
  /\ nodeBoot # boot
  /\ nodeBoot' = boot
  /\ UNCHANGED <<posted, newest, op, dash, activation, fileVars, hostVars, w, ran>>

\* The worker is killed (systemd timeout, out of memory).
CrashWorker ==
  /\ w.pc # "idle"
  /\ w' = Idle
  /\ UNCHANGED <<kubeVars, fileVars, hostVars, ran>>

\* state.json is lost or removed; the next tick starts from an empty one.
LoseState ==
  /\ StateLoss /\ w.pc = "idle" /\ current.uid # 0
  /\ current' = NoCurrent /\ completed' = <<>>
  /\ UNCHANGED <<kubeVars, approved, result, hostVars, w, ran>>

Timed == {"Applying", "RebootScheduled", "PoweroffScheduled", "Verifying", "Registering"}

TimePasses ==
  /\ ~late /\ current.phase \in Timed
  /\ late' = TRUE
  /\ UNCHANGED <<kubeVars, fileVars, boot, shutdown, queued, lock, w, ran>>

\* Somebody schedules a shutdown at the console, or cancels any.
AdminShutdown ==
  /\ \/ shutdown = "none" /\ shutdown' = "admin"
     \/ shutdown # "none" /\ shutdown' = "none"
  /\ UNCHANGED <<kubeVars, fileVars, boot, late, queued, lock, w, ran>>

\* Somebody edits the amd-gpu module in the dashboard while it is compared.
AdminActivation ==
  /\ "prepare-gpu" \in Actions /\ Active
  /\ activation # "other"
  /\ activation' = "other"
  /\ UNCHANGED <<posted, newest, op, dash, nodeBoot, fileVars, hostVars, w, ran>>

-----------------------------------------------------------------------------
Dashboard ==
  \E r \in Requests :
    \/ \E a \in Actions : DashGet(r, a)
    \/ DashDelete(r) \/ DashPost(r) \/ DashAbort(r)

\* A timer tick starts.
Tick ==
  \/ \E valid \in BOOLEAN : Accept(valid)
  \/ Reacknowledge \/ InterruptUnfinished \/ NoBoot \/ VerifyMemory \/ ReconcileService
  \/ \E seen \in BOOLEAN :
       ObserveBoot(seen) \/ VerifyPrepare(seen) \/ VerifyRegistration(seen)

\* The running tick goes on.
Continue ==
  \/ Reject \/ BeginRefused \/ BeginPower \/ BeginLocal \/ BeginService \/ QueueService
  \/ BeginMemory \/ BeginPrepare \/ FinishLocal \/ MemoryReboot \/ CaptureActivation
  \/ PackagesInstalled \/ Register \/ PatchOk
  \/ \E stored \in BOOLEAN : PatchError(stored)
  \/ \E error, done \in BOOLEAN :
       \/ Shutdown(error, done) \/ EnableGpuProfile(error, done) \/ StartJob(error, done)
       \/ \E e \in Commands : RunCommand(e, error, done)

Services ==
  \E a \in ServiceActions :
    \/ StartService(a) \/ RefuseService(a)
    \/ \E phase \in {"Succeeded", "Failed", "Interrupted", "RolledBack"}, published \in BOOLEAN :
         FinishService(a, phase, published)

Environment ==
  \/ Reboot \/ KubeletPublishes \/ CrashWorker \/ LoseState \/ TimePasses
  \/ AdminShutdown \/ AdminActivation

Next == Dashboard \/ Tick \/ Continue \/ Services \/ Environment

Spec == Init /\ [][Next]_vars

-----------------------------------------------------------------------------
(* Properties.                                                             *)

Pcs == {"idle", "patch", "reject", "begin", "queue", "finish", "memreboot", "capture",
        "prepared", "profile", "register", "start", "shutdown"} \cup Commands

Currents == [uid : 0 .. MaxOps, phase : Phases \cup {"none"}, boot : 0 .. MaxBoots,
             stage : {"none", "uma", "ttm", "profile", "unverified"}, reboots : 0 .. 2]

Workers == [pc : Pcs, next : Pcs \cup {"end"}, caught : BOOLEAN]

Calls == [pc : {"idle", "delete", "post"}, seen : 0 .. MaxOps, spec : Specs \cup {NoSpec}]

\* Every variable has a value the program can produce.
TypeOK ==
  /\ posted \in [Uids -> Specs \cup {NoSpec}] /\ newest \in 0 .. MaxOps
  /\ op \in [uid : 0 .. MaxOps, phase : Phases \cup {"Pending"}]
  /\ dash \in [Requests -> Calls]
  /\ nodeBoot \in 1 .. MaxBoots /\ boot \in 1 .. MaxBoots
  /\ activation \in {"before", "ours", "other"}
  /\ current \in Currents
  /\ completed \in Seq(Requests) /\ Len(completed) <= HistoryLimit
  /\ approved \in [ServiceActions -> 0 .. MaxOps]
  /\ result \in [ServiceActions -> [req : Requests \cup {NoRequest},
                                    phase : TERMINAL \cup {"none", "Running"}]]
  /\ shutdown \in {"none", "worker", "admin"} /\ late \in BOOLEAN
  /\ queued \in [ServiceActions -> BOOLEAN]
  /\ lock \in ServiceActions \cup {"free"}
  /\ w \in Workers
  /\ ran \in [Uids -> [Effects -> Nat]]

\* "Interrupted execution never automatically repeats": whatever crashes, is
\* lost or fails, an operation has each effect at most once, and a memory
\* change restarts the host at most twice.
Allowed(u, e) ==
  IF e = "shutdown" /\ posted[u].action = "configure-gpu-memory" THEN 2 ELSE 1

AtMostOnce ==
  \A u \in 1 .. newest : \A e \in Effects : ran[u][e] <= Allowed(u, e)

\* Worker.update: "commit local state first, then acknowledge it before any
\* side effect".  When the worker acts, the resource it acts for is still the
\* node's resource and already shows that the operation has begun.
ActsAcknowledged ==
  \A u \in Uids : \A e \in Effects \ {"service"} :
    ran'[u][e] # ran[u][e] => op.uid = u /\ op.phase \notin TERMINAL \cup {"Pending"}

AcknowledgedFirst == [][ActsAcknowledged]_vars

\* create_host_operation: an active operation is not replaced.  Whenever
\* state.json has an unfinished operation, its resource is still there.
OneActive == Active => op.uid = current.uid

\* The consent of a request covers one boot: an operation that waited across
\* a restart never has its first effect on the new boot.  (The activation of
\* a GPU profile is no effect on the host and belongs after the restart.)
ConsentedBoot ==
  [][\A u \in 1 .. newest :
       /\ \A e \in Effects : ran[u][e] = 0
       /\ \E e \in Effects \ {"activate"} : ran'[u][e] # ran[u][e]
       => posted[u].boot = boot]_vars

\* A memory change restarts a second time only after the first restart has
\* been observed, never because the first one seems not to happen.
SecondRestartAfterBoot ==
  [][\A u \in 1 .. newest :
       ran[u]["shutdown"] = 1 /\ ran'[u]["shutdown"] = 2 => boot # posted[u].boot]_vars

\* Once state.json has a terminal phase for an operation, the operation never
\* becomes active again and the worker does nothing more for it.
StaysClosed ==
  current.phase \in TERMINAL /\ current'.uid = current.uid =>
    /\ current'.phase \in TERMINAL
    /\ \A e \in Effects \ {"service"} : ran'[current.uid][e] = ran[current.uid][e]

NoRevival == [][StaysClosed]_vars

-----------------------------------------------------------------------------
(* Liveness.  Timers fire again and again, commands return, the API server *)
(* is not down for ever, and a killed tick is not killed for ever.         *)

Fairness ==
  /\ WF_vars(Tick) /\ WF_vars(Continue) /\ SF_vars(PatchOk)
  /\ SF_vars(EnableGpuProfile(FALSE, TRUE))
  /\ WF_vars(KubeletPublishes) /\ WF_vars(TimePasses)
  /\ \A a \in ServiceActions :
       /\ WF_vars(StartService(a) \/ RefuseService(a))
       /\ WF_vars(\E phase \in {"Succeeded", "Failed", "Interrupted", "RolledBack"},
                     published \in BOOLEAN : FinishService(a, phase, published))

FairSpec == Spec /\ Fairness

OpAnswered(u) == op.uid # u \/ op.phase \in TERMINAL

\* Every operation is answered: its resource reaches a terminal phase, or an
\* administrator has removed it, whatever crashes in between.
Answered == \A u \in Uids : []<>OpAnswered(u)

-----------------------------------------------------------------------------
(* The inductive invariant behind AtMostOnce and AcknowledgedFirst.        *)

\* The point the tick has reached, or will reach with the pending patch.
Point == IF w.pc = "patch" THEN w.next ELSE w.pc

BegunPcs == {"begin", "queue"}

\* Points the tick only reaches once its phase was acknowledged.
AckedPcs == Pcs \ (BegunPcs \cup {"idle", "patch", "reject"})

MemoryPcs == {"carveout", "ttm", "memreboot"}

PreparePcs == {"capture", "packages", "prepared", "profile", "register"}

PhasesOf(a) ==
  CASE a \in PowerActions -> {"RebootScheduled", "PoweroffScheduled"}
    [] a \in LocalActions -> {"Preparing", "Applying"}
    [] a \in ServiceActions -> {"Applying"}
    [] a = "configure-gpu-memory" -> {"Preparing", "RebootScheduled", "Verifying"}
    [] OTHER -> {"Preparing", "RebootScheduled", "Verifying", "Registering"}

\* Only the newest resource can exist; older uids never come back.
Identity ==
  /\ \A u \in 1 .. newest : posted[u] \in Specs
  /\ op.uid \in {0, newest}
  /\ current.uid <= newest
  /\ current.uid = 0 <=> current.phase = "none"
  /\ \A a \in ServiceActions :
       approved[a] <= newest /\ (approved[a] # 0 => posted[approved[a]].action = a)
  /\ \A r \in Requests :
       /\ dash[r].seen <= newest
       /\ dash[r].pc # "idle" => dash[r].spec \in Specs
       /\ dash[r].pc = "delete" => dash[r].seen # 0

\* Which actions lead to a point.
Fits(point) ==
  /\ point \in MemoryPcs => Action = "configure-gpu-memory"
  /\ point \in PreparePcs => Action = "prepare-gpu"
  /\ point \in {"local", "finish"} => Action \in LocalActions
  /\ point \in {"queue", "start"} => Action \in ServiceActions
  /\ point = "shutdown" => Action \in PowerActions \cup {"prepare-gpu", "configure-gpu-memory"}

\* A tick holds the lock, and its point and phase fit its action.
Serial ==
  /\ w.pc # "idle" => lock = "free" /\ current.uid # 0
  /\ w.pc = "patch" => w.next \in AckedPcs \cup {"end"}
  /\ current.uid # 0 => current.phase \in TERMINAL \cup {"Accepted"} \cup PhasesOf(Action)
  /\ Fits(Point)

\* What the status of the resource tells about the tick.
Acknowledged ==
  /\ w.pc \in AckedPcs => op.uid = current.uid /\ op.phase \notin TERMINAL \cup {"Pending"}
  /\ w.pc \in BegunPcs => op.uid = current.uid /\ op.phase = "Pending"
  /\ w.pc \in BegunPcs \cup {"reject"} => current.phase = "Accepted"
  /\ Point \in AckedPcs => current.phase \notin TERMINAL \cup {"none", "Accepted"}
  /\ (op.uid # 0 /\ op.uid = current.uid /\ op.phase \in TERMINAL) =>
       /\ current.phase \in TERMINAL \cup {"Applying", "Accepted"}
       /\ w.pc = "patch" => current.phase \in TERMINAL
  /\ \A r \in Requests :
       dash[r].pc = "delete" /\ dash[r].seen = op.uid => op.phase \in TERMINAL
  /\ (/\ op.uid # 0 /\ op.uid = current.uid
      /\ current.phase \in {"RebootScheduled", "Verifying", "Registering"}
      /\ Action \in {"prepare-gpu", "configure-gpu-memory"}) => op.phase # "Pending"

Count(e) == ran[current.uid][e]

Stages == {"Preparing", "RebootScheduled", "Verifying", "Registering"}

\* What has not happened yet to the operation in progress.
Counts ==
  /\ \A u \in Uids : \A e \in Effects : u > newest => ran[u][e] = 0
  /\ op.uid # 0 /\ op.phase = "Pending" =>
       \A e \in Effects \ {"service"} : ran[op.uid][e] = 0
  /\ \A e \in {"carveout", "ttm", "local", "start"} : Point = e => Count(e) = 0
  /\ Point \in {"capture", "packages"} => Count("packages") = 0
  /\ Point = "capture" => Count("activate") = 0
  /\ Point \in {"capture", "packages", "prepared"} => Count("shutdown") = 0
  /\ Point = "shutdown" /\ Action # "configure-gpu-memory" => Count("shutdown") = 0
  /\ current.phase \in Stages /\ Action = "configure-gpu-memory" =>
       /\ Count("shutdown") <= current.reboots
       /\ Point = "shutdown" => Count("shutdown") < current.reboots
       /\ Point = "ttm" \/ Count("ttm") > 0 => current.stage = "ttm"
  /\ current.phase \in Stages /\ Action = "prepare-gpu" =>
       (Count("activate") > 0 => activation # "before")

\* A service that ran an approval will not run the same one again.
ServiceOnce ==
  \A u \in 1 .. newest :
    ran[u]["service"] > 0 =>
    LET a == posted[u].action
    IN  /\ a \in ServiceActions
        /\ IF a = "configure-network"
           THEN /\ approved[a] = u => lock = a
                /\ op.uid = u => op.phase # "Pending"
           ELSE /\ approved[a] >= u
                /\ approved[a] = u => result[a].req = posted[u].req

\* Everything an operation did follows from what its files and status say.
Inv == TypeOK /\ Identity /\ Serial /\ Acknowledged /\ Counts /\ ServiceOnce /\ AtMostOnce

-----------------------------------------------------------------------------
(* The invariants behind OneActive, ConsentedBoot and SecondRestartAfterBoot. *)

IsTrial == current.uid # 0 /\ Action = "configure-network"

\* As long as state.json is not lost, only the trial of a network, which
\* reports its result by itself, is replaced before the worker has closed it.
NotReplaced ==
  /\ Active => op.uid = current.uid \/ IsTrial
  /\ op.uid \notin {0, current.uid} => op.phase = "Pending"
  /\ op.uid # 0 /\ op.uid = current.uid /\ op.phase \in TERMINAL => current.phase \in TERMINAL \/ IsTrial
  /\ \A a \in ServiceActions : approved[a] <= current.uid

\* Points that come before any effect of an operation.
FirstPcs == {"begin", "queue", "start", "local", "carveout", "capture", "packages", "prepared"}

Touched == \E e \in Effects : Count(e) > 0

\* What may have its first effect was asked for on this boot.
OnConsentedBoot ==
  /\ Point \in FirstPcs => posted[current.uid].boot = boot
  /\ Point \in {"ttm", "memreboot", "shutdown"} => posted[current.uid].boot = boot \/ Touched
  /\ Point = "memreboot" => Touched
  /\ current.phase \in {"RebootScheduled", "Verifying"} /\ Action = "configure-gpu-memory" => Touched
  /\ Point \in {"queue", "start"} => approved[Action] = current.uid
  /\ \A a \in ServiceActions : queued[a] /\ approved[a] # 0 => posted[approved[a]].boot = boot

\* A memory change that goes on after a restart has seen a later boot.
Begun == current.phase \in PhasesOf(Action) \/ w.pc \in BegunPcs

RestartSeen ==
  /\ current.boot <= boot
  /\ current.uid # 0 /\ Begun => posted[current.uid].boot <= current.boot
  /\ current.uid # 0 /\ Action = "configure-gpu-memory" =>
       /\ current.phase = "Verifying" => posted[current.uid].boot < current.boot
       /\ Point \in MemoryPcs \cup {"shutdown"} /\ Count("shutdown") > 0 => posted[current.uid].boot < boot
=============================================================================

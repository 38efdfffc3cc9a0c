---------------------------- MODULE NetworkTrial ----------------------------
(***************************************************************************)
(* The network trial (network_apply.py): a root service replaces the       *)
(* Netplan files by the reviewed configuration, waits for an administrator *)
(* to confirm it, and restores the previous files otherwise.  ExecStopPost *)
(* and an early boot service repeat the restoration after a failure.       *)
(*                                                                         *)
(* A file content is a number: None for no file, Original for what the     *)
(* installation wrote, Foreign for what a local administrator wrote, and n *)
(* for the configuration of the n-th trial.                                *)
(***************************************************************************)
EXTENDS Integers

CONSTANTS
  Originals,   \* names of the Netplan files the installation wrote
  MaxTrials,   \* bound: trials approved
  MaxBoots,    \* bound: boots of the host
  Faults       \* which of the rare faults happen, a subset of AllFaults

Managed == "90-magicstick-network.yaml"

Names == Originals \cup {Managed}

\* "disk": a write of network-trial.json fails.  "recovery": the restoration
\* itself fails or is killed.  "foreign": somebody adds a file during a trial.
AllFaults == {"disk", "recovery", "foreign"}

ASSUME TrialAssumption ==
  /\ Managed \notin Originals
  /\ MaxTrials \in Nat /\ MaxBoots \in Nat
  /\ Faults \subseteq AllFaults

None == 0
Original == -1
Foreign == -2

\* The files of a new installation.
First == [n \in Names |-> IF n \in Originals THEN Original ELSE None]

VARIABLES
  files,      \* /etc/netplan: the content of each name
  extra,      \* whether there is a file the snapshot of the last trial lacks
  running,    \* the contents the network backend was last configured from
  saved,      \* network-trial.json: [n, phase, changed, backup]
  mem,        \* the trial record of the running process
  p,          \* the running process: [kind, pc, todo]
  approved,   \* approved-network.json: the trial it allows, or 0
  queued,     \* whether systemd holds a start job of the service
  newest,     \* trials approved so far
  status,     \* phase on the HostOperation of the newest trial
  confirmed,  \* the trial its confirmation annotation names, or 0
  late,       \* the 180 s of the trial are over
  boots       \* boots so far

processVars == <<mem, p>>
jobVars == <<approved, queued>>
resourceVars == <<newest, status, confirmed>>
hostVars == <<extra, running, boots>>
vars == <<files, extra, running, saved, mem, p, approved, queued, newest, status, confirmed, late, boots>>

NoBackup == [n \in Names |-> None]

NoTrial == [n |-> 0, phase |-> "none", changed |-> FALSE, backup |-> NoBackup]

NoProcess == [kind |-> "none", pc |-> "none", todo |-> {}]

Recover(kind) == [kind |-> kind, pc |-> "read", todo |-> {}]

\* Fault: a kept trial does not count as resolved.
Undone == {"RolledBack", "Failed"}

Done == {"Succeeded", "RolledBack", "Failed"}

Active == {"Applying", "AwaitingConfirmation"}

Init ==
  /\ files = First
  /\ running = files /\ extra = FALSE
  /\ saved = NoTrial /\ mem = NoTrial /\ p = NoProcess
  /\ approved = 0 /\ queued = FALSE /\ newest = 0 /\ status = "none" /\ confirmed = 0
  /\ late = FALSE /\ boots = 0

Goto(pc) == p' = [p EXCEPT !.pc = pc]

At(kind, pc) == p.kind = kind /\ p.pc = pc

-----------------------------------------------------------------------------
(* The parts of host_worker.py and of the dashboard that deal with a trial. *)

\* begin_network: not while an earlier trial waits for recovery.
Approve ==
  /\ p.kind = "none" /\ saved.phase \notin Active
  /\ newest < MaxTrials /\ status \notin Active
  /\ newest' = newest + 1 /\ approved' = newest + 1 /\ queued' = TRUE
  /\ status' = "Applying" /\ confirmed' = 0
  /\ UNCHANGED <<files, saved, processVars, hostVars, late>>

\* reconcile_network: the saved result, or Interrupted when none came in time.
\* It needs maintenance.lock, which a recovery that waits to run does not hold.
WorkerReports ==
  /\ p.kind = "none" \/ p.pc = "read"
  /\ status \in Active
  /\ status' = IF saved.n = newest /\ saved.phase \in Done THEN saved.phase ELSE "Interrupted"
  /\ UNCHANGED <<files, saved, processVars, hostVars, jobVars, newest, confirmed, late>>

\* confirm_host_network: a trial that awaits it, before its deadline.
Confirm ==
  /\ status = "AwaitingConfirmation" /\ ~late
  /\ confirmed' = newest
  /\ UNCHANGED <<files, saved, processVars, hostVars, jobVars, newest, status, late>>

-----------------------------------------------------------------------------
(* Writing network-trial.json, and what an exception leads to.             *)

\* Inside the try block an exception leads to restore; elsewhere the process
\* ends and systemd runs ExecStopPost, which has nothing behind it.
InTry == {"publish", "mark", "write", "unlink", "generate", "apply", "await"}

Raised ==
  IF p.kind = "apply"
  THEN IF p.pc \in InTry THEN [p EXCEPT !.pc = "restore"] ELSE Recover("stop")
  ELSE NoProcess

Raise ==
  /\ p' = Raised
  /\ mem' = IF p'.kind = p.kind THEN mem ELSE NoTrial
  /\ running' = IF p.kind = "boot" THEN files ELSE running

\* The record changes in memory first; the write of the file may fail.
Record(trial, pc) ==
  \/ /\ mem' = trial /\ saved' = trial /\ Goto(pc)
     /\ UNCHANGED running
  \/ /\ "disk" \in Faults
     /\ p' = Raised
     /\ mem' = IF p'.kind = p.kind THEN trial ELSE NoTrial
     /\ running' = IF p.kind = "boot" THEN files ELSE running
     /\ UNCHANGED saved

-----------------------------------------------------------------------------
(* apply.                                                                  *)

\* The approval is a minute old at most, host and resource are the reviewed
\* ones; the snapshot of the files is part of the record.
StartApply ==
  /\ p.kind = "none" /\ queued
  /\ approved # 0 /\ approved = newest /\ status = "Applying"
  /\ queued' = FALSE
  /\ p' = [kind |-> "apply", pc |-> "save", todo |-> {}]
  /\ UNCHANGED <<files, hostVars, saved, mem, approved, resourceVars, late>>

\* A check failed: the unit fails and its ExecStopPost runs.
RefuseApply ==
  /\ p.kind = "none" /\ queued
  /\ queued' = FALSE
  /\ p' = Recover("stop")
  /\ UNCHANGED <<files, hostVars, saved, mem, approved, resourceVars, late>>

\* The snapshot holds every file there is.
SaveTrial ==
  /\ At("apply", "save")
  /\ Record([n |-> approved, phase |-> "Applying", changed |-> FALSE, backup |-> files], "publish")
  /\ extra' = FALSE
  /\ UNCHANGED <<files, boots, jobVars, resourceVars, late>>

PublishTrial ==
  /\ At("apply", "publish")
  /\ newest = mem.n /\ status' = mem.phase
  /\ Goto("mark")
  /\ UNCHANGED <<files, hostVars, saved, mem, jobVars, newest, confirmed, late>>

\* Fault: the mark is not written before the first file is.
MarkInMemory ==
  /\ At("apply", "mark")
  /\ mem' = [mem EXCEPT !.changed = TRUE] /\ Goto("write")
  /\ UNCHANGED <<files, hostVars, saved, jobVars, resourceVars, late>>

\* "changed" is on disk before the first file is.
MarkChanged ==
  /\ At("apply", "mark")
  /\ Record([mem EXCEPT !.changed = TRUE], "write")
  /\ UNCHANGED <<files, extra, boots, jobVars, resourceVars, late>>

WriteManaged ==
  /\ At("apply", "write")
  /\ files' = [files EXCEPT ![Managed] = mem.n]
  /\ p' = [p EXCEPT !.pc = "unlink", !.todo = {n \in Originals : mem.backup[n] # None}]
  /\ UNCHANGED <<hostVars, saved, mem, jobVars, resourceVars, late>>

UnlinkOriginal ==
  /\ At("apply", "unlink") /\ p.todo # {}
  /\ \E n \in p.todo :
       /\ files' = [files EXCEPT ![n] = None]
       /\ p' = [p EXCEPT !.todo = @ \ {n}]
  /\ UNCHANGED <<hostVars, saved, mem, jobVars, resourceVars, late>>

Unlinked ==
  /\ At("apply", "unlink") /\ p.todo = {}
  /\ Goto("generate")
  /\ UNCHANGED <<files, hostVars, saved, mem, jobVars, resourceVars, late>>

\* netplan generate and netplan apply; a failed apply may have had its effect.
Generate ==
  /\ At("apply", "generate")
  /\ Goto("apply") /\ late' = FALSE
  /\ UNCHANGED <<files, hostVars, saved, mem, jobVars, resourceVars>>

Apply ==
  /\ At("apply", "apply")
  /\ running' = files
  /\ Goto("await") \/ Goto("restore")
  /\ UNCHANGED <<files, extra, boots, saved, mem, jobVars, resourceVars, late>>

AwaitConfirmation ==
  /\ At("apply", "await")
  /\ Record([mem EXCEPT !.phase = "AwaitingConfirmation"], "loop")
  /\ UNCHANGED <<files, extra, boots, jobVars, resourceVars, late>>

\* One round of the loop; without the API it changes nothing.
PublishWaiting ==
  /\ At("apply", "loop")
  /\ newest = mem.n /\ status' = mem.phase
  /\ UNCHANGED <<files, hostVars, saved, processVars, jobVars, newest, confirmed, late>>

\* Fault: the result is published without having been recorded.
KeepUnrecorded ==
  /\ At("apply", "loop") /\ ~late
  /\ newest = mem.n /\ confirmed = mem.n /\ files[Managed] = mem.n
  /\ mem' = [mem EXCEPT !.phase = "Succeeded", !.backup = NoBackup]
  /\ Goto("restore")
  /\ UNCHANGED <<files, hostVars, saved, jobVars, resourceVars, late>>

\* The annotation names this trial, the interface works, the file is ours.
\* A failed write is swallowed and the loop goes on with the new record.
Keep ==
  /\ At("apply", "loop") /\ ~late
  /\ newest = mem.n /\ confirmed = mem.n /\ files[Managed] = mem.n
  /\ mem' = [mem EXCEPT !.phase = "Succeeded", !.backup = NoBackup]
  /\ \/ saved' = mem' /\ Goto("restore")
     \/ "disk" \in Faults /\ UNCHANGED <<saved, p>>
  /\ UNCHANGED <<files, hostVars, jobVars, resourceVars, late>>

\* Fault: the deadline is not looked at, only what the API answers.
LeaveLoopAnswered ==
  /\ At("apply", "loop")
  /\ newest # mem.n
  /\ Goto("restore")
  /\ UNCHANGED <<files, hostVars, saved, mem, jobVars, resourceVars, late>>

\* The deadline, or a resource that belongs to somebody else.
LeaveLoop ==
  /\ At("apply", "loop")
  /\ late \/ newest # mem.n
  /\ Goto("restore")
  /\ UNCHANGED <<files, hostVars, saved, mem, jobVars, resourceVars, late>>

-----------------------------------------------------------------------------
(* restore, shared by apply (its finally block) and recover.               *)

Restoring == {"restore", "unmanage", "rewrite", "regenerate", "reapply", "record"}

RestoreDecides ==
  /\ p.pc = "restore"
  /\ IF mem.phase \in Done THEN Goto("cleanup") /\ UNCHANGED <<mem, saved, running>>
     ELSE IF ~mem.changed THEN
       Record([mem EXCEPT !.phase = "Failed", !.backup = NoBackup], "cleanup")
     ELSE IF extra THEN Raise /\ UNCHANGED saved
     ELSE Goto("unmanage") /\ UNCHANGED <<mem, saved, running>>
  /\ UNCHANGED <<files, extra, boots, jobVars, resourceVars, late>>

UnlinkManaged ==
  /\ p.pc = "unmanage"
  /\ files' = [files EXCEPT ![Managed] = None]
  /\ p' = [p EXCEPT !.pc = "rewrite", !.todo = {n \in Names : mem.backup[n] # None}]
  /\ UNCHANGED <<hostVars, saved, mem, jobVars, resourceVars, late>>

RewriteFile ==
  /\ p.pc = "rewrite" /\ p.todo # {}
  /\ \E n \in p.todo :
       /\ files' = [files EXCEPT ![n] = mem.backup[n]]
       /\ p' = [p EXCEPT !.todo = @ \ {n}]
  /\ UNCHANGED <<hostVars, saved, mem, jobVars, resourceVars, late>>

Rewritten ==
  /\ p.pc = "rewrite" /\ p.todo = {}
  /\ Goto("regenerate")
  /\ UNCHANGED <<files, hostVars, saved, mem, jobVars, resourceVars, late>>

\* Fault: the files are restored but not applied.
RegenerateOnly ==
  /\ p.pc = "regenerate"
  /\ Goto("record")
  /\ UNCHANGED <<files, hostVars, saved, mem, jobVars, resourceVars, late>>

\* At boot the network services have not started yet.
Regenerate ==
  /\ p.pc = "regenerate"
  /\ Goto(IF p.kind = "boot" THEN "record" ELSE "reapply")
  /\ UNCHANGED <<files, hostVars, saved, mem, jobVars, resourceVars, late>>

Reapply ==
  /\ p.pc = "reapply"
  /\ running' = files
  /\ Goto("record")
  /\ UNCHANGED <<files, extra, boots, saved, mem, jobVars, resourceVars, late>>

RecordRestored ==
  /\ p.pc = "record"
  /\ Record([mem EXCEPT !.phase = "RolledBack", !.backup = NoBackup], "cleanup")
  /\ UNCHANGED <<files, extra, boots, jobVars, resourceVars, late>>

\* apply removes the approval, then publishes; recover the other way round.
Cleanup ==
  /\ p.pc = "cleanup" /\ p.kind # "boot"
  /\ \/ newest = mem.n /\ status' = mem.phase
     \/ UNCHANGED status                         \* best effort
  /\ approved' = 0
  /\ p' = IF p.kind = "apply" THEN Recover("stop") ELSE NoProcess
  /\ mem' = NoTrial
  /\ UNCHANGED <<files, hostVars, saved, queued, newest, confirmed, late>>

BootCleanup ==
  /\ At("boot", "cleanup")
  /\ approved' = 0 /\ p' = NoProcess /\ mem' = NoTrial
  /\ running' = files
  /\ UNCHANGED <<files, extra, boots, saved, queued, resourceVars, late>>

ReadTrial ==
  /\ p.pc = "read"
  /\ mem' = saved
  /\ Goto(IF saved.phase \notin Done \cup {"none"} THEN "restore" ELSE "cleanup")
  /\ UNCHANGED <<files, hostVars, saved, jobVars, resourceVars, late>>

-----------------------------------------------------------------------------
(* The environment.                                                        *)

\* A command of apply fails, or SIGTERM raises in it.  In the loop the same
\* exception is swallowed unless it hits the pause between two rounds.
Interrupt ==
  /\ p.kind = "apply" /\ p.pc \notin Restoring \cup {"cleanup"}
  /\ IF p.pc = "loop" THEN Goto("restore") /\ UNCHANGED <<mem, running>> ELSE Raise
  /\ UNCHANGED <<files, extra, boots, saved, jobVars, resourceVars, late>>

\* The process fails or is stopped while it restores, or is killed outright.
Killed ==
  /\ p.kind # "none"
  /\ p.kind # "apply" => "recovery" \in Faults
  /\ p' = IF p.kind = "apply" THEN Recover("stop") ELSE NoProcess
  /\ mem' = NoTrial
  /\ running' = IF p.kind = "boot" THEN files ELSE running
  /\ UNCHANGED <<files, extra, boots, saved, jobVars, resourceVars, late>>

\* The boot service runs before the network services read the files.
Reboot ==
  /\ boots < MaxBoots /\ boots' = boots + 1
  /\ mem' = NoTrial /\ queued' = FALSE
  /\ IF saved.phase = "none"
     THEN p' = NoProcess /\ running' = files
     ELSE p' = Recover("boot") /\ UNCHANGED running
  /\ UNCHANGED <<files, extra, saved, approved, resourceVars, late>>

Deadline ==
  /\ ~late /\ p.kind = "apply" /\ p.pc \in {"apply", "await", "loop"}
  /\ late' = TRUE
  /\ UNCHANGED <<files, hostVars, saved, processVars, jobVars, resourceVars>>

\* A local administrator adds a file during a trial or removes it, and
\* changes or adds the others between trials.
AdminFile ==
  /\ "foreign" \in Faults
  /\ extra' = ~extra
  /\ UNCHANGED <<files, running, boots, saved, processVars, jobVars, resourceVars, late>>

AdminEdit ==
  /\ p.kind = "none" /\ saved.phase \notin Active
  /\ \E n \in Names : files[n] # Foreign /\ files' = [files EXCEPT ![n] = Foreign]
  /\ running' = files'
  /\ UNCHANGED <<extra, boots, saved, processVars, jobVars, resourceVars, late>>

-----------------------------------------------------------------------------
Service ==
  \/ SaveTrial \/ PublishTrial \/ MarkChanged \/ WriteManaged \/ UnlinkOriginal \/ Unlinked \/ Generate
  \/ Apply \/ AwaitConfirmation \/ PublishWaiting \/ Keep \/ LeaveLoop

Restore ==
  \/ ReadTrial \/ RestoreDecides \/ UnlinkManaged \/ RewriteFile \/ Rewritten \/ Regenerate
  \/ Reapply \/ RecordRestored \/ Cleanup \/ BootCleanup

Next ==
  \/ Approve \/ WorkerReports \/ Confirm
  \/ StartApply \/ RefuseApply \/ Service \/ Restore
  \/ Interrupt \/ Killed \/ Reboot \/ Deadline \/ AdminFile \/ AdminEdit

Spec == Init /\ [][Next]_vars

\* The steps of the service succeed or raise, its recovery runs to its end,
\* time passes, and systemd starts what is queued.  Nobody has to stop the loop.
Fairness ==
  /\ WF_vars(Service \/ (Interrupt /\ p.pc # "loop")) /\ WF_vars(Restore)
  /\ WF_vars(StartApply \/ RefuseApply) /\ WF_vars(Deadline) /\ WF_vars(LeaveLoop)

FairSpec == Spec /\ Fairness

-----------------------------------------------------------------------------
(* Properties.                                                             *)

Records == [n : 0 .. MaxTrials, phase : {"none"} \cup Active \cup Done, changed : BOOLEAN,
            backup : [Names -> Int]]

Processes == [kind : {"none", "apply", "stop", "boot"},
              pc : {"none", "save", "read", "loop", "cleanup"} \cup InTry \cup Restoring,
              todo : SUBSET Names]

\* Every variable has a value the program can produce.
TypeOK ==
  /\ files \in [Names -> Int] /\ running \in [Names -> Int] /\ extra \in BOOLEAN
  /\ saved \in Records /\ mem \in Records /\ p \in Processes
  /\ approved \in 0 .. MaxTrials /\ queued \in BOOLEAN
  /\ newest \in 0 .. MaxTrials /\ confirmed \in 0 .. MaxTrials
  /\ status \in {"none", "Interrupted"} \cup Active \cup Done
  /\ late \in BOOLEAN /\ boots \in 0 .. MaxBoots

\* The configuration that survives whatever happens from now on: the backup
\* while a trial is unresolved, the files otherwise.
Surviving == IF saved.phase \in Active /\ saved.changed THEN saved.backup ELSE files

\* "The service keeps rollback state on disk before touching Netplan": seen
\* through Surviving, a trial changes the configuration in one step, and only
\* after an administrator has confirmed it.
Commit == INSTANCE TrialCommit WITH config <- Surviving

AtomicChange == Commit!Spec

\* When no process is at work and no trial is unresolved, the network runs
\* from the files that are there: no rollback stops half way between them.
RunningMatches == p.kind = "none" /\ saved.phase \notin Active => running = files

\* A final phase on the resource is the one recorded on disk.
StatusTrue == status \in Done => saved.n = newest /\ saved.phase = status

\* restore: "Network trial stopped before any configuration was changed".
FailedUnchanged ==
  [][saved.phase \in Active /\ saved'.phase = "Failed" => files' = saved.backup]_vars

\* A configuration that is recorded as kept stays: no recovery after a crash,
\* a reboot or a full disk touches its files.
KeptStays ==
  [][saved.phase = "Succeeded" /\ saved' = saved /\ p.kind # "none" => files' = files]_vars

\* Every trial ends with a recorded result, whoever fails to confirm it and
\* whatever kills the service: "the local deadline works without API".
Resolved == (saved.phase \in Active) ~> (saved.phase \notin Active)

-----------------------------------------------------------------------------
(* The inductive invariant, for a disk that does not fail.                 *)

New(n) == [name \in Names |-> IF name = Managed THEN n ELSE None]

RecoverPcs == {"read", "cleanup"} \cup Restoring

\* Which process can be where.
Places ==
  /\ p.kind = "none" <=> p.pc = "none"
  /\ p.kind = "apply" => p.pc # "read"
  /\ p.kind \in {"stop", "boot"} => p.pc \in RecoverPcs
  /\ p.pc = "reapply" => p.kind # "boot"

\* The record in memory is the one on disk, except before the first write.
Mirror == p.pc \notin {"none", "save", "read"} => mem = saved

\* The record belongs to the resource the service was started for.
Identity ==
  /\ p.pc = "save" => /\ approved = newest /\ newest # 0 /\ status = "Applying"
                      /\ saved.phase \notin Active
  /\ saved.phase \in Active => saved.n # 0
  /\ queued => p.kind = "none" /\ saved.phase \notin Active

\* What the service has done to the files at each point.
Progress ==
  /\ p.pc \in InTry => saved.phase = "Applying" /\ (saved.changed <=> p.pc \notin {"publish", "mark"})
  /\ p.pc = "write" => files = saved.backup
  /\ p.pc = "unlink" =>
       /\ p.todo \subseteq Originals /\ files[Managed] = saved.n
       /\ \A n \in Originals \ p.todo : files[n] = None
  /\ p.pc \in {"generate", "apply", "await", "loop"} => files = New(saved.n)
  /\ p.pc \in {"await", "loop"} => running = files
  /\ p.pc = "loop" => saved.phase = "AwaitingConfirmation" /\ saved.changed
  /\ p.pc = "restore" => saved.phase # "none"
  /\ p.pc \in Restoring \ {"restore"} => saved.phase \in Active /\ saved.changed
  /\ p.pc = "rewrite" => \A n \in Names \ p.todo : files[n] = saved.backup[n]
  /\ p.pc \in {"regenerate", "reapply", "record"} => files = saved.backup
  /\ p.pc = "record" /\ p.kind # "boot" => running = files
  /\ p.pc = "cleanup" => saved.phase \notin Active

\* What the record tells about the files, whatever was interrupted.
Restorable ==
  /\ saved.phase \in Active /\ ~saved.changed => files = saved.backup
  /\ saved.phase \in Active =>
       \A n \in Originals : saved.backup[n] = None => files[n] = None
  /\ p.kind # "boot" /\ ~(saved.phase \in Active /\ saved.changed) => running = files

\* A trial can be undone from its record at every moment.
Inv == TypeOK /\ Places /\ Mirror /\ Identity /\ Progress /\ Restorable /\ StatusTrue
=============================================================================

--------------------------- MODULE SoftwareChannel ---------------------------
(***************************************************************************)
(* Changing the software channel of an appliance: software_channel.py (a   *)
(* check, an apply, the local recovery) and the runner it shares with the  *)
(* 15-minute timer (ai-appliance-converge), which fetches the selected     *)
(* commit, installs the host parts of it and points Flux at it.            *)
(*                                                                         *)
(* The repository has one branch and one tag.  A selection is a record     *)
(* [kind, commit]: commit is the selected commit, the approved commit of a *)
(* tag, or 0 for a branch.  p is the process that holds maintenance.lock,  *)
(* which all of them take for their whole run.                             *)
(***************************************************************************)
EXTENDS Integers

CONSTANTS
  MaxCommits,    \* bound: commits ever published
  MaxRequests,   \* bound: checks and applies requested
  Shutdowns      \* whether a shutdown can be scheduled at the console

ASSUME ChannelAssumption ==
  /\ MaxCommits \in Nat \ {0}
  /\ MaxRequests \in Nat
  /\ Shutdowns \in BOOLEAN

VARIABLES
  commits,    \* commits published so far
  upstream,   \* the commit the branch and the tag point at
  meta,       \* /etc/default/ai-appliance-repo: the selection
  checkout,   \* HEAD of the host checkout
  code,       \* commits that installed [runner, base]: ai-appliance-converge
              \* and /usr/local/lib/magicstick/host-management
  flux,       \* [target, applied]: the commit Flux was given and has applied
  preview,    \* software-preview.json: [sel, commit, meta, at]
  request,    \* approved-software.json: [n, action, sel, meta, preview]
  startJob,     \* whether systemd holds a start job of the service
  oper,       \* software-operation.json: [n, phase]
  blocked,    \* whether software-blocked.json exists
  snap,       \* software-recovery and software-previous.json: [code, meta, commit]
  p,          \* the process: [kind, pc, target]
  shutdownSet    \* whether a shutdown is scheduled

sourceVars == <<commits, upstream>>
installed == <<checkout, code, flux>>
requestVars == <<preview, request, startJob, oper>>
channelVars == <<sourceVars, installed, requestVars, meta, blocked, snap, p, shutdownSet>>

Branch == [kind |-> "branch", commit |-> 0]
Tag == [kind |-> "tag", commit |-> 0]
Pin(c) == [kind |-> "commit", commit |-> c]
NoSelection == [kind |-> "none", commit |-> 0]

NoPreview == [sel |-> NoSelection, commit |-> 0, meta |-> NoSelection, at |-> 0]

NoChannelRequest == [n |-> 0, action |-> "none", sel |-> NoSelection, meta |-> NoSelection,
              preview |-> NoPreview]

Code(c) == [runner |-> c, base |-> c]

Torn == Code(0)              \* a copy that has begun and not ended

NoSnapshot == [code |-> Torn, meta |-> NoSelection, commit |-> 0]

NoProcess == [kind |-> "none", pc |-> "none", target |-> 0]

\* An installed appliance that follows the branch.
AsInstalled ==
  /\ commits = 1 /\ upstream = [branch |-> 1, tag |-> 1]
  /\ meta = Branch /\ checkout = 1 /\ code = Code(1)
  /\ flux = [target |-> 1, applied |-> 1]
  /\ preview = NoPreview /\ request = NoChannelRequest /\ startJob = FALSE
  /\ oper = [n |-> 0, phase |-> "none"]
  /\ blocked = FALSE /\ snap = NoSnapshot /\ shutdownSet = FALSE

ChannelInit == AsInstalled /\ p = NoProcess

At(kind, pc) == p.kind = kind /\ p.pc = pc

Proceed(pc) == p' = [p EXCEPT !.pc = pc]

\* git resolves the selection.
Resolve(sel) == IF sel.kind = "commit" THEN sel.commit ELSE upstream[sel.kind]

\* The channels of two selections agree, whatever commit a tag is approved at.
SameChannel(a, b) == a.kind = b.kind /\ (a.kind = "commit" => a.commit = b.commit)

\* The selected tag no longer points at its approved commit.
TagMoved(c) == meta.kind = "tag" /\ meta.commit # 0 /\ c # meta.commit

-----------------------------------------------------------------------------
(* Requests.                                                               *)

\* software_contract.validate_request: the configuration and the preview are
\* the reviewed ones, and there is something to change.
ValidChannelRequest(r) ==
  /\ r.meta = meta
  /\ r.action = "apply" =>
       /\ preview # NoPreview /\ r.preview = preview
       /\ preview.meta = meta /\ SameChannel(preview.sel, r.sel)
       /\ ~(SameChannel(r.sel, meta) /\ preview.commit = checkout /\ ~blocked)

\* Worker.begin_software: validated, written for the service, and queued.  A
\* service that still waits for the lock finds the newer request.
Ask(action, sel) ==
  /\ p.kind = "none" /\ request.n < MaxRequests
  /\ LET r == [n |-> request.n + 1, action |-> action, sel |-> sel, meta |-> meta,
               preview |-> preview]
     IN  ValidChannelRequest(r) /\ request' = r
  /\ startJob' = TRUE
  /\ UNCHANGED <<sourceVars, installed, preview, oper, meta, blocked, snap, p, shutdownSet>>

\* The unit is started once more by hand.
StartAgain ==
  /\ ~startJob /\ request.n # 0
  /\ startJob' = TRUE
  /\ UNCHANGED <<sourceVars, installed, preview, request, oper, meta, blocked, snap, p, shutdownSet>>

StartRun ==
  /\ p.kind = "none" /\ startJob
  /\ oper.n # request.n /\ ValidChannelRequest(request)
  /\ startJob' = FALSE
  /\ oper' = [n |-> request.n, phase |-> "Applying"]
  /\ p' = [kind |-> "run", pc |-> IF request.action = "check" THEN "drop" ELSE "preview", target |-> 0]
  /\ UNCHANGED <<sourceVars, installed, preview, request, meta, blocked, snap, shutdownSet>>

\* Expired, processed before, or no longer valid.
RefuseRun ==
  /\ p.kind = "none" /\ startJob
  /\ startJob' = FALSE
  /\ UNCHANGED <<sourceVars, installed, preview, request, oper, meta, blocked, snap, p, shutdownSet>>

-----------------------------------------------------------------------------
(* execute: a check, or the steps of an apply before the runner starts.    *)

DropPreview ==
  /\ At("run", "drop")
  /\ preview' = NoPreview /\ Proceed("preview")
  /\ UNCHANGED <<sourceVars, installed, request, startJob, oper, meta, blocked, snap, shutdownSet>>

\* Fault: a retry takes a new snapshot.
PreviewBackup ==
  /\ At("run", "preview")
  /\ LET c == Resolve(request.sel)
     IN  /\ ~(SameChannel(request.sel, meta) /\ TagMoved(c))
         /\ preview' = [sel |-> request.sel, commit |-> c, meta |-> meta, at |-> request.n]
         /\ IF request.action = "check" THEN Proceed("done") /\ UNCHANGED oper
            ELSE IF c # request.preview.commit
            THEN p' = NoProcess /\ oper' = [oper EXCEPT !.phase = "Failed"]
            ELSE p' = [p EXCEPT !.pc = "backup", !.target = c] /\ UNCHANGED oper
  /\ UNCHANGED <<sourceVars, installed, request, startJob, meta, blocked, snap, shutdownSet>>

\* preview: fetched, inspected and saved.  An apply goes on only with the
\* reviewed commit; a retry keeps the recovery snapshot it finds.
Preview ==
  /\ At("run", "preview")
  /\ LET c == Resolve(request.sel)
     IN  /\ ~(SameChannel(request.sel, meta) /\ TagMoved(c))
         /\ preview' = [sel |-> request.sel, commit |-> c, meta |-> meta, at |-> request.n]
         /\ IF request.action = "check" THEN Proceed("done") /\ UNCHANGED oper
            ELSE IF c # request.preview.commit \/ (blocked /\ snap.commit = 0)
            THEN p' = NoProcess /\ oper' = [oper EXCEPT !.phase = "Failed"]
            ELSE /\ p' = [kind |-> "run", pc |-> IF blocked THEN "block" ELSE "backup", target |-> c]
                 /\ UNCHANGED oper
  /\ UNCHANGED <<sourceVars, installed, request, startJob, meta, blocked, snap, shutdownSet>>

\* backup: the files are copied in place, then metadata and commit replaced.
Backup ==
  /\ \/ At("run", "backup") /\ snap' = [snap EXCEPT !.code = Torn] /\ Proceed("copy")
     \/ At("run", "copy") /\ snap' = [snap EXCEPT !.code = code] /\ Proceed("keepmeta")
     \/ At("run", "keepmeta") /\ snap' = [snap EXCEPT !.meta = meta] /\ Proceed("keepcommit")
     \/ At("run", "keepcommit") /\ snap' = [snap EXCEPT !.commit = checkout] /\ Proceed("block")
  /\ UNCHANGED <<sourceVars, installed, requestVars, meta, blocked, shutdownSet>>

Block ==
  /\ p.pc = "block"
  /\ blocked' = TRUE
  /\ Proceed(IF p.kind = "run" THEN "select" ELSE "restore")
  /\ UNCHANGED <<sourceVars, installed, requestVars, meta, snap, shutdownSet>>

\* rollback puts the saved metadata back before it pins the commit.
RestoreMetadata ==
  /\ At("rollback", "restore")
  /\ meta' = snap.meta /\ Proceed("select")
  /\ UNCHANGED <<sourceVars, installed, requestVars, blocked, snap, shutdownSet>>

\* save_selection: a tag is saved with the commit it was approved at.
SaveSelection ==
  /\ p.pc = "select"
  /\ meta' = IF p.kind = "rollback" THEN Pin(p.target)
             ELSE IF request.sel.kind = "tag" THEN [request.sel EXCEPT !.commit = p.target]
             ELSE request.sel
  /\ Proceed("converge")
  /\ UNCHANGED <<sourceVars, installed, requestVars, blocked, snap, shutdownSet>>

-----------------------------------------------------------------------------
(* ai-appliance-converge, for the timer, an apply and the recovery.        *)

StartTimer ==
  /\ p.kind = "none"
  /\ p' = [kind |-> "timer", pc |-> "converge", target |-> 0]
  /\ UNCHANGED <<sourceVars, installed, requestVars, meta, blocked, snap, shutdownSet>>

AfterRunner == IF p.kind = "timer" THEN p' = NoProcess ELSE Proceed("verify")

\* Fault: the timer does not look for the marker.
ConvergeAlways ==
  /\ p.pc = "converge"
  /\ IF shutdownSet THEN AfterRunner ELSE Proceed("sync")
  /\ UNCHANGED <<sourceVars, installed, requestVars, meta, blocked, snap, shutdownSet>>

\* The timer is paused by the marker; a scheduled shutdown ends any run with
\* success.
Converge ==
  /\ p.pc = "converge"
  /\ IF blocked /\ p.kind = "timer" THEN p' = NoProcess
     ELSE IF shutdownSet THEN AfterRunner
     ELSE Proceed("sync")
  /\ UNCHANGED <<sourceVars, installed, requestVars, meta, blocked, snap, shutdownSet>>

\* Fault: the approved commit of a tag is not compared.
SyncMovedTag ==
  /\ p.pc = "sync"
  /\ LET c == Resolve(meta)
     IN  /\ p.target # 0 => c = p.target
         /\ checkout' = c
  /\ Proceed("early")
  /\ UNCHANGED <<sourceVars, code, flux, requestVars, meta, blocked, snap, shutdownSet>>

\* Fault: the timer installs nothing when the checkout is up to date.
SyncChanged ==
  /\ p.pc = "sync"
  /\ LET c == Resolve(meta)
     IN  /\ ~TagMoved(c)
         /\ p.target # 0 => c = p.target
         /\ checkout' = c
         /\ IF p.kind = "timer" /\ c = checkout THEN p' = NoProcess ELSE Proceed("early")
  /\ UNCHANGED <<sourceVars, code, flux, requestVars, meta, blocked, snap, shutdownSet>>

\* sync_repo: refuses a moved tag and a commit other than the reviewed one.
Sync ==
  /\ p.pc = "sync"
  /\ LET c == Resolve(meta)
     IN  /\ ~TagMoved(c)
         /\ p.target # 0 => c = p.target
         /\ checkout' = c
  /\ Proceed("early")
  /\ UNCHANGED <<sourceVars, code, flux, requestVars, meta, blocked, snap, shutdownSet>>

\* The playbook: first the runner, then the source of Flux, at last the files
\* of the host management.
Install ==
  /\ \/ /\ p.pc = "early" /\ code' = [code EXCEPT !.runner = checkout]
        /\ Proceed("flux") /\ UNCHANGED flux
     \/ /\ p.pc = "flux" /\ flux' = [flux EXCEPT !.target = checkout]
        /\ Proceed("late") /\ UNCHANGED code
     \/ /\ p.pc = "late" /\ code' = [code EXCEPT !.base = checkout]
        /\ AfterRunner /\ UNCHANGED flux
  /\ UNCHANGED <<sourceVars, checkout, requestVars, meta, blocked, snap, shutdownSet>>

-----------------------------------------------------------------------------
(* After the runner.                                                       *)

\* Fault: the answer of Flux is not waited for.
VerifyHost ==
  /\ p.pc = "verify"
  /\ checkout = p.target
  /\ Proceed("unblock")
  /\ UNCHANGED <<sourceVars, installed, requestVars, meta, blocked, snap, shutdownSet>>

\* Flux has applied the commit and everything is ready.
Verify ==
  /\ p.pc = "verify"
  /\ flux.applied = p.target
  /\ Proceed("unblock")
  /\ UNCHANGED <<sourceVars, installed, requestVars, meta, blocked, snap, shutdownSet>>

Unblock ==
  /\ p.pc = "unblock"
  /\ blocked' = FALSE
  /\ IF p.kind = "run" THEN Proceed("done") ELSE p' = NoProcess
  /\ UNCHANGED <<sourceVars, installed, requestVars, meta, snap, shutdownSet>>

Finish ==
  /\ At("run", "done")
  /\ oper' = [oper EXCEPT !.phase = "Succeeded"] /\ p' = NoProcess
  /\ UNCHANGED <<sourceVars, installed, preview, request, startJob, meta, blocked, snap, shutdownSet>>

\* magicstick-software-recover runs the saved implementation.
StartRollback ==
  /\ p.kind = "none"
  /\ snap.code # Torn /\ snap.meta # NoSelection /\ snap.commit # 0
  /\ p' = [kind |-> "rollback", pc |-> "block", target |-> snap.commit]
  /\ UNCHANGED <<sourceVars, installed, requestVars, meta, blocked, snap, shutdownSet>>

\* Any step can fail: registry, Git, Ansible, Flux in time, the regression guard.
RunFails ==
  /\ p.kind # "none" /\ p.pc # "done"
  /\ p' = NoProcess
  /\ oper' = IF p.kind = "run" THEN [oper EXCEPT !.phase = "Failed"] ELSE oper
  /\ UNCHANGED <<sourceVars, installed, preview, request, startJob, meta, blocked, snap, shutdownSet>>

-----------------------------------------------------------------------------
(* The environment.                                                        *)

\* Power loss or a stopped unit; the status is then reported as Interrupted.
Killed ==
  /\ p.kind # "none"
  /\ p' = NoProcess /\ startJob' \in {startJob, FALSE} /\ shutdownSet' \in {shutdownSet, FALSE}
  /\ UNCHANGED <<sourceVars, installed, preview, request, oper, meta, blocked, snap>>

\* Somebody pushes to the branch, or moves the tag.
Push ==
  /\ commits < MaxCommits
  /\ commits' = commits + 1 /\ upstream' = [upstream EXCEPT !.branch = commits + 1]
  /\ UNCHANGED <<installed, requestVars, meta, blocked, snap, p, shutdownSet>>

MoveTag ==
  /\ upstream.tag # upstream.branch
  /\ upstream' = [upstream EXCEPT !.tag = upstream.branch]
  /\ UNCHANGED <<commits, installed, requestVars, meta, blocked, snap, p, shutdownSet>>

FluxApplies ==
  /\ flux.applied # flux.target
  /\ flux' = [flux EXCEPT !.applied = flux.target]
  /\ UNCHANGED <<sourceVars, checkout, code, requestVars, meta, blocked, snap, p, shutdownSet>>

ConsoleShutdown ==
  /\ Shutdowns
  /\ shutdownSet' = ~shutdownSet
  /\ UNCHANGED <<sourceVars, installed, requestVars, meta, blocked, snap, p>>

-----------------------------------------------------------------------------
Administrator ==
  \/ \E action \in {"check", "apply"}, sel \in {Branch, Tag} \cup {Pin(c) : c \in 1 .. commits} :
       Ask(action, sel)
  \/ StartAgain \/ StartRollback

Run ==
  \/ StartRun \/ RefuseRun \/ DropPreview \/ Preview \/ Backup \/ Block \/ RestoreMetadata
  \/ SaveSelection \/ Verify \/ Unblock \/ Finish

Runner == Converge \/ Sync \/ Install

ChannelNext ==
  \/ Administrator \/ Run \/ StartTimer \/ Runner \/ RunFails \/ Killed
  \/ Push \/ MoveTag \/ FluxApplies \/ ConsoleShutdown

ChannelSpec == ChannelInit /\ [][ChannelNext]_channelVars

-----------------------------------------------------------------------------
(* Properties.                                                             *)

\* apply waits "for host, Flux and images before clearing the pause": the
\* marker goes away only when the host and Flux are at the commit that was
\* reviewed, or that is recovered.
Ready(c) == checkout = c /\ code = Code(c) /\ flux = [target |-> c, applied |-> c]

ResumesReady ==
  [][blocked /\ ~blocked' =>
       Ready(p.target) /\ (p.kind = "run" => p.target = request.preview.commit)]_channelVars

\* "A retry must retain the recovery snapshot from before the failed switch":
\* a switch begins with a whole snapshot of the host, and nothing touches it
\* until the host is ready again.
SnapshotKept ==
  [][/\ ~blocked /\ blocked' /\ p.kind = "run" => snap = [code |-> code, meta |-> meta, commit |-> checkout]
     /\ blocked /\ blocked' => snap' = snap]_channelVars

\* "later convergence cannot silently adopt a moved tag": the checkout follows
\* a branch by the timer; otherwise it only goes to a commit somebody approved.
OnlyReviewed ==
  [][checkout' # checkout =>
       \/ p.kind = "timer" /\ meta.kind = "branch"
       \/ p.kind = "timer" /\ checkout' = meta.commit
       \/ p.kind = "run" /\ checkout' = request.preview.commit
       \/ p.kind = "rollback" /\ checkout' = snap.commit]_channelVars

\* "automatic convergence is paused": while the marker is there, nothing but
\* the commit of a new apply or of the recovery is installed.
PausedWhileBlocked ==
  [][blocked /\ (checkout' # checkout \/ code' # code \/ flux'.target # flux.target) =>
       p.target # 0 /\ checkout' = p.target]_channelVars

Whole == code = Code(checkout) /\ flux.target = checkout

\* The timer repairs what a failed or killed run left half installed, unless
\* an apply has paused it, the approved tag was moved, which it refuses, or
\* shutdowns are scheduled again and again.
Repaired == <>[]~shutdownSet => []<>(blocked \/ TagMoved(Resolve(meta)) \/ Whole)

\* A process with the lock goes on until it ends or a timeout ends it; timer
\* runs come again and again, and no step of them fails every time.
ChannelFairness ==
  /\ WF_channelVars(Run \/ Runner \/ RunFails)
  /\ SF_channelVars(StartTimer)
  /\ SF_channelVars(Converge /\ p.kind = "timer") /\ SF_channelVars(Sync /\ p.kind = "timer")
  /\ SF_channelVars(Install /\ p.pc = "early" /\ p.kind = "timer")
  /\ SF_channelVars(Install /\ p.pc = "flux" /\ p.kind = "timer")
  /\ SF_channelVars(Install /\ p.pc = "late" /\ p.kind = "timer")

ChannelFairSpec == ChannelSpec /\ ChannelFairness
=============================================================================

------------------------ MODULE SoftwareChannelProofs ------------------------
(***************************************************************************)
(* Proofs about the change of the software channel, for every number of    *)
(* commits and requests.                                                   *)
(***************************************************************************)
EXTENDS SoftwareChannel, TLAPS

-----------------------------------------------------------------------------
(* Types.                                                                  *)

Selections == [kind : {"none", "branch", "tag", "commit"}, commit : 0 .. commits]

Previews == [sel : Selections, commit : 0 .. commits, meta : Selections, at : 0 .. MaxRequests]

ChannelRequests ==
  [n : 0 .. MaxRequests, action : {"none", "check", "apply"}, sel : Selections,
   meta : Selections, preview : Previews]

Snapshots ==
  [code : [runner : 0 .. commits, base : 0 .. commits], meta : Selections, commit : 0 .. commits]

RunnerSteps == {"converge", "sync", "early", "flux", "late"}

BackupSteps == {"backup", "copy", "keepmeta", "keepcommit"}

PausedSteps == {"restore", "select", "verify", "unblock"}

ChannelSteps ==
  {"none", "drop", "preview", "block", "done"} \cup BackupSteps \cup PausedSteps \cup RunnerSteps

Processes ==
  [kind : {"none", "run", "timer", "rollback"}, pc : ChannelSteps, target : 0 .. commits]

\* Everything has its type, and every commit that is selected, installed,
\* saved or reviewed has been published.
ChannelTypeOK ==
  /\ commits \in Nat \ {0}
  /\ upstream \in [branch : 1 .. commits, tag : 1 .. commits]
  /\ meta \in Selections
  /\ checkout \in 1 .. commits
  /\ code \in [runner : 1 .. commits, base : 1 .. commits]
  /\ flux \in [target : 1 .. commits, applied : 1 .. commits]
  /\ preview \in Previews
  /\ request \in ChannelRequests
  /\ startJob \in BOOLEAN
  /\ oper \in [n : 0 .. MaxRequests, phase : {"none", "Applying", "Succeeded", "Failed"}]
  /\ blocked \in BOOLEAN
  /\ snap \in Snapshots
  /\ p \in Processes
  /\ shutdownSet \in BOOLEAN

-----------------------------------------------------------------------------
(* The inductive invariant.                                                *)

\* A selection that an appliance follows names a commit where it needs one.
Followed(sel) ==
  /\ sel.kind \in {"branch", "tag", "commit"}
  /\ sel.kind # "branch" => sel.commit # 0

\* What can be asked for.
Requestable(sel) ==
  /\ sel.kind \in {"branch", "tag", "commit"}
  /\ sel.kind = "commit" => sel.commit # 0

SelectionsKept ==
  /\ Followed(meta)
  /\ snap.meta = NoSelection \/ Followed(snap.meta)
  /\ startJob => request.n # 0
  /\ request.n # 0 => Requestable(request.sel) /\ request.action # "none"

Restorable == snap.code # Torn /\ snap.meta # NoSelection /\ snap.commit # 0

\* Where a process can be, and the commit it takes the host to.
Placed ==
  /\ p.kind = "none" => p = NoProcess
  /\ p.kind = "timer" => p.pc \in RunnerSteps /\ p.target = 0
  /\ p.kind = "run" =>
       /\ request.n # 0
       /\ p.pc \notin {"none", "restore"}
       /\ p.pc \in {"drop", "preview"} => p.target = 0
       /\ p.pc \notin {"drop", "preview", "done"} =>
            p.target # 0 /\ p.target = request.preview.commit
  /\ p.kind = "rollback" =>
       /\ p.pc \in RunnerSteps \cup PausedSteps \cup {"block"}
       /\ Restorable /\ p.target = snap.commit

\* The marker is there exactly while it has to be.
Marked ==
  /\ p.kind = "timer" /\ p.pc # "converge" => ~blocked
  /\ p.pc \in BackupSteps => ~blocked
  /\ p.kind # "timer" /\ p.pc \in RunnerSteps \cup PausedSteps => blocked

\* The snapshot of an apply grows part by part, before the marker is set.
Saved ==
  p.kind = "run" /\ ~blocked =>
    /\ p.pc \in {"keepmeta", "keepcommit", "block"} => snap.code = code
    /\ p.pc \in {"keepcommit", "block"} => snap.meta = meta
    /\ p.pc = "block" => snap.commit = checkout

\* The playbook installs the commit that sync_repo has accepted.
Converging ==
  p.pc \in {"early", "flux", "late"} =>
    /\ p.target # 0 => checkout = p.target
    /\ p.pc # "early" => code.runner = checkout
    /\ p.pc = "late" => flux.target = checkout

ChannelInv == ChannelTypeOK /\ SelectionsKept /\ Placed /\ Marked /\ Saved /\ Converging

\* The installed appliance satisfies it.
LEMMA ChannelInitInv == ChannelInit => ChannelInv
<1> SUFFICES ASSUME ChannelInit PROVE ChannelInv
  OBVIOUS
<1> USE ChannelAssumption DEF ChannelInit, AsInstalled, Branch, NoSelection, NoPreview,
      NoChannelRequest, Code, Torn, NoSnapshot, NoProcess
<1>1. /\ 0 \in 0 .. commits /\ 1 \in 1 .. commits /\ 0 \in 0 .. MaxRequests
      /\ commits \in Nat \ {0}
  OBVIOUS
<1>2. NoSelection \in Selections /\ Branch \in Selections
  BY <1>1 DEF Selections
<1>3. NoPreview \in Previews
  BY <1>1, <1>2 DEF Previews
<1>4. request \in ChannelRequests
  BY <1>1, <1>2, <1>3 DEF ChannelRequests
<1>5. snap \in Snapshots
  BY <1>1, <1>2 DEF Snapshots
<1>6. p \in Processes
  BY <1>1 DEF Processes, ChannelSteps
<1>7. ChannelTypeOK
  BY <1>1, <1>2, <1>3, <1>4, <1>5, <1>6 DEF ChannelTypeOK
<1> QED
  BY <1>7 DEF ChannelInv, SelectionsKept, Followed, Requestable, Restorable, Placed, Marked,
     Saved, Converging, BackupSteps, RunnerSteps, PausedSteps

\* What git resolves is a published commit.
LEMMA Resolved ==
  ASSUME ChannelTypeOK, NEW sel \in Selections,
         sel.kind \in {"branch", "tag", "commit"}, sel.kind = "commit" => sel.commit # 0
  PROVE  Resolve(sel) \in 1 .. commits
  BY SMT DEF Resolve, ChannelTypeOK, Selections

\* A start of the unit by hand keeps the invariant.
LEMMA StartAgainInv == ASSUME ChannelInv, StartAgain PROVE ChannelInv'
<1> USE ChannelAssumption DEF StartAgain, At, Proceed, AfterRunner, NoProcess, channelVars,
   sourceVars, installed, requestVars
<1>1. ChannelTypeOK'
  BY DEF ChannelInv, ChannelTypeOK, Selections, Previews, ChannelRequests, Snapshots, Processes
<1>2. SelectionsKept'
  BY DEF ChannelInv, SelectionsKept, Followed, Requestable
<1>3. Placed'
  BY DEF ChannelInv, Placed, Restorable
<1>4. Marked'
  BY DEF ChannelInv, Marked
<1>5. Saved'
  BY DEF ChannelInv, Saved
<1>6. Converging'
  BY DEF ChannelInv, Converging
<1> QED
  BY <1>1, <1>2, <1>3, <1>4, <1>5, <1>6 DEF ChannelInv

\* The start of a requested run keeps the invariant.
LEMMA StartRunInv == ASSUME ChannelInv, StartRun PROVE ChannelInv'
<1> USE ChannelAssumption DEF StartRun, At, Proceed, AfterRunner, NoProcess, channelVars,
   sourceVars, installed, requestVars
<1>a. startJob' \in BOOLEAN
  OBVIOUS
<1>b. p' \in Processes
  BY SMT DEF ChannelInv, ChannelTypeOK, Processes, ChannelSteps
<1>c. oper' \in [n : 0 .. MaxRequests, phase : {"none", "Applying", "Succeeded", "Failed"}]
  BY SMT DEF ChannelInv, ChannelTypeOK, ChannelRequests
<1> USE <1>a, <1>b, <1>c
<1>1. ChannelTypeOK'
  BY DEF ChannelInv, ChannelTypeOK, Selections, Previews, ChannelRequests, Snapshots, Processes
<1>2. SelectionsKept'
  BY DEF ChannelInv, SelectionsKept, Followed, Requestable
<1>3. Placed'
  BY SMT DEF ChannelInv, ChannelTypeOK, SelectionsKept, Placed, Restorable, Processes,
     ChannelSteps, BackupSteps, PausedSteps, RunnerSteps
<1>4. Marked'
  BY DEF ChannelInv, Marked, BackupSteps, PausedSteps, RunnerSteps
<1>5. Saved'
  BY DEF ChannelInv, Saved
<1>6. Converging'
  BY DEF ChannelInv, Converging
<1> QED
  BY <1>1, <1>2, <1>3, <1>4, <1>5, <1>6 DEF ChannelInv

\* A refused run keeps the invariant.
LEMMA RefuseRunInv == ASSUME ChannelInv, RefuseRun PROVE ChannelInv'
<1> USE ChannelAssumption DEF RefuseRun, At, Proceed, AfterRunner, NoProcess, channelVars,
   sourceVars, installed, requestVars
<1>a. startJob' \in BOOLEAN
  OBVIOUS
<1> USE <1>a
<1>1. ChannelTypeOK'
  BY DEF ChannelInv, ChannelTypeOK, Selections, Previews, ChannelRequests, Snapshots, Processes
<1>2. SelectionsKept'
  BY DEF ChannelInv, SelectionsKept, Followed, Requestable
<1>3. Placed'
  BY DEF ChannelInv, Placed, Restorable
<1>4. Marked'
  BY DEF ChannelInv, Marked
<1>5. Saved'
  BY DEF ChannelInv, Saved
<1>6. Converging'
  BY DEF ChannelInv, Converging
<1> QED
  BY <1>1, <1>2, <1>3, <1>4, <1>5, <1>6 DEF ChannelInv

\* Dropping the old preview keeps the invariant.
LEMMA DropPreviewInv == ASSUME ChannelInv, DropPreview PROVE ChannelInv'
<1> USE ChannelAssumption DEF DropPreview, At, Proceed, AfterRunner, NoProcess, channelVars,
   sourceVars, installed, requestVars
<1>1. ChannelTypeOK'
  BY SMT DEF ChannelInv, ChannelTypeOK, Processes, ChannelSteps, Selections, Previews,
     ChannelRequests, Snapshots, BackupSteps, PausedSteps, RunnerSteps, Resolve, Pin,
     NoPreview, NoSelection, Torn, Code
<1>2. SelectionsKept'
  BY DEF ChannelInv, SelectionsKept, Followed, Requestable
<1>3. Placed'
  BY DEF ChannelInv, Placed, Restorable
<1>4. Marked'
  BY DEF ChannelInv, Marked, BackupSteps, PausedSteps, RunnerSteps
<1>5. Saved'
  BY DEF ChannelInv, Saved
<1>6. Converging'
  BY DEF ChannelInv, Converging
<1> QED
  BY <1>1, <1>2, <1>3, <1>4, <1>5, <1>6 DEF ChannelInv

\* The preview of a check or an apply keeps the invariant.
LEMMA PreviewInv == ASSUME ChannelInv, Preview PROVE ChannelInv'
<1> USE ChannelAssumption DEF Preview, At, Proceed, AfterRunner, NoProcess, channelVars,
   sourceVars, installed, requestVars
<1> DEFINE c == Resolve(request.sel)
<1>a. c \in 1 .. commits /\ request.n \in 0 .. MaxRequests /\ p.pc = "preview" /\ p.kind = "run"
  BY Resolved DEF ChannelInv, ChannelTypeOK, ChannelRequests, SelectionsKept, Requestable,
     Placed
<1>b. /\ preview' = [sel |-> request.sel, commit |-> c, meta |-> meta, at |-> request.n]
      /\ UNCHANGED <<sourceVars, installed, request, startJob, meta, blocked, snap, shutdownSet>>
  BY DEF c
<1>c. \/ p' = [p EXCEPT !.pc = "done"] /\ oper' = oper
      \/ p' = NoProcess /\ oper' = [oper EXCEPT !.phase = "Failed"]
      \/ /\ p' = [kind |-> "run", pc |-> IF blocked THEN "block" ELSE "backup", target |-> c]
         /\ oper' = oper /\ c = request.preview.commit
  BY DEF c
<1> HIDE DEF c, Preview
<1> USE <1>a, <1>b, <1>c
<1>1. ChannelTypeOK'
  BY SMT DEF ChannelInv, ChannelTypeOK, Processes, ChannelSteps, Selections, Previews,
     ChannelRequests, Snapshots, BackupSteps, PausedSteps, RunnerSteps, Resolve, Pin,
     NoPreview, NoSelection, Torn, Code
<1>2. SelectionsKept'
  BY DEF ChannelInv, SelectionsKept, Followed, Requestable
<1>3. Placed'
  BY DEF ChannelInv, Placed, Restorable, ChannelTypeOK, Processes, RunnerSteps, PausedSteps
<1>4. Marked'
  BY DEF ChannelInv, ChannelTypeOK, Processes, Marked, BackupSteps, PausedSteps, RunnerSteps
<1>5. Saved'
  BY DEF ChannelInv, ChannelTypeOK, Processes, Saved
<1>6. Converging'
  BY DEF ChannelInv, ChannelTypeOK, Processes, Converging
<1> QED
  BY <1>1, <1>2, <1>3, <1>4, <1>5, <1>6 DEF ChannelInv

\* Each step of the backup keeps the invariant.
LEMMA BackupInv == ASSUME ChannelInv, Backup PROVE ChannelInv'
<1> USE ChannelAssumption DEF Backup, At, Proceed, AfterRunner, NoProcess, channelVars,
   sourceVars, installed, requestVars
<1>1. ChannelTypeOK'
  BY SMT DEF ChannelInv, ChannelTypeOK, Processes, ChannelSteps, Selections, Previews,
     ChannelRequests, Snapshots, BackupSteps, PausedSteps, RunnerSteps, Resolve, Pin,
     NoPreview, NoSelection, Torn, Code
<1>2. SelectionsKept'
  BY SMT DEF ChannelInv, ChannelTypeOK, SelectionsKept, Followed, Requestable, Selections,
     Snapshots, Processes, Placed, Restorable, Pin, RunnerSteps
<1>3. Placed'
  BY DEF ChannelInv, Placed, Restorable, ChannelTypeOK, Processes, RunnerSteps, PausedSteps
<1>4. Marked'
  BY DEF ChannelInv, ChannelTypeOK, Processes, Marked, BackupSteps, PausedSteps, RunnerSteps
<1>5. Saved'
  BY SMT DEF ChannelInv, ChannelTypeOK, Placed, Marked, Saved, Processes, Snapshots,
     BackupSteps, PausedSteps, RunnerSteps
<1>6. Converging'
  BY DEF ChannelInv, ChannelTypeOK, Processes, Converging
<1> QED
  BY <1>1, <1>2, <1>3, <1>4, <1>5, <1>6 DEF ChannelInv

\* Setting the marker keeps the invariant.
LEMMA BlockInv == ASSUME ChannelInv, Block PROVE ChannelInv'
<1> USE ChannelAssumption DEF Block, At, Proceed, AfterRunner, NoProcess, channelVars,
   sourceVars, installed, requestVars
<1>1. ChannelTypeOK'
  BY SMT DEF ChannelInv, ChannelTypeOK, Processes, ChannelSteps, Selections, Previews,
     ChannelRequests, Snapshots, BackupSteps, PausedSteps, RunnerSteps, Resolve, Pin,
     NoPreview, NoSelection, Torn, Code
<1>2. SelectionsKept'
  BY DEF ChannelInv, SelectionsKept, Followed, Requestable
<1>3. Placed'
  BY DEF ChannelInv, Placed, Restorable, ChannelTypeOK, Processes, RunnerSteps, PausedSteps
<1>4. Marked'
  BY SMT DEF ChannelInv, ChannelTypeOK, Placed, Marked, Processes, ChannelSteps, BackupSteps,
     PausedSteps, RunnerSteps
<1>5. Saved'
  BY DEF ChannelInv, Saved
<1>6. Converging'
  BY DEF ChannelInv, Converging
<1> QED
  BY <1>1, <1>2, <1>3, <1>4, <1>5, <1>6 DEF ChannelInv

\* Putting the saved metadata back keeps the invariant.
LEMMA RestoreMetadataInv == ASSUME ChannelInv, RestoreMetadata PROVE ChannelInv'
<1> USE ChannelAssumption DEF RestoreMetadata, At, Proceed, AfterRunner, NoProcess,
   channelVars, sourceVars, installed, requestVars
<1>1. ChannelTypeOK'
  BY SMT DEF ChannelInv, ChannelTypeOK, Processes, ChannelSteps, Selections, Previews,
     ChannelRequests, Snapshots, BackupSteps, PausedSteps, RunnerSteps, Resolve, Pin,
     NoPreview, NoSelection, Torn, Code
<1>2. SelectionsKept'
  BY SMT DEF ChannelInv, ChannelTypeOK, SelectionsKept, Followed, Requestable, Selections,
     Snapshots, Processes, Placed, Restorable, Pin, RunnerSteps
<1>3. Placed'
  BY DEF ChannelInv, Placed, Restorable, ChannelTypeOK, Processes, RunnerSteps, PausedSteps
<1>4. Marked'
  BY DEF ChannelInv, Marked, BackupSteps, PausedSteps, RunnerSteps
<1>5. Saved'
  BY DEF ChannelInv, Saved
<1>6. Converging'
  BY DEF ChannelInv, Converging
<1> QED
  BY <1>1, <1>2, <1>3, <1>4, <1>5, <1>6 DEF ChannelInv

\* Saving the selection keeps the invariant.
LEMMA SaveSelectionInv == ASSUME ChannelInv, SaveSelection PROVE ChannelInv'
<1> USE ChannelAssumption DEF SaveSelection, At, Proceed, AfterRunner, NoProcess, channelVars,
   sourceVars, installed, requestVars
<1>a. request.sel.kind = "tag" /\ p.kind = "run" => meta' = [request.sel EXCEPT !.commit = p.target]
  OBVIOUS
<1>b. p.kind \in {"run", "rollback"} /\ (p.kind = "run" => request.n # 0)
  BY SMT DEF ChannelInv, ChannelTypeOK, Processes, Placed, RunnerSteps
<1>c. p.kind = "run" => meta' = IF request.sel.kind = "tag" THEN [kind |-> "tag", commit |-> p.target] ELSE request.sel
  BY SMT DEF ChannelInv, ChannelTypeOK, ChannelRequests, Selections
<1> USE <1>a, <1>b, <1>c
<1>1. ChannelTypeOK'
  BY SMT DEF ChannelInv, ChannelTypeOK, Processes, ChannelSteps, Selections, Previews,
     ChannelRequests, Snapshots, BackupSteps, PausedSteps, RunnerSteps, Resolve, Pin,
     NoPreview, NoSelection, Torn, Code
<1>2. SelectionsKept'
  BY SMT DEF ChannelInv, ChannelTypeOK, SelectionsKept, Followed, Requestable, Selections,
     Snapshots, Processes, Placed, Restorable, Pin, RunnerSteps
<1>3. Placed'
  BY DEF ChannelInv, Placed, Restorable, ChannelTypeOK, Processes, RunnerSteps, PausedSteps
<1>4. Marked'
  BY DEF ChannelInv, Marked, BackupSteps, PausedSteps, RunnerSteps
<1>5. Saved'
  BY DEF ChannelInv, Saved
<1>6. Converging'
  BY DEF ChannelInv, Converging
<1> QED
  BY <1>1, <1>2, <1>3, <1>4, <1>5, <1>6 DEF ChannelInv

\* A timer run keeps the invariant.
LEMMA StartTimerInv == ASSUME ChannelInv, StartTimer PROVE ChannelInv'
<1> USE ChannelAssumption DEF StartTimer, At, Proceed, AfterRunner, NoProcess, channelVars,
   sourceVars, installed, requestVars
<1>1. ChannelTypeOK'
  BY SMT DEF ChannelInv, ChannelTypeOK, Processes, ChannelSteps, Selections, Previews,
     ChannelRequests, Snapshots, BackupSteps, PausedSteps, RunnerSteps, Resolve, Pin,
     NoPreview, NoSelection, Torn, Code
<1>2. SelectionsKept'
  BY DEF ChannelInv, SelectionsKept, Followed, Requestable
<1>3. Placed'
  BY DEF ChannelInv, Placed, Restorable, ChannelTypeOK, Processes, RunnerSteps, PausedSteps
<1>4. Marked'
  BY DEF ChannelInv, Marked, BackupSteps, PausedSteps, RunnerSteps
<1>5. Saved'
  BY DEF ChannelInv, Saved
<1>6. Converging'
  BY DEF ChannelInv, Converging
<1> QED
  BY <1>1, <1>2, <1>3, <1>4, <1>5, <1>6 DEF ChannelInv

\* The start of the runner keeps the invariant.
LEMMA ConvergeInv == ASSUME ChannelInv, Converge PROVE ChannelInv'
<1> USE ChannelAssumption DEF Converge, At, Proceed, AfterRunner, NoProcess, channelVars,
   sourceVars, installed, requestVars
<1>1. ChannelTypeOK'
  BY SMT DEF ChannelInv, ChannelTypeOK, Processes, ChannelSteps, Selections, Previews,
     ChannelRequests, Snapshots, BackupSteps, PausedSteps, RunnerSteps, Resolve, Pin,
     NoPreview, NoSelection, Torn, Code
<1>2. SelectionsKept'
  BY DEF ChannelInv, SelectionsKept, Followed, Requestable
<1>3. Placed'
  BY DEF ChannelInv, Placed, Restorable, ChannelTypeOK, Processes, RunnerSteps, PausedSteps
<1>4. Marked'
  BY DEF ChannelInv, ChannelTypeOK, Processes, Marked, BackupSteps, PausedSteps, RunnerSteps
<1>5. Saved'
  BY DEF ChannelInv, ChannelTypeOK, Processes, Saved
<1>6. Converging'
  BY DEF ChannelInv, ChannelTypeOK, Processes, Converging
<1> QED
  BY <1>1, <1>2, <1>3, <1>4, <1>5, <1>6 DEF ChannelInv

\* sync_repo keeps the invariant.
LEMMA SyncInv == ASSUME ChannelInv, Sync PROVE ChannelInv'
<1> USE ChannelAssumption DEF Sync, At, Proceed, AfterRunner, NoProcess, channelVars,
   sourceVars, installed, requestVars
<1>a. Resolve(meta) \in 1 .. commits
  BY Resolved DEF ChannelInv, ChannelTypeOK, SelectionsKept, Followed
<1> USE <1>a
<1>1. ChannelTypeOK'
  BY SMT DEF ChannelInv, ChannelTypeOK, Processes, ChannelSteps, Selections, Previews,
     ChannelRequests, Snapshots, BackupSteps, PausedSteps, RunnerSteps, Resolve, Pin,
     NoPreview, NoSelection, Torn, Code
<1>2. SelectionsKept'
  BY DEF ChannelInv, SelectionsKept, Followed, Requestable
<1>3. Placed'
  BY DEF ChannelInv, Placed, Restorable, ChannelTypeOK, Processes, RunnerSteps, PausedSteps
<1>4. Marked'
  BY DEF ChannelInv, Marked, BackupSteps, PausedSteps, RunnerSteps
<1>5. Saved'
  BY DEF ChannelInv, Saved
<1>6. Converging'
  BY DEF ChannelInv, Converging
<1> QED
  BY <1>1, <1>2, <1>3, <1>4, <1>5, <1>6 DEF ChannelInv

\* Each step of the playbook keeps the invariant.
LEMMA InstallInv == ASSUME ChannelInv, Install PROVE ChannelInv'
<1> USE ChannelAssumption DEF Install, At, Proceed, AfterRunner, NoProcess, channelVars,
   sourceVars, installed, requestVars
<1>1. ChannelTypeOK'
  BY SMT DEF ChannelInv, ChannelTypeOK, Processes, ChannelSteps, Selections, Previews,
     ChannelRequests, Snapshots, BackupSteps, PausedSteps, RunnerSteps, Resolve, Pin,
     NoPreview, NoSelection, Torn, Code
<1>2. SelectionsKept'
  BY DEF ChannelInv, SelectionsKept, Followed, Requestable
<1>3. Placed'
  BY DEF ChannelInv, Placed, Restorable, ChannelTypeOK, Processes, RunnerSteps, PausedSteps
<1>4. Marked'
  BY DEF ChannelInv, ChannelTypeOK, Processes, Marked, BackupSteps, PausedSteps, RunnerSteps
<1>5. Saved'
  BY DEF ChannelInv, ChannelTypeOK, Processes, Saved
<1>6. Converging'
  BY DEF ChannelInv, ChannelTypeOK, Processes, Converging
<1> QED
  BY <1>1, <1>2, <1>3, <1>4, <1>5, <1>6 DEF ChannelInv

\* Verification keeps the invariant.
LEMMA VerifyInv == ASSUME ChannelInv, Verify PROVE ChannelInv'
<1> USE ChannelAssumption DEF Verify, At, Proceed, AfterRunner, NoProcess, channelVars,
   sourceVars, installed, requestVars
<1>1. ChannelTypeOK'
  BY SMT DEF ChannelInv, ChannelTypeOK, Processes, ChannelSteps, Selections, Previews,
     ChannelRequests, Snapshots, BackupSteps, PausedSteps, RunnerSteps, Resolve, Pin,
     NoPreview, NoSelection, Torn, Code
<1>2. SelectionsKept'
  BY DEF ChannelInv, SelectionsKept, Followed, Requestable
<1>3. Placed'
  BY DEF ChannelInv, Placed, Restorable, ChannelTypeOK, Processes, RunnerSteps, PausedSteps
<1>4. Marked'
  BY DEF ChannelInv, Marked, BackupSteps, PausedSteps, RunnerSteps
<1>5. Saved'
  BY DEF ChannelInv, Saved
<1>6. Converging'
  BY DEF ChannelInv, Converging
<1> QED
  BY <1>1, <1>2, <1>3, <1>4, <1>5, <1>6 DEF ChannelInv

\* Clearing the marker keeps the invariant.
LEMMA UnblockInv == ASSUME ChannelInv, Unblock PROVE ChannelInv'
<1> USE ChannelAssumption DEF Unblock, At, Proceed, AfterRunner, NoProcess, channelVars,
   sourceVars, installed, requestVars
<1>a. blocked' \in BOOLEAN
  OBVIOUS
<1>b. p' \in Processes
  BY SMT DEF ChannelInv, ChannelTypeOK, Processes, ChannelSteps
<1> USE <1>a, <1>b
<1>1. ChannelTypeOK'
  BY DEF ChannelInv, ChannelTypeOK, Selections, Previews, ChannelRequests, Snapshots, Processes
<1>2. SelectionsKept'
  BY DEF ChannelInv, SelectionsKept, Followed, Requestable
<1>3. Placed'
  BY DEF ChannelInv, Placed, Restorable, ChannelTypeOK, Processes, RunnerSteps, PausedSteps
<1>4. Marked'
  BY DEF ChannelInv, ChannelTypeOK, Processes, Marked, BackupSteps, PausedSteps, RunnerSteps
<1>5. Saved'
  BY DEF ChannelInv, ChannelTypeOK, Processes, Saved
<1>6. Converging'
  BY DEF ChannelInv, ChannelTypeOK, Processes, Converging
<1> QED
  BY <1>1, <1>2, <1>3, <1>4, <1>5, <1>6 DEF ChannelInv

\* The end of a run keeps the invariant.
LEMMA FinishInv == ASSUME ChannelInv, Finish PROVE ChannelInv'
<1> USE ChannelAssumption DEF Finish, At, Proceed, AfterRunner, NoProcess, channelVars,
   sourceVars, installed, requestVars
<1>1. ChannelTypeOK'
  BY SMT DEF ChannelInv, ChannelTypeOK, Processes, ChannelSteps, Selections, Previews,
     ChannelRequests, Snapshots, BackupSteps, PausedSteps, RunnerSteps, Resolve, Pin,
     NoPreview, NoSelection, Torn, Code
<1>2. SelectionsKept'
  BY DEF ChannelInv, SelectionsKept, Followed, Requestable
<1>3. Placed'
  BY DEF ChannelInv, Placed, Restorable
<1>4. Marked'
  BY DEF ChannelInv, Marked, BackupSteps, PausedSteps, RunnerSteps
<1>5. Saved'
  BY DEF ChannelInv, Saved
<1>6. Converging'
  BY DEF ChannelInv, Converging
<1> QED
  BY <1>1, <1>2, <1>3, <1>4, <1>5, <1>6 DEF ChannelInv

\* The start of a recovery keeps the invariant.
LEMMA StartRollbackInv == ASSUME ChannelInv, StartRollback PROVE ChannelInv'
<1> USE ChannelAssumption DEF StartRollback, At, Proceed, AfterRunner, NoProcess, channelVars,
   sourceVars, installed, requestVars
<1>1. ChannelTypeOK'
  BY SMT DEF ChannelInv, ChannelTypeOK, Processes, ChannelSteps, Selections, Previews,
     ChannelRequests, Snapshots, BackupSteps, PausedSteps, RunnerSteps, Resolve, Pin,
     NoPreview, NoSelection, Torn, Code
<1>2. SelectionsKept'
  BY DEF ChannelInv, SelectionsKept, Followed, Requestable
<1>3. Placed'
  BY DEF ChannelInv, Placed, Restorable
<1>4. Marked'
  BY DEF ChannelInv, Marked, BackupSteps, PausedSteps, RunnerSteps
<1>5. Saved'
  BY DEF ChannelInv, Saved
<1>6. Converging'
  BY DEF ChannelInv, Converging
<1> QED
  BY <1>1, <1>2, <1>3, <1>4, <1>5, <1>6 DEF ChannelInv

\* A failed step keeps the invariant.
LEMMA RunFailsInv == ASSUME ChannelInv, RunFails PROVE ChannelInv'
<1> USE ChannelAssumption DEF RunFails, At, Proceed, AfterRunner, NoProcess, channelVars,
   sourceVars, installed, requestVars
<1>1. ChannelTypeOK'
  BY SMT DEF ChannelInv, ChannelTypeOK, Processes, ChannelSteps, Selections, Previews,
     ChannelRequests, Snapshots, BackupSteps, PausedSteps, RunnerSteps, Resolve, Pin,
     NoPreview, NoSelection, Torn, Code
<1>2. SelectionsKept'
  BY DEF ChannelInv, SelectionsKept, Followed, Requestable
<1>3. Placed'
  BY DEF ChannelInv, Placed, Restorable
<1>4. Marked'
  BY DEF ChannelInv, Marked, BackupSteps, PausedSteps, RunnerSteps
<1>5. Saved'
  BY DEF ChannelInv, Saved
<1>6. Converging'
  BY DEF ChannelInv, Converging
<1> QED
  BY <1>1, <1>2, <1>3, <1>4, <1>5, <1>6 DEF ChannelInv

\* A killed process keeps the invariant.
LEMMA KilledInv == ASSUME ChannelInv, Killed PROVE ChannelInv'
<1> USE ChannelAssumption DEF Killed, At, Proceed, AfterRunner, NoProcess, channelVars,
   sourceVars, installed, requestVars
<1>a. startJob' \in BOOLEAN /\ shutdownSet' \in BOOLEAN
  BY Zenon DEF ChannelInv, ChannelTypeOK
<1>c. startJob' => startJob
  BY Zenon
<1>b. p' \in Processes
  BY SMT DEF ChannelInv, ChannelTypeOK, Processes, ChannelSteps
<1> USE <1>a, <1>b, <1>c
<1>1. ChannelTypeOK'
  BY DEF ChannelInv, ChannelTypeOK, Selections, Previews, ChannelRequests, Snapshots, Processes
<1>2. SelectionsKept'
  BY DEF ChannelInv, SelectionsKept, Followed, Requestable
<1>3. Placed'
  BY DEF ChannelInv, Placed, Restorable
<1>4. Marked'
  BY DEF ChannelInv, Marked, BackupSteps, PausedSteps, RunnerSteps
<1>5. Saved'
  BY DEF ChannelInv, Saved
<1>6. Converging'
  BY DEF ChannelInv, Converging
<1> QED
  BY <1>1, <1>2, <1>3, <1>4, <1>5, <1>6 DEF ChannelInv

\* A push keeps the invariant.
LEMMA PushInv == ASSUME ChannelInv, Push PROVE ChannelInv'
<1> USE ChannelAssumption DEF Push, At, Proceed, AfterRunner, NoProcess, channelVars,
   sourceVars, installed, requestVars
<1>1. ChannelTypeOK'
  BY DEF ChannelInv, ChannelTypeOK, Selections, Previews, ChannelRequests, Snapshots, Processes
<1>2. SelectionsKept'
  BY DEF ChannelInv, SelectionsKept, Followed, Requestable
<1>3. Placed'
  BY DEF ChannelInv, Placed, Restorable
<1>4. Marked'
  BY DEF ChannelInv, Marked
<1>5. Saved'
  BY DEF ChannelInv, Saved
<1>6. Converging'
  BY DEF ChannelInv, Converging
<1> QED
  BY <1>1, <1>2, <1>3, <1>4, <1>5, <1>6 DEF ChannelInv

\* A moved tag keeps the invariant.
LEMMA MoveTagInv == ASSUME ChannelInv, MoveTag PROVE ChannelInv'
<1> USE ChannelAssumption DEF MoveTag, At, Proceed, AfterRunner, NoProcess, channelVars,
   sourceVars, installed, requestVars
<1>1. ChannelTypeOK'
  BY DEF ChannelInv, ChannelTypeOK, Selections, Previews, ChannelRequests, Snapshots, Processes
<1>2. SelectionsKept'
  BY DEF ChannelInv, SelectionsKept, Followed, Requestable
<1>3. Placed'
  BY DEF ChannelInv, Placed, Restorable
<1>4. Marked'
  BY DEF ChannelInv, Marked
<1>5. Saved'
  BY DEF ChannelInv, Saved
<1>6. Converging'
  BY DEF ChannelInv, Converging
<1> QED
  BY <1>1, <1>2, <1>3, <1>4, <1>5, <1>6 DEF ChannelInv

\* A step of Flux keeps the invariant.
LEMMA FluxAppliesInv == ASSUME ChannelInv, FluxApplies PROVE ChannelInv'
<1> USE ChannelAssumption DEF FluxApplies, At, Proceed, AfterRunner, NoProcess, channelVars,
   sourceVars, installed, requestVars
<1>1. ChannelTypeOK'
  BY DEF ChannelInv, ChannelTypeOK, Selections, Previews, ChannelRequests, Snapshots, Processes
<1>2. SelectionsKept'
  BY DEF ChannelInv, SelectionsKept, Followed, Requestable
<1>3. Placed'
  BY DEF ChannelInv, Placed, Restorable
<1>4. Marked'
  BY DEF ChannelInv, Marked
<1>5. Saved'
  BY DEF ChannelInv, Saved
<1>6. Converging'
  BY DEF ChannelInv, Converging
<1> QED
  BY <1>1, <1>2, <1>3, <1>4, <1>5, <1>6 DEF ChannelInv

\* Scheduling a shutdown, or cancelling it keeps the invariant.
LEMMA ConsoleShutdownInv == ASSUME ChannelInv, ConsoleShutdown PROVE ChannelInv'
<1> USE ChannelAssumption DEF ConsoleShutdown, At, Proceed, AfterRunner, NoProcess,
   channelVars, sourceVars, installed, requestVars
<1>1. ChannelTypeOK'
  BY DEF ChannelInv, ChannelTypeOK, Selections, Previews, ChannelRequests, Snapshots, Processes
<1>2. SelectionsKept'
  BY DEF ChannelInv, SelectionsKept, Followed, Requestable
<1>3. Placed'
  BY DEF ChannelInv, Placed, Restorable
<1>4. Marked'
  BY DEF ChannelInv, Marked
<1>5. Saved'
  BY DEF ChannelInv, Saved
<1>6. Converging'
  BY DEF ChannelInv, Converging
<1> QED
  BY <1>1, <1>2, <1>3, <1>4, <1>5, <1>6 DEF ChannelInv

\* A request keeps the invariant.
LEMMA AskInv ==
  ASSUME ChannelInv, NEW action \in {"check", "apply"},
         NEW sel \in {Branch, Tag} \cup {Pin(c) : c \in 1 .. commits}, Ask(action, sel)
  PROVE  ChannelInv'
<1> USE ChannelAssumption DEF Ask, channelVars, sourceVars, installed, requestVars
<1> DEFINE r == [n |-> request.n + 1, action |-> action, sel |-> sel, meta |-> meta,
                 preview |-> preview]
<1>a. sel \in Selections /\ Requestable(sel)
  BY SMT DEF ChannelInv, ChannelTypeOK, Selections, Requestable, Branch, Tag, Pin
<1>b. request' = r /\ r \in ChannelRequests /\ request.n \in 0 .. MaxRequests
  BY <1>a, SMT DEF ChannelInv, ChannelTypeOK, ChannelRequests
<1>c. request'.n # 0 /\ request'.sel = sel /\ request'.action # "none"
  BY <1>b, SMT
<1> HIDE DEF r
<1>1. ChannelTypeOK'
  BY <1>b, SMT DEF ChannelInv, ChannelTypeOK, Selections, Previews, ChannelRequests, Snapshots,
     Processes
<1>2. SelectionsKept'
  BY <1>a, <1>c DEF ChannelInv, SelectionsKept, Followed, Requestable
<1>3. Placed'
  BY <1>c DEF ChannelInv, Placed, Restorable
<1>4. Marked'
  BY DEF ChannelInv, Marked
<1>5. Saved'
  BY DEF ChannelInv, Saved
<1>6. Converging'
  BY DEF ChannelInv, Converging
<1> QED
  BY <1>1, <1>2, <1>3, <1>4, <1>5, <1>6 DEF ChannelInv

\* A step that changes nothing keeps the invariant.
LEMMA ChannelStutterInv == ASSUME ChannelInv, UNCHANGED channelVars PROVE ChannelInv'
  BY DEF channelVars, sourceVars, installed, requestVars, ChannelInv, ChannelTypeOK, Selections,
     Previews, ChannelRequests, Snapshots, Processes, SelectionsKept, Followed, Requestable,
     Restorable, Placed, Marked, Saved, Converging

\* Every step keeps the invariant.
LEMMA ChannelNextInv == ASSUME ChannelInv, [ChannelNext]_channelVars PROVE ChannelInv'
<1>1. CASE Administrator
  BY <1>1, AskInv, StartAgainInv, StartRollbackInv DEF Administrator
<1>2. CASE Run
  BY <1>2, StartRunInv, RefuseRunInv, DropPreviewInv, PreviewInv, BackupInv, BlockInv,
     RestoreMetadataInv, SaveSelectionInv, VerifyInv, UnblockInv, FinishInv DEF Run
<1>3. CASE Runner
  BY <1>3, ConvergeInv, SyncInv, InstallInv DEF Runner
<1>4. CASE StartTimer \/ RunFails \/ Killed
  BY <1>4, StartTimerInv, RunFailsInv, KilledInv
<1>5. CASE Push \/ MoveTag \/ FluxApplies \/ ConsoleShutdown
  BY <1>5, PushInv, MoveTagInv, FluxAppliesInv, ConsoleShutdownInv
<1> QED
  BY <1>1, <1>2, <1>3, <1>4, <1>5, ChannelStutterInv DEF ChannelNext

\* The invariant holds for every number of commits and requests.
LEMMA ChannelInvariance == ChannelSpec => []ChannelInv
<1>1. ChannelInit => ChannelInv
  BY ChannelInitInv
<1>2. ChannelInv /\ [ChannelNext]_channelVars => ChannelInv'
  BY ChannelNextInv
<1> QED
  BY <1>1, <1>2, PTL DEF ChannelSpec

-----------------------------------------------------------------------------
(* Theorems.                                                               *)

\* Every record of the channel keeps its form, and no commit is selected,
\* saved, reviewed or installed that was never published.
THEOREM ChannelTypes == ChannelSpec => []ChannelTypeOK
<1>1. ChannelInv => ChannelTypeOK
  BY DEF ChannelInv
<1> QED
  BY <1>1, ChannelInvariance, PTL

\* What a step does to the marker and to the snapshot.
LEMMA MarkerStep ==
  ASSUME ChannelInv, [ChannelNext]_channelVars
  PROVE  /\ blocked' # blocked => Block \/ Unblock
         /\ snap' # snap => Backup
<1> USE DEF channelVars, sourceVars, installed, requestVars
<1>1. CASE Administrator
  BY <1>1 DEF Administrator, Ask, StartAgain, StartRollback
<1>2. CASE Run
  BY <1>2 DEF Run, StartRun, RefuseRun, DropPreview, Preview, RestoreMetadata, SaveSelection,
     Verify, Finish, Backup, Block, Unblock
<1>3. CASE Runner
  BY <1>3 DEF Runner, Converge, Sync, Install
<1>4. CASE StartTimer \/ RunFails \/ Killed
  BY <1>4 DEF StartTimer, RunFails, Killed
<1>5. CASE Push \/ MoveTag \/ FluxApplies \/ ConsoleShutdown
  BY <1>5 DEF Push, MoveTag, FluxApplies, ConsoleShutdown
<1> QED
  BY <1>1, <1>2, <1>3, <1>4, <1>5 DEF ChannelNext

\* What a step does to the host and to Flux's source.
LEMMA InstalledStep ==
  ASSUME ChannelInv, [ChannelNext]_channelVars
  PROVE  /\ checkout' # checkout => Sync
         /\ code' # code \/ flux'.target # flux.target => Install
<1> USE DEF channelVars, sourceVars, installed, requestVars
<1>1. CASE Administrator
  BY <1>1 DEF Administrator, Ask, StartAgain, StartRollback
<1>2. CASE Run
  BY <1>2 DEF Run, StartRun, RefuseRun, DropPreview, Preview, RestoreMetadata, SaveSelection,
     Verify, Finish, Backup, Block, Unblock
<1>3. CASE Runner
  BY <1>3, SMT DEF Runner, Converge, Sync, Install
<1>4. CASE StartTimer \/ RunFails \/ Killed
  BY <1>4 DEF StartTimer, RunFails, Killed
<1>5. CASE Push \/ MoveTag \/ ConsoleShutdown
  BY <1>5 DEF Push, MoveTag, ConsoleShutdown
<1>6. CASE FluxApplies
  BY <1>6, SMT DEF FluxApplies, ChannelInv, ChannelTypeOK
<1> QED
  BY <1>1, <1>2, <1>3, <1>4, <1>5, <1>6 DEF ChannelNext

\* "A retry must retain the recovery snapshot from before the failed switch":
\* for every history, a switch begins with a whole snapshot of the host, and
\* nothing touches it until the host is ready again (backup and apply).
THEOREM SnapshotIsKept == ChannelSpec => SnapshotKept
<1> DEFINE Kept ==
      /\ ~blocked /\ blocked' /\ p.kind = "run" =>
           snap = [code |-> code, meta |-> meta, commit |-> checkout]
      /\ blocked /\ blocked' => snap' = snap
<1>1. ASSUME ChannelInv, [ChannelNext]_channelVars PROVE Kept
  <2>1. ASSUME ~blocked, blocked', p.kind = "run"
        PROVE  snap = [code |-> code, meta |-> meta, commit |-> checkout]
    <3>1. Block
      BY <1>1, <2>1, MarkerStep DEF Unblock
    <3>2. p.pc = "block"
      BY <3>1 DEF Block
    <3>3. snap.code = code /\ snap.meta = meta /\ snap.commit = checkout
      BY <1>1, <2>1, <3>2 DEF ChannelInv, Saved
    <3> QED
      BY <1>1, <3>3, SMT DEF ChannelInv, ChannelTypeOK, Snapshots
  <2>2. ASSUME blocked, snap' # snap PROVE FALSE
    <3>1. p.pc \in BackupSteps
      BY <1>1, <2>2, MarkerStep DEF Backup, At, BackupSteps
    <3> QED
      BY <1>1, <2>2, <3>1 DEF ChannelInv, Marked
  <2> QED
    BY <2>1, <2>2
<1>2. ChannelInv /\ [ChannelNext]_channelVars => [Kept]_channelVars
  BY <1>1
<1> QED
  BY <1>2, ChannelInvariance, PTL DEF ChannelSpec, SnapshotKept

\* "Later convergence cannot silently adopt a moved tag": for every history,
\* the checkout follows a branch by the timer; otherwise it only goes to a
\* commit somebody approved (sync_repo).
THEOREM OnlyReviewedIsInstalled == ChannelSpec => OnlyReviewed
<1> DEFINE Reviewed ==
      checkout' # checkout =>
        \/ p.kind = "timer" /\ meta.kind = "branch"
        \/ p.kind = "timer" /\ checkout' = meta.commit
        \/ p.kind = "run" /\ checkout' = request.preview.commit
        \/ p.kind = "rollback" /\ checkout' = snap.commit
<1>1. ASSUME ChannelInv, [ChannelNext]_channelVars, checkout' # checkout PROVE Reviewed
  <2>1. Sync
    BY <1>1, InstalledStep
  <2>2. CASE p.kind = "timer"
    <3>1. meta.kind = "tag" => Resolve(meta) = meta.commit
      BY <1>1, <2>1 DEF ChannelInv, SelectionsKept, Followed, Sync, TagMoved
    <3>2. meta.kind = "commit" => Resolve(meta) = meta.commit
      BY DEF Resolve
    <3> QED
      BY <1>1, <2>1, <2>2, <3>1, <3>2 DEF ChannelInv, SelectionsKept, Followed, Sync
  <2>3. CASE p.kind # "timer"
    <3>1. p.kind \in {"run", "rollback"} /\ p.target # 0
      BY <1>1, <2>1, <2>3, SMT DEF ChannelInv, ChannelTypeOK, Processes, Placed, Restorable,
         NoProcess, Sync
    <3>2. checkout' = p.target
      BY <2>1, <3>1 DEF Sync
    <3> QED
      BY <1>1, <2>1, <3>1, <3>2 DEF ChannelInv, Placed, Sync
  <2> QED
    BY <2>2, <2>3
<1>2. ChannelInv /\ [ChannelNext]_channelVars => [Reviewed]_channelVars
  BY <1>1
<1> QED
  BY <1>2, ChannelInvariance, PTL DEF ChannelSpec, OnlyReviewed

\* "Automatic convergence is paused": for every history, while the marker is
\* there nothing is installed but the commit of a new apply or of the
\* recovery (the test of the marker in ai-appliance-converge).
THEOREM BlockedPauses == ChannelSpec => PausedWhileBlocked
<1> DEFINE Paused ==
      blocked /\ (checkout' # checkout \/ code' # code \/ flux'.target # flux.target) =>
        p.target # 0 /\ checkout' = p.target
<1>1. ASSUME ChannelInv, [ChannelNext]_channelVars, blocked,
             checkout' # checkout \/ code' # code \/ flux'.target # flux.target
      PROVE  p.target # 0 /\ checkout' = p.target
  <2>1. Sync \/ Install
    BY <1>1, InstalledStep
  <2>2. p.pc \in {"sync", "early", "flux", "late"}
    BY <2>1 DEF Sync, Install
  <2>3. p.kind \in {"run", "rollback"}
    BY <1>1, <2>2, SMT DEF ChannelInv, ChannelTypeOK, Processes, Placed, Marked, NoProcess
  <2>4. p.target # 0
    BY <1>1, <2>2, <2>3, SMT DEF ChannelInv, Placed, Restorable
  <2>5. CASE Sync
    BY <2>4, <2>5 DEF Sync
  <2>6. CASE Install
    BY <1>1, <2>4, <2>6 DEF Install, ChannelInv, Converging
  <2> QED
    BY <2>1, <2>4, <2>5, <2>6
<1>2. ChannelInv /\ [ChannelNext]_channelVars => [Paused]_channelVars
  BY <1>1
<1> QED
  BY <1>2, ChannelInvariance, PTL DEF ChannelSpec, PausedWhileBlocked

-----------------------------------------------------------------------------
(* Readiness, where no scheduled shutdown has ended the runner of an apply. *)

\* The runner of an apply or of a recovery does its work: it does not meet a
\* scheduled shutdown, which ends it with success (the run channel_skipped).
Unskipped == p.pc = "converge" /\ shutdownSet => p.kind = "timer"

\* After the runner the host is what was reviewed, or what is recovered.
Converged ==
  /\ p.pc \in {"verify", "unblock"} =>
       checkout = p.target /\ code = Code(checkout) /\ flux.target = checkout
  /\ p.pc = "unblock" => flux.applied = p.target

\* No step but those of the runner and the verification touches this.
LEMMA ConvergedStep ==
  ASSUME ChannelInv, Converged, Unskipped, [ChannelNext]_channelVars
  PROVE  Converged'
<1> USE DEF channelVars, sourceVars, installed, requestVars, At, Proceed, NoProcess
<1>1. CASE Administrator
  <2>1. CASE StartRollback
    BY <2>1, SMT DEF StartRollback, Converged
  <2>2. CASE ~StartRollback
    BY <1>1, <2>2 DEF Administrator, Ask, StartAgain, Converged, Code
  <2> QED
    BY <2>1, <2>2
<1>2. CASE Block \/ Unblock \/ Finish \/ Verify
  BY <1>2, SMT DEF Block, Unblock, Finish, Verify, Converged, ChannelInv, ChannelTypeOK,
     Processes, Code
<1>3. CASE StartRun \/ RefuseRun \/ DropPreview \/ Preview \/ Backup
  BY <1>3, SMT DEF StartRun, RefuseRun, DropPreview, Preview, Backup, Converged, ChannelInv,
     ChannelTypeOK, Processes, Code
<1>4. CASE RestoreMetadata \/ SaveSelection
  BY <1>4, SMT DEF RestoreMetadata, SaveSelection, Converged, ChannelInv, ChannelTypeOK,
     Processes
<1>5. CASE Converge
  <2>1. p' = NoProcess \/ p' = [p EXCEPT !.pc = "sync"]
    BY <1>5 DEF Converge, AfterRunner, Unskipped
  <2> QED
    BY <1>5, <2>1, SMT DEF Converged, ChannelInv, ChannelTypeOK, Processes
<1>6. CASE Sync
  BY <1>6, SMT DEF Sync, Converged, ChannelInv, ChannelTypeOK, Processes
<1>7. CASE Install
  <2>1. CASE p.pc # "late"
    BY <1>7, <2>1, SMT DEF Install, Converged, ChannelInv, ChannelTypeOK, Processes
  <2>2. CASE p.pc = "late" /\ p.kind = "timer"
    BY <1>7, <2>2, SMT DEF Install, AfterRunner, Converged
  <2>3. CASE p.pc = "late" /\ p.kind # "timer"
    <3>1. p.target # 0 /\ checkout = p.target /\ code.runner = checkout /\ flux.target = checkout
      BY <2>3, SMT DEF ChannelInv, ChannelTypeOK, Processes, Placed, Restorable, Converging
    <3>2. p' = [p EXCEPT !.pc = "verify"] /\ code' = [code EXCEPT !.base = checkout]
          /\ UNCHANGED <<checkout, flux>>
      BY <1>7, <2>3 DEF Install, AfterRunner
    <3> QED
      BY <3>1, <3>2, SMT DEF Converged, ChannelInv, ChannelTypeOK, Processes, Code
  <2> QED
    BY <2>1, <2>2, <2>3
<1>8. CASE StartTimer \/ RunFails \/ Killed
  <2>1. p'.pc \in {"none", "converge"}
    <3>1. CASE StartTimer
      BY <3>1, SMT DEF StartTimer
    <3>2. CASE RunFails \/ Killed
      <4>1. p' = [kind |-> "none", pc |-> "none", target |-> 0]
        BY <3>2, Zenon DEF RunFails, Killed
      <4> QED
        BY <4>1
    <3> QED
      BY <1>8, <3>1, <3>2
  <2> QED
    BY <2>1 DEF Converged
<1>9. CASE FluxApplies
  BY <1>9, SMT DEF FluxApplies, Converged, ChannelInv, ChannelTypeOK
<1>10. CASE Push \/ MoveTag \/ ConsoleShutdown
  BY <1>10 DEF Push, MoveTag, ConsoleShutdown, Converged, Code
<1>11. CASE UNCHANGED channelVars
  BY <1>11 DEF Converged, Code
<1> QED
  BY <1>1, <1>2, <1>3, <1>4, <1>5, <1>6, <1>7, <1>8, <1>9, <1>10, <1>11
  DEF ChannelNext, Run, Runner

\* apply waits "for host, Flux and images before clearing the pause": when no
\* shutdown has ended its runner, the marker goes away only when the host and
\* Flux are at the commit that was reviewed, or that is recovered (apply).
THEOREM UnskippedResumesReady == ChannelSpec /\ []Unskipped => ResumesReady
<1> DEFINE Resumed ==
      blocked /\ ~blocked' =>
        Ready(p.target) /\ (p.kind = "run" => p.target = request.preview.commit)
<1>1. ASSUME ChannelInv, Converged, [ChannelNext]_channelVars PROVE Resumed
  <2>1. SUFFICES ASSUME blocked, ~blocked'
                 PROVE  Ready(p.target) /\ (p.kind = "run" => p.target = request.preview.commit)
    OBVIOUS
  <2>2. Unblock
    BY <1>1, <2>1, MarkerStep DEF Block
  <2>3. Ready(p.target)
    BY <1>1, <2>2, SMT DEF Unblock, Converged, Ready, ChannelInv, ChannelTypeOK
  <2> QED
    BY <1>1, <2>2, <2>3 DEF Unblock, ChannelInv, Placed
<1>2. ChannelInit => Converged
  BY DEF ChannelInit, Converged, NoProcess
<1>3. ChannelInv /\ Converged /\ [ChannelNext]_channelVars => [Resumed]_channelVars
  BY <1>1
<1>4. ChannelInv /\ Converged /\ Unskipped /\ [ChannelNext]_channelVars => Converged'
  BY ConvergedStep
<1> QED
  BY <1>2, <1>3, <1>4, ChannelInvariance, PTL DEF ChannelSpec, ResumesReady

=============================================================================

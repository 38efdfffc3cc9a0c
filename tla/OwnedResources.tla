--------------------------- MODULE OwnedResources ---------------------------
(***************************************************************************)
(* The objects a regression run creates on the appliance it tests (models, *)
(* app instances, API keys, identities), the journal that records their    *)
(* ownership, the teardown of the run, the recovery of a run that died,    *)
(* and the evidence from which a run is reported clean.                    *)
(*   dashboard/apps/web/regression/core: journal.ts, live-foundation.ts,   *)
(*   owned-*.ts, model-cleanup.ts, automatic-recovery.ts,                  *)
(*   recovery-adapters.ts, recovery-inventory.ts, cleanup-state.ts         *)
(*                                                                         *)
(* The objects are numbered in the order in which the scenario creates     *)
(* them; plan[i] is the kind of the i-th.  An object has the uid "run"     *)
(* when a request of the run created it and "other" when somebody else     *)
(* put it under the same name.  The reservation of the appliance is here   *)
(* only its holder and the run its annotation names, as far as it decides  *)
(* who is recovered: module LabLease models the Lease itself.              *)
(***************************************************************************)
EXTENDS Naturals, Sequences

CONSTANTS
  Plans,      \* the scenarios: sequences of kinds
  MaxGen,     \* bound: spec generations of an object
  OwnFaults,  \* bound: crashes, failed writes, lost answers, lost leases
  Meddling    \* bound: objects that an administrator removes or replaces

VARIABLES
  plan,       \* the scenario
  obj,        \* the objects of the appliance, under the names of the plan
  tail,       \* names whose Pods, routes or catalogue entries still exist
  wire,       \* the mutating request in flight
  mem, disk,  \* the journal in memory, and as last persisted
  proc, pc, at,  \* the process at work, its step, the entry it is at
  failed,     \* the teardown has met a failure
  fenced,     \* a heartbeat failed: no guard passes any more
  lock,       \* the reservation lab-lock: its holder, and the run its annotation names
  receipt,    \* the private receipt of the reservation
  session,    \* runner-session.json of the launcher
  campaign,   \* the run is a step of a campaign that has not yet tried to recover it
  proof,      \* cleanup-verification.json
  admins,     \* names at which an administrator's object stands
  faults, meddled

appliance == <<obj, tail, wire, admins>>
process == <<proc, pc, at, failed, fenced>>
evidence == <<disk, receipt, session, proof>>
ownedVars == <<plan, obj, tail, wire, mem, disk, proc, pc, at, failed, fenced,
               lock, receipt, session, campaign, proof, admins, faults, meddled>>

Items == DOMAIN plan
Kinds == {"model", "app", "key", "identity"}

ASSUME OwnedAssumption ==
  /\ Plans \subseteq Seq(Kinds)
  /\ MaxGen \in Nat \ {0}
  /\ OwnFaults \in Nat
  /\ Meddling \in Nat

Versioned(i) == plan[i] \in {"model", "app"}

NoObject == [uid |-> "none", gen |-> 0]
NoEntry == [state |-> "absent", uid |-> "none", gen |-> 0]
Quiet == [op |-> "none", item |-> 0, gen |-> 0]
HeldBy(holder, run) == [holder |-> holder, run |-> run]
Vacant == HeldBy("free", "none")
NoProof == [recovered |-> FALSE, disk |-> <<>>, receipt |-> "none"]

(***************************************************************************)
(* What the journal says.                                                  *)
(***************************************************************************)
RecoveryPlan(journal) ==
  {i \in Items : journal[i].state \notin {"absent", "removed"}}

\* The adapters of cleanup: what is found under the name of an entry.
Gone(i) == obj[i].uid = "none"

Recognised(i, entry) ==
  /\ obj[i].uid = entry.uid
  /\ Versioned(i) => obj[i].gen = entry.gen

\* Mutant: the Pods and the catalogue are not looked at.
ObjectGone(i) == Gone(i)

VerifyRemoved(i) == Gone(i) /\ i \notin tail

RecoveryInventoryOpen == RecoveryPlan(disk) # {}

Matches == proof # NoProof /\ proof.disk = disk /\ proof.receipt = receipt

\* What the launcher reports of the run's cleanup from the private files.
AssessCleanup ==
  IF RecoveryInventoryOpen \/ receipt = "requested" THEN "required"
  ELSE IF \/ proc = "run"
          \/ session # "finished" /\ ~(proof.recovered /\ Matches) THEN "unknown"
  ELSE IF Matches \/ \A i \in Items : disk[i] = NoEntry THEN "verified"
  ELSE "unknown"

Held == lock.holder = proc /\ ~fenced

OwnedInit ==
  /\ plan \in Plans
  /\ obj = [i \in Items |-> NoObject]
  /\ tail = {} /\ wire = Quiet /\ admins = {}
  /\ mem = [i \in Items |-> NoEntry] /\ disk = [i \in Items |-> NoEntry]
  /\ proc = "none" /\ pc = "idle" /\ at = 0
  /\ failed = FALSE /\ fenced = FALSE
  /\ lock = Vacant /\ receipt = "none" /\ session = "running" /\ proof = NoProof
  /\ campaign \in BOOLEAN
  /\ faults = 0 /\ meddled = 0

Fault == faults < OwnFaults /\ faults' = faults + 1

\* Persist the journal: writePrivate renames a synced file, or fails.
Persist(journal) ==
  \/ disk' = journal /\ UNCHANGED faults
  \/ disk' = disk /\ Fault

(***************************************************************************)
(* The run.                                                                *)
(***************************************************************************)
Open ==
  /\ pc = "idle" /\ lock.holder = "free"
  /\ proc' = "run" /\ pc' = "create" /\ at' = 1
  /\ lock' = HeldBy("run", "run") /\ receipt' = "requested"
  /\ UNCHANGED <<plan, appliance, mem, disk, failed, fenced, session, proof,
                 faults, meddled, campaign>>

Teardown == pc' = "lookup" /\ at' = Len(plan)

Creating(k) == pc = "create" /\ at <= Len(plan) /\ plan[at] = k

GiveUp == Teardown /\ UNCHANGED <<mem, disk, wire, faults>>

\* The intent is journalled before the request leaves.
Requested(sendable) ==
  /\ mem' = [mem EXCEPT ![at] = [NoEntry EXCEPT !.state = "requested"]]
  /\ Persist(mem')
  /\ IF disk' = mem' /\ sendable
     THEN wire' = [op |-> "create", item |-> at, gen |-> 0] /\ pc' = "answer" /\ at' = at
     ELSE Teardown /\ UNCHANGED wire

CreateUnchanged ==
  UNCHANGED <<plan, obj, tail, admins, proc, failed, fenced, lock, receipt,
              session, proof, meddled, campaign>>

CreateKey ==
  /\ Creating("key") /\ IF Held THEN Requested(TRUE) ELSE GiveUp
  /\ CreateUnchanged

\* The client of a model looks under the name once the intent is journalled.
CreateModel ==
  /\ Creating("model") /\ IF Held THEN Requested(Gone(at)) ELSE GiveUp
  /\ CreateUnchanged

SubmitCreate ==
  /\ Creating("app") /\ IF Held /\ Gone(at) THEN Requested(TRUE) ELSE GiveUp
  /\ CreateUnchanged

CreateIdentity ==
  /\ Creating("identity") /\ IF Held /\ Gone(at) THEN Requested(TRUE) ELSE GiveUp
  /\ CreateUnchanged

\* A later change of a model or an app carries the generation it expects.
Edit(i) ==
  /\ pc = "create" /\ Held /\ i < at /\ Versioned(i)
  /\ mem[i].state = "owned" /\ mem[i].gen < MaxGen
  /\ Recognised(i, mem[i])
  /\ wire' = [op |-> "edit", item |-> i, gen |-> mem[i].gen] /\ pc' = "answer"
  /\ UNCHANGED <<plan, obj, tail, admins, mem, evidence, proc, at, failed,
                 fenced, lock, faults, meddled, campaign>>

ScenarioEnds ==
  /\ pc = "create" /\ at > Len(plan)
  /\ Teardown
  /\ UNCHANGED <<plan, appliance, mem, evidence, proc, failed, fenced, lock,
                 faults, meddled, campaign>>

\* The appliance answers a request, whether or not anybody waits for it.
Serve ==
  /\ \/ /\ wire.op = "create" /\ Gone(wire.item)
        /\ obj' = [obj EXCEPT ![wire.item] = [uid |-> "run", gen |-> 1]]
        /\ tail' = IF Versioned(wire.item) THEN tail \union {wire.item} ELSE tail
        /\ wire' = [wire EXCEPT !.op = "created"]
     \/ /\ wire.op = "edit" /\ obj[wire.item] = [uid |-> "run", gen |-> wire.gen]
        /\ obj' = [obj EXCEPT ![wire.item].gen = @ + 1]
        /\ wire' = [wire EXCEPT !.op = "edited"] /\ UNCHANGED tail
     \/ /\ wire.op \in {"create", "edit"}
        /\ wire' = [wire EXCEPT !.op = "rejected"] /\ UNCHANGED <<obj, tail>>
  /\ UNCHANGED <<plan, admins, mem, evidence, process, lock, faults, meddled, campaign>>

\* The answer names the uid and the generation of what it created.
OwnedEntry(i) ==
  [state |-> "owned", uid |-> "run",
   gen |-> IF Versioned(i) THEN wire.gen + 1 ELSE 0]

\* The acknowledged identity, or generation, becomes durable first of all.
Acknowledged ==
  /\ pc = "answer" /\ wire.op \in {"created", "edited"}
  /\ LET i == wire.item IN
     /\ mem' = [mem EXCEPT ![i] = OwnedEntry(i)]
     /\ Persist(mem')
     /\ IF disk' = mem' THEN pc' = "create" /\ at' = IF i = at THEN at + 1 ELSE at
        ELSE Teardown
  /\ wire' = Quiet
  /\ UNCHANGED <<plan, obj, tail, admins, proc, failed, fenced, lock, receipt,
                 session, proof, meddled, campaign>>

\* A rejected create is closed only when nothing stands under the name.
Rejected ==
  /\ pc = "answer" /\ wire.op = "rejected"
  /\ LET i == wire.item IN
     IF mem[i].state = "requested" /\ Held /\ Gone(i)
     THEN mem' = [mem EXCEPT ![i].state = "removed"] /\ Persist(mem')
     ELSE UNCHANGED <<mem, disk, faults>>
  /\ wire' = Quiet /\ Teardown
  /\ UNCHANGED <<plan, obj, tail, admins, proc, failed, fenced, lock, receipt,
                 session, proof, meddled, campaign>>

\* No answer in time: the request may still be served.
Timeout ==
  /\ pc = "answer" /\ Fault
  /\ wire' = IF wire.op \in {"create", "edit"} THEN wire ELSE Quiet
  /\ Teardown
  /\ UNCHANGED <<plan, obj, tail, admins, mem, evidence, proc, failed, fenced,
                 lock, meddled, campaign>>

(***************************************************************************)
(* ResourceJournal.cleanup, for the run's teardown and for a recovery.     *)
(***************************************************************************)
NextEntry == at' = at - 1 /\ pc' = "lookup"

Blocked ==
  /\ mem' = [mem EXCEPT ![at].state = "blocked"]
  /\ failed' = TRUE /\ NextEntry

Block == Blocked /\ Persist(mem')

CleanUnchanged ==
  UNCHANGED <<plan, wire, admins, proc, fenced, lock, receipt, session, proof,
              meddled, campaign>>

Lookup ==
  /\ pc = "lookup" /\ at > 0
  /\ LET entry == mem[at] IN
     \/ /\ entry.state \in {"absent", "removed"}
        /\ NextEntry /\ UNCHANGED <<mem, disk, failed, faults>>
     \/ /\ entry.state \in {"requested", "owned", "blocked"}
        /\ \/ ~Held \/ entry.uid = "none" \/ ~(Gone(at) \/ Recognised(at, entry))
        /\ Block
     \/ /\ entry.state \in {"owned", "blocked"} /\ entry.uid # "none"
        /\ Held /\ (Gone(at) \/ Recognised(at, entry))
        /\ pc' = IF Gone(at) THEN "verify" ELSE "remove"
        /\ UNCHANGED <<mem, disk, at, failed, faults>>
  /\ UNCHANGED <<obj, tail>> /\ CleanUnchanged

\* The removal carries the uid: it takes effect on that object or on none.
Deletable(i, entry) == Recognised(i, entry)

Remove ==
  /\ pc = "remove"
  /\ \/ /\ Held /\ Deletable(at, mem[at])
        /\ obj' = [obj EXCEPT ![at] = NoObject]
        /\ \/ pc' = "verify" /\ UNCHANGED <<mem, disk, at, failed, faults>>
           \/ Blocked /\ disk' = mem' /\ Fault
     \/ /\ Held /\ Gone(at) /\ plan[at] = "model"
        /\ pc' = "verify" /\ UNCHANGED <<obj, mem, disk, at, failed, faults>>
     \/ /\ ~Held \/ ~(Deletable(at, mem[at]) \/ (Gone(at) /\ plan[at] = "model"))
        /\ Block /\ UNCHANGED obj
  /\ UNCHANGED tail /\ CleanUnchanged

\* Verification polls the object, its Pods, its route or catalogue entry,
\* under the guard except where the run verifies a key or an identity.
Polled(i) == Versioned(i) \/ proc = "recovery"

Verify ==
  /\ pc = "verify"
  /\ \/ /\ VerifyRemoved(at) /\ (Held \/ ~Polled(at))
        /\ \/ /\ mem' = [mem EXCEPT ![at].state = "removed"]
              /\ disk' = mem' /\ NextEntry /\ UNCHANGED <<failed, faults>>
           \/ Blocked /\ disk' \in {disk, mem'} /\ Fault
     \/ ~Gone(at) /\ Block
     \/ ~Held /\ Polled(at) /\ Block
     \/ at \in tail /\ Blocked /\ disk' = mem' /\ Fault
  /\ UNCHANGED <<obj, tail>> /\ CleanUnchanged

(***************************************************************************)
(* After the journal: the final checks, the release, the attestation.      *)
(***************************************************************************)
Stop(step) ==
  /\ pc' = step /\ proc' = "none" /\ at' = 0
  /\ failed' = FALSE /\ fenced' = FALSE
  /\ mem' = [i \in Items |-> NoEntry]

Clean == ~failed /\ Held /\ ~RecoveryInventoryOpen /\ RecoveryPlan(mem) = {}

\* Every entry, removed and rejected ones too, is verified once more.
Finish ==
  /\ pc = "lookup" /\ at = 0
  /\ \/ /\ Clean /\ \A i \in Items : mem[i] # NoEntry => VerifyRemoved(i)
        /\ pc' = "released" /\ lock' = [lock EXCEPT !.holder = "free"]
        /\ UNCHANGED <<mem, proc, at, failed, fenced, session>>
     \/ /\ ~(Clean /\ \A i \in Items : mem[i] # NoEntry => Gone(i))
        /\ Stop("ended") /\ UNCHANGED lock
        /\ session' = IF proc = "run" THEN "finished" ELSE session
  /\ UNCHANGED <<plan, appliance, disk, receipt, proof, faults, meddled, campaign>>

\* The run completes its own receipt; a recovery first sees the Lease free.
CompleteReceipt ==
  /\ pc = "released"
  /\ IF proc = "recovery" /\ lock.holder # "free"
     THEN Stop("ended") /\ UNCHANGED receipt
     ELSE receipt' = "released" /\ pc' = "attest"
          /\ UNCHANGED <<mem, proc, at, failed, fenced>>
  /\ UNCHANGED <<plan, appliance, disk, lock, session, proof, faults, meddled, campaign>>

AttestCleanup ==
  /\ pc = "attest"
  /\ \/ /\ ~RecoveryInventoryOpen /\ receipt # "requested"
        /\ proof' = [recovered |-> proc = "recovery", disk |-> disk,
                     receipt |-> receipt]
        /\ UNCHANGED faults
     \/ Fault /\ UNCHANGED proof
  /\ Stop("ended")
  /\ session' = IF proc = "run" THEN "finished" ELSE session
  /\ UNCHANGED <<plan, appliance, disk, lock, receipt, meddled, campaign>>

(***************************************************************************)
(* Recovery of a run whose processes have ended.                           *)
(***************************************************************************)
Drained == wire.op \notin {"create", "edit"}

Validated ==
  \A i \in RecoveryPlan(disk) : Gone(i) \/ Recognised(i, disk[i])

\* AutomaticRecovery is of the run that the Lease names, and of no other: every
\* later acquisition overwrites that name.
Recoverable ==
  /\ proc = "none" /\ pc = "ended" /\ Drained
  /\ AssessCleanup # "verified" /\ lock.run = "run"

\* Everything recorded is compared with what is there before the claim of a
\* reservation that has expired, by the next bootstrap or by the campaign.
Claim ==
  /\ Recoverable /\ lock.holder \in {"run", "recovery"} /\ Validated
  /\ proc' = "recovery" /\ lock' = HeldBy("recovery", "run") /\ mem' = disk
  /\ pc' = "absent" /\ at' = Len(plan)
  /\ wire' = Quiet /\ campaign' \in {campaign, FALSE}
  /\ UNCHANGED <<plan, obj, tail, admins, evidence, failed, fenced, faults,
                 meddled>>

\* A reservation that is free already is only verified and attested.
FreeIsClosed ==
  /\ lock.holder = "free" /\ RecoveryPlan(disk) = {}
  /\ \A i \in Items : disk[i] # NoEntry => VerifyRemoved(i)
ClaimFree ==
  /\ Recoverable /\ FreeIsClosed
  /\ proc' = "recovery" /\ mem' = disk /\ pc' = "released" /\ at' = 0
  /\ wire' = Quiet
  /\ UNCHANGED <<plan, obj, tail, admins, evidence, failed, fenced, lock,
                 faults, meddled>>

\* A bootstrap recovers what has expired; what is free it recovers only where an
\* administrator asks for the cleanup of that very release.
RequestedRecovery == ClaimFree /\ UNCHANGED campaign

\* A campaign tries once, after its child has finished, whatever comes of it.
CampaignRecovery ==
  /\ campaign /\ campaign' = FALSE
  /\ proc = "none" /\ pc = "ended" /\ AssessCleanup # "verified"
  /\ \/ session = "finished" /\ ClaimFree
     \/ /\ \/ session # "finished" \/ lock.run # "run"
           \/ lock.holder = "free" /\ ~FreeIsClosed
           \/ lock.holder \in {"run", "recovery"} /\ ~Validated
        /\ UNCHANGED <<plan, appliance, mem, evidence, process, lock, faults, meddled>>

\* An interrupted campaign tries nothing.
CampaignStops ==
  /\ campaign /\ campaign' = FALSE
  /\ UNCHANGED <<plan, appliance, mem, evidence, process, lock, faults, meddled>>

\* An entry without a uid is closed when its object is independently absent.
RecoverAbsent ==
  /\ pc = "absent"
  /\ LET open == {i \in RecoveryPlan(mem) : mem[i].uid = "none"} IN
     \/ /\ open = {} /\ Teardown
        /\ UNCHANGED <<mem, disk, faults, proc, failed, fenced>>
     \/ \E i \in open :
        /\ i = CHOOSE j \in open : \A k \in open : j <= k
        /\ \/ /\ Held /\ VerifyRemoved(i)
              /\ mem' = [mem EXCEPT ![i].state = "removed"]
              /\ disk' = mem' /\ UNCHANGED <<proc, pc, at, failed, fenced, faults>>
           \/ /\ ~Held \/ ~Gone(i)
              /\ Stop("ended") /\ UNCHANGED <<disk, faults>>
  /\ UNCHANGED <<plan, appliance, lock, receipt, session, proof, meddled, campaign>>

(***************************************************************************)
(* The environment.                                                        *)
(***************************************************************************)
\* The process dies; its launcher may live on and finish the session.
Crash ==
  /\ proc # "none" /\ Fault
  /\ Stop("ended")
  /\ session' \in IF proc = "run" THEN {session, "finished"} ELSE {session}
  /\ wire' = IF Drained THEN Quiet ELSE wire
  /\ UNCHANGED <<plan, obj, tail, admins, disk, lock, receipt, proof, meddled, campaign>>

\* The heartbeat of the process at work fails, and stays failed.
LoseLease ==
  /\ proc # "none" /\ lock.holder = proc /\ ~fenced /\ Fault
  /\ fenced' = TRUE
  /\ UNCHANGED <<plan, appliance, mem, evidence, proc, pc, at, failed, lock,
                 meddled, campaign>>

\* Another run reserves the free appliance, and releases it.
OtherRun ==
  /\ pc \in {"released", "attest", "ended"}
  /\ \/ lock.holder = "free" /\ lock' = HeldBy("other", "other") /\ Fault
     \/ lock.holder = "other" /\ lock' = [lock EXCEPT !.holder = "free"] /\ UNCHANGED faults
  /\ UNCHANGED <<plan, appliance, mem, evidence, process, meddled, campaign>>

\* The operator deletes what belonged to an object that is gone.
Collect ==
  /\ \E i \in tail : Gone(i) /\ tail' = tail \ {i}
  /\ UNCHANGED <<plan, obj, wire, admins, mem, evidence, process, lock, faults,
                 meddled, campaign>>

\* An administrator deletes an object, edits it, or puts another in its place.
Meddle(i) ==
  /\ meddled < Meddling /\ meddled' = meddled + 1 /\ pc # "idle"
  /\ \/ /\ obj[i].uid = "run" /\ obj' = [obj EXCEPT ![i] = NoObject]
        /\ UNCHANGED admins
     \/ /\ obj[i].uid = "run" /\ Versioned(i)
        /\ obj' = [obj EXCEPT ![i].gen = @ + 1] /\ UNCHANGED admins
     \/ /\ obj' = [obj EXCEPT ![i] = [uid |-> "other", gen |-> 1]]
        /\ admins' = admins \union {i}
  /\ UNCHANGED <<plan, tail, wire, mem, evidence, process, lock, faults, campaign>>

RunStep ==
  \/ Open \/ CreateKey \/ CreateModel \/ SubmitCreate \/ CreateIdentity
  \/ ScenarioEnds \/ Acknowledged \/ Rejected

CleanStep ==
  \/ Lookup \/ Remove \/ Verify \/ Finish \/ CompleteReceipt \/ AttestCleanup
  \/ RecoverAbsent

OwnedNext ==
  \/ RunStep \/ CleanStep
  \/ Claim \/ RequestedRecovery \/ CampaignRecovery \/ CampaignStops
  \/ Serve \/ Collect \/ Timeout \/ Crash \/ LoseLease \/ OtherRun
  \/ \E i \in Items : Edit(i) \/ Meddle(i)

OwnedFairness ==
  /\ WF_ownedVars(RunStep) /\ WF_ownedVars(CleanStep)
  /\ WF_ownedVars(Claim) /\ WF_ownedVars(CampaignRecovery)
  /\ WF_ownedVars(Serve) /\ WF_ownedVars(Collect)
  /\ WF_ownedVars(lock.holder = "other" /\ OtherRun)

(***************************************************************************)
(* What the run owes the appliance.                                        *)
(***************************************************************************)
OwnedTypeOK ==
  /\ plan \in Plans
  /\ obj \in [Items -> [uid : {"none", "run", "other"}, gen : 0 .. MaxGen + Meddling]]
  /\ {mem, disk} \subseteq
       [Items -> [state : {"absent", "requested", "owned", "removed", "blocked"},
                  uid : {"none", "run"}, gen : 0 .. MaxGen]]
  /\ lock \in [holder : {"free", "run", "recovery", "other"}, run : {"none", "run", "other"}]
  /\ campaign \in BOOLEAN

\* Neither the teardown nor a recovery ever removes an object that somebody
\* else put under a name of the run, however late the replacement comes:
\* ResourceJournal.cleanup and the uid preconditions of its adapters.
ForeignKept == \A i \in admins : obj[i].uid = "other"

\* Whatever the run has created is open in the journal on disk, also when
\* an answer is lost, a write of the journal fails or the run dies: the
\* persist-before-request order of ResourceJournal.requested.
DurableIntent ==
  \A i \in Items : obj[i].uid = "run" => i \in RecoveryPlan(disk)

\* Nothing that the run created, no Pod and no catalogue entry of it is left,
\* and no request of it can still create one.
NothingLeft ==
  /\ \A i \in Items : obj[i].uid # "run"
  /\ \A i \in tail : i \in admins
  /\ wire.op # "create"

\* A run is reported clean only when nothing of it is left: assessCleanup, from
\* files alone, after any crash and any recovery.
VerifiedClean == AssessCleanup = "verified" => NothingLeft

\* Another run gets the appliance, and overwrites the name by which this one
\* would be recovered, only when nothing of this one is left: the Lease is
\* given back behind the final checks, never by whoever finds it expired.
LaterRunFindsClean == lock.run = "other" => NothingLeft

\* The cleanup of a run is safe: its records have their form, nobody else's
\* object is removed, nothing of the run goes unrecorded, "clean" is true, and
\* the next run starts on an appliance that is clean.
CleanupSafe ==
  OwnedTypeOK /\ ForeignKept /\ DurableIntent /\ VerifiedClean /\ LaterRunFindsClean

\* An object under a journalled name that the journal does not prove to be
\* the run's: a replacement, an unrecorded edit, an unacknowledged create.
Unproven ==
  \E i \in Items :
    disk[i] # NoEntry /\ ~Gone(i)
    /\ ~(disk[i].state \in {"owned", "blocked"} /\ Recognised(i, disk[i]))

\* The run gave the Lease back, so everything was removed and verified, but died
\* before the receipt or the attestation of it was on disk: there is nothing to
\* recover, nobody has to, and once a later run is named nobody can.
Unattested ==
  lock.holder \in {"free", "other"} /\ ~RecoveryInventoryOpen /\ ~campaign

CleanupSettled == AssessCleanup = "verified" \/ Unproven \/ Unattested

\* Every run that has left something behind ends up reported clean, by its own
\* teardown or by a recovery, unless an object stands there that recovery must
\* not touch; a run that only lacks its attestation is not taken up again by
\* itself.  AutomaticRecovery finishes whatever was interrupted, itself included.
Settled == <>[]CleanupSettled

\* What the code does not do (a run that died behind the release): every run
\* is at last attested.
EveryRunAttested == <>[](AssessCleanup = "verified" \/ Unproven)

OwnedSpec == OwnedInit /\ [][OwnedNext]_ownedVars /\ OwnedFairness

=============================================================================

--------------------------- MODULE GpuValidation ---------------------------
(***************************************************************************)
(* The engine validation of one physical card on the real appliance        *)
(* (hardware/validation-workflow.ts, core/gpu-scenario.ts): the request is *)
(* recorded and sent through the dashboard, the controller starts a Job,   *)
(* and the run credits the card only when it saw the allocation of that    *)
(* very Pod.                                                               *)
(*                                                                         *)
(* Job list, inventory, Pod list, claim and Pod are separate reads of a    *)
(* cluster that goes on: Kubernetes clears an allocation as soon as the    *)
(* last consumer completes, so a Pod may be read running and its claim     *)
(* already free.  A claim names one card, but what the allocator did is    *)
(* what is being tested: it may have given another one.                    *)
(***************************************************************************)
EXTENDS Integers, FiniteSets

CONSTANTS
  LateSharers,      \* another workload may take the claim after the Pod is done (BOOLEAN)
  PendingLimit,     \* polls that an allocation may stay out of sight
  ValidationFaults  \* how many faults may happen

ASSUME ValidationAssumption == LateSharers \in BOOLEAN /\ PendingLimit \in Nat /\ ValidationFaults \in Nat

VARIABLES
  backend,     \* how cards are allocated: "device-plugin" or "dra"
  cards,       \* the number of cards of the vendor in the node
  asked,       \* verification-<n>.json and the request: "none", "file", "sent"
  job,         \* the validation Job: "none", "open", "complete", "failed"
  pod,         \* the phase of the Job's only Pod (its backoffLimit is 0)
  claim,       \* the ResourceClaim of the card: uid, alloc, users
  ran,         \* history: the device the engine really ran on
  validationResult,      \* the card's published validation: "none", "passed"
  watch,       \* the run: pc and what it read in this poll
  allocated,   \* the claim whose allocation was verified for the Pod, or 0
  pending,     \* the claim the Pod waits for, and for how many polls
  bound,       \* the Pod is credited with the card
  unseen,      \* history: an engine completed with no poll in between
  validationFaults

validationVars == <<backend, cards, asked, job, pod, claim, ran, validationResult, watch,
                    allocated, pending, bound, unseen, validationFaults>>
clusterVars == <<backend, cards, job, pod, claim, ran, validationResult, unseen>>
evidence == <<allocated, pending, bound>>

\* The consumers of the claim: the validation Pod and another workload.
Pod == "pod"
Workload == "workload"
LivePods == {"pending", "scheduled", "running", "succeeded"}
NoPending == [uid |-> 0, age |-> 0]
NoView == [job |-> "none", result |-> "none", phase |-> "absent",
           uid |-> 0, alloc |-> "none", users |-> {}]

ValidationInit ==
  /\ backend \in {"device-plugin", "dra"} /\ cards \in {1, 2}
  /\ asked = "none" /\ job = "none" /\ pod = "absent"
  /\ claim = [uid |-> 1, alloc |-> "none", users |-> {}]
  /\ ran = "none" /\ validationResult = "none"
  /\ watch = [pc |-> "prepare", view |-> NoView]
  /\ allocated = 0 /\ pending = NoPending /\ bound = FALSE
  /\ unseen = FALSE /\ validationFaults = 0

VFault == validationFaults < ValidationFaults /\ validationFaults' = validationFaults + 1
On(s) == watch.pc = s
Move(s) == watch' = [watch EXCEPT !.pc = s]
Fails == Move("failed")
Seen == watch.view

(***************************************************************************)
(* The cluster (external).                                                 *)
(***************************************************************************)
ControllerStarts ==
  /\ asked = "sent" /\ job = "none" /\ job' = "open"
  /\ pod' = "pending"
  /\ UNCHANGED <<backend, cards, claim, ran, validationResult, unseen, asked, watch, evidence, validationFaults>>

\* The scheduler reserves the claim before it binds the Pod; a reservation that
\* shows up after the binding is allowed for while nobody else uses the claim.
Reserving == pod = "scheduled" /\ Pod \notin claim.users

Schedule ==
  /\ pod = "pending" /\ (backend = "dra" => claim.users \in {{}, {Pod}, {Pod, Workload}})
  /\ pod' = "scheduled"
  /\ UNCHANGED <<backend, cards, job, claim, ran, validationResult, unseen, asked, watch, evidence, validationFaults>>

\* The card the claim names, unless the allocator is wrong.
Allocate(u, device) ==
  /\ backend = "dra" /\ u \notin claim.users
  /\ claim' = [claim EXCEPT !.users = @ \cup {u},
                            !.alloc = IF claim.alloc = "none" THEN device ELSE claim.alloc]
  /\ device = "other" => claim.alloc = "none" /\ validationFaults < ValidationFaults
  /\ validationFaults' = validationFaults + (IF device = "other" THEN 1 ELSE 0)
  /\ UNCHANGED <<backend, cards, job, pod, ran, validationResult, unseen, asked, watch, evidence>>

AllocatePod(device) == pod \in {"pending", "scheduled"} /\ Allocate(Pod, device)
\* A model that shares the card.
AllocateWorkload(device) ==
  /\ LateSharers \/ pod \notin {"succeeded", "gone"}
  /\ ~Reserving
  /\ Allocate(Workload, device)

StartEngine ==
  /\ pod = "scheduled" /\ (backend = "dra" => Pod \in claim.users)
  /\ \E d \in IF backend = "dra" THEN {claim.alloc} ELSE IF cards = 1 THEN {"card"} ELSE {"card", "other"} :
       ran' = d
  /\ pod' = "running"
  /\ UNCHANGED <<backend, cards, job, claim, validationResult, unseen, asked, watch, evidence, validationFaults>>

ValidationComplete ==
  /\ pod = "running" /\ pod' = "succeeded"
  /\ unseen' = (unseen \/ (backend = "dra" /\ allocated = 0))
  /\ UNCHANGED <<backend, cards, job, claim, ran, validationResult, asked, watch, evidence, validationFaults>>

Deallocate(u) ==
  /\ u \in claim.users /\ (IF u = Workload THEN TRUE ELSE pod \in {"succeeded", "gone"})
  /\ claim' = [claim EXCEPT !.users = @ \ {u}, !.alloc = IF claim.users = {u} THEN "none" ELSE @]
  /\ UNCHANGED <<backend, cards, job, pod, ran, validationResult, unseen, asked, watch, evidence, validationFaults>>

ControllerPublishes ==
  /\ job = "open" /\ pod = "succeeded"
  /\ job' = "complete" /\ validationResult' = "passed"
  /\ UNCHANGED <<backend, cards, pod, claim, ran, unseen, asked, watch, evidence, validationFaults>>

\* Faults: an evicted or failed Pod, a Pod removed early, a replaced claim.
Evict ==
  /\ pod \in {"pending", "scheduled", "running"} /\ job = "open" /\ VFault
  /\ pod' = "gone" /\ job' = "failed"
  /\ UNCHANGED <<backend, cards, claim, ran, validationResult, unseen, asked, watch, evidence>>

RemovePod ==
  /\ pod = "succeeded" /\ VFault /\ pod' = "gone"
  /\ UNCHANGED <<backend, cards, job, claim, ran, validationResult, unseen, asked, watch, evidence>>

ReplaceClaim ==
  /\ backend = "dra" /\ claim.users = {} /\ claim.uid < 3 /\ VFault
  /\ claim' = [claim EXCEPT !.uid = @ + 1]
  /\ UNCHANGED <<backend, cards, job, pod, ran, validationResult, unseen, asked, watch, evidence>>

\* The node's allocator is changed while the request is on its way.
ChangeBackend ==
  /\ backend = "dra" /\ pod = "absent" /\ claim.users = {} /\ VFault /\ backend' = "device-plugin"
  /\ UNCHANGED <<cards, job, pod, claim, ran, validationResult, unseen, asked, watch, evidence>>

(***************************************************************************)
(* The request.                                                            *)
(***************************************************************************)
\* Extended resources cannot select one of several cards: DRA is borrowed.
PrepareValidation ==
  /\ On("prepare")
  /\ \/ /\ cards > 1 /\ backend # "dra"
        /\ \/ backend' = "dra" /\ Move("request")
           \/ Move("blocked") /\ UNCHANGED backend
     \/ ~(cards > 1 /\ backend # "dra") /\ Move("request") /\ UNCHANGED backend
  /\ UNCHANGED <<asked, cards, job, pod, claim, ran, validationResult, unseen, evidence, validationFaults>>

\* Recorded, then confirmed in the browser; a lost answer ends the run.
RequestValidationUi ==
  /\ On("request")
  /\ \/ asked = "none" /\ asked' = "file" /\ UNCHANGED <<watch, validationFaults>>
     \/ asked = "file" /\ asked' = "sent" /\ Move("jobs") /\ UNCHANGED validationFaults
     \/ asked = "file" /\ asked' \in {"file", "sent"} /\ VFault /\ Fails
  /\ UNCHANGED <<clusterVars, evidence>>

(***************************************************************************)
(* One poll: five reads.                                                   *)
(***************************************************************************)
ReadJobs ==
  /\ On("jobs")
  /\ IF job = "failed" THEN Fails
     ELSE watch' = [pc |-> "inventory", view |-> [NoView EXCEPT !.job = job]]
  /\ UNCHANGED <<clusterVars, asked, evidence, validationFaults>>

ReadInventory ==
  /\ On("inventory")
  /\ watch' = [pc |-> "pods", view |-> [Seen EXCEPT !.result = validationResult]]
  /\ UNCHANGED <<clusterVars, asked, evidence, validationFaults>>

\* Only the Pod of a Job that was listed; one that is not scheduled yet is
\* looked at again in the next poll.
ListPods ==
  /\ On("pods")
  /\ IF Seen.job = "none" \/ pod \notin LivePods \/ (backend = "dra" /\ pod = "pending")
     THEN Move("decide")
     ELSE watch' = [pc |-> "claim", view |-> [Seen EXCEPT !.phase = pod]]
  /\ UNCHANGED <<clusterVars, asked, evidence, validationFaults>>

ReadClaim ==
  /\ On("claim")
  /\ watch' = [pc |-> "judge", view |-> [Seen EXCEPT !.uid = claim.uid, !.alloc = claim.alloc,
                                                     !.users = claim.users]]
  /\ UNCHANGED <<clusterVars, asked, evidence, validationFaults>>

Unallocated == Seen.alloc = "none"

\* Scheduled, not started, nothing verified yet: wait for this claim, not long.
AllocationPending == Unallocated /\ Seen.phase = "scheduled" /\ allocated = 0

\* A Pod that was waiting must still find the claim it waited for.
SameClaim == pending.uid \in {0, Seen.uid}

\* A verified allocation is gone and the Pod was read before it completed.
DeallocationRaced == Unallocated /\ allocated # 0 /\ Seen.phase # "succeeded"

\* Only the allocation verified for this Pod, on the same claim, may be reused.
PreviousProof == allocated = Seen.uid /\ Seen.users = {}

\* The independently observed allocation names the card.
NvidiaValidationBinding == Seen.alloc = "card"

Bind == bound' = (bound \/ Seen.phase = "succeeded")

JudgePlugin ==
  /\ On("judge") /\ backend # "dra"
  /\ IF cards = 1 THEN Bind /\ Move("decide") ELSE Fails /\ UNCHANGED bound
  /\ UNCHANGED <<clusterVars, asked, allocated, pending, validationFaults>>

JudgePending ==
  /\ On("judge") /\ backend = "dra" /\ SameClaim /\ AllocationPending
  /\ IF pending.age < PendingLimit
     THEN /\ pending' = [uid |-> Seen.uid, age |-> pending.age + 1]
          /\ Move("decide")
     ELSE Fails /\ UNCHANGED pending
  /\ UNCHANGED <<clusterVars, asked, allocated, bound, validationFaults>>

\* The Pod is read once more when the two reads disagree.
Reread ==
  /\ On("judge") /\ backend = "dra" /\ SameClaim /\ ~AllocationPending /\ DeallocationRaced
  /\ IF pod = "succeeded"
     THEN watch' = [watch EXCEPT !.view.phase = "succeeded"]
     ELSE Fails
  /\ UNCHANGED <<clusterVars, asked, evidence, validationFaults>>

JudgeBinding ==
  /\ On("judge") /\ backend = "dra" /\ ~(SameClaim /\ (AllocationPending \/ DeallocationRaced))
  /\ LET proof == IF Unallocated /\ Seen.phase = "succeeded" THEN PreviousProof ELSE NvidiaValidationBinding
         known == allocated \in {0, Seen.uid} IN
       IF SameClaim /\ proof /\ (Seen.phase # "succeeded" => known)
       THEN /\ Bind /\ Move("decide")
            /\ allocated' = IF Seen.phase # "succeeded" THEN Seen.uid ELSE allocated
            /\ pending' = IF Unallocated THEN pending ELSE NoPending
       ELSE Fails /\ UNCHANGED evidence
  /\ UNCHANGED <<clusterVars, asked, validationFaults>>

\* Published, complete when the Job was read, and bound by an own observation.
CompletedValidation ==
  /\ On("decide")
  /\ Move(IF Seen.result = "passed" /\ Seen.job = "complete" /\ bound THEN "credited" ELSE "jobs")
  /\ UNCHANGED <<clusterVars, asked, evidence, validationFaults>>

ValidationTimesOut ==
  /\ On("decide") /\ ~bound /\ job # "none"
  /\ pod = "gone" /\ Fails
  /\ UNCHANGED <<clusterVars, asked, evidence, validationFaults>>

ClusterSteps ==
  \/ ControllerStarts \/ ControllerPublishes
  \/ Schedule \/ AllocatePod("card") \/ StartEngine \/ ValidationComplete \/ Deallocate(Pod)
WatchSteps ==
  \/ PrepareValidation \/ RequestValidationUi \/ ReadJobs \/ ReadInventory \/ ListPods
  \/ ReadClaim \/ JudgePlugin \/ JudgePending \/ Reread \/ JudgeBinding \/ CompletedValidation
ValidationNext ==
  \/ ClusterSteps \/ WatchSteps \/ ValidationTimesOut
  \/ AllocatePod("other") \/ RemovePod
  \/ AllocateWorkload("card") \/ AllocateWorkload("other") \/ Deallocate(Workload)
  \/ Evict \/ ReplaceClaim \/ ChangeBackend
ValidationSpec == ValidationInit /\ [][ValidationNext]_validationVars

(***************************************************************************)
(* Correctness                                                             *)
(***************************************************************************)
\* A Pod is credited with the requested card only when its engine ran on that
\* card: no completed Pod, replaced claim or allocation of a later consumer can
\* stand in for the observation ("an unseen claim cannot invent the earlier
\* physical-device proof").
ValidationTrue == bound => ran = "card"

\* A sound validation is not failed by the reads disagreeing: a failure has a
\* fault behind it, an engine that completed between two polls, or an
\* allocation that stayed out of sight for the whole window.
FailureTrue ==
  On("failed") => validationFaults > 0 \/ unseen \/ pending.age >= PendingLimit
=============================================================================

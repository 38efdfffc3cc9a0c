------------------------------ MODULE Campaign ------------------------------
(***************************************************************************)
(* A regression campaign (launch.mjs): a coordinator runs the phases one   *)
(* after the other, each phase coordinator runs its steps one after the    *)
(* other, every one in a process of its own, and takes their evidence from *)
(* private files.  A live step whose cleanup is not verified raises the    *)
(* recovery fence: later live steps are refused until one recovery of      *)
(* exactly that step has been proved.                                      *)
(*                                                                         *)
(* Module LeafRun models what goes on inside a step and is the reason why  *)
(* a step's receipt can be believed here; OwnedResources models what a     *)
(* recovery does.                                                          *)
(***************************************************************************)
EXTENDS Naturals, Sequences

CONSTANTS
  Phases,         \* the phases: sequences of steps, "fixture" or "live"
  CampaignFaults  \* bound: killed processes, failed cleanups, lost receipts

\* selections.ts, test-mode.ts: a phase ends with a live step in every mode.
ASSUME PhasesAssumption ==
  /\ Phases \in Seq(Seq({"fixture", "live"}))
  /\ \A p \in DOMAIN Phases : Phases[p] # <<>> /\ Phases[p][Len(Phases[p])] = "live"

VARIABLES
  apc, ph,        \* the campaign coordinator: its step, the phase it is at
  ppc, st,        \* the coordinator of that phase: its step, the step it is at
  run,            \* the state of each step's process
  result,         \* the outcome a step reports
  left,           \* runs of which something is left on the appliance
  proven,         \* runs with a valid proof of their cleanup
  manifest,       \* child-runs.json of each phase
  slot,           \* the run whose receipt lies in the phase's directory
  rows,           \* the rows each phase coordinator has collected
  fenceA, causeA, \* REGRESSION_RECOVERY_FENCE and _CAUSE of the campaign
  fenceP, causeP, \* the same of the phase
  halt,           \* "no", "CANCELLED" by a signal, or the "DEADLINE"
  ended,          \* the outcomes of the phases that have ended
  killed,         \* phases whose coordinator was killed
  code,           \* the campaign's exit code; 9 before it exits
  campaignFaults

phaseVars == <<ppc, st, fenceP, causeP>>
allVars == <<apc, ph, fenceA, causeA, ended, code>>
campaignVars == <<apc, ph, ppc, st, run, result, left, proven, manifest, slot,
                  rows, fenceA, causeA, fenceP, causeP, halt, ended, killed, code,
                  campaignFaults>>

Steps(p) == DOMAIN Phases[p]
Runs == UNION {{<<p, s, k>> : s \in Steps(p), k \in {"step", "recovery"}} : p \in DOMAIN Phases}
Live(r) == r[3] = "recovery" \/ Phases[r[1]][r[2]] = "live"
NoRun == <<0, 0, "none">>

Step == <<ph, st, "step">>
Recovery == <<ph, st, "recovery">>

CFault == campaignFaults < CampaignFaults /\ campaignFaults' = campaignFaults + 1

CampaignInit ==
  /\ apc = "next" /\ ph = 0 /\ ppc = "none" /\ st = 0
  /\ run = [r \in Runs |-> "none"] /\ result = [r \in Runs |-> "none"]
  /\ left = {} /\ proven = {}
  /\ manifest = [p \in DOMAIN Phases |-> {}] /\ slot = NoRun
  /\ rows = [p \in DOMAIN Phases |-> {}]
  /\ fenceA = FALSE /\ causeA = NoRun /\ fenceP = FALSE /\ causeP = NoRun
  /\ halt = "no" /\ ended = <<>> /\ killed = {} /\ code = 9 /\ campaignFaults = 0

(***************************************************************************)
(* Cleanup, as judged from the files of a run and of its children.         *)
(***************************************************************************)
\* Isolated steps do not touch the appliance and have nothing to prove.
AssessRunCleanup(p) ==
  manifest[p] # {} /\ \A r \in manifest[p] : Live(r) => r \in proven

\* The first cause is kept; a fence that is not active clears both.
InheritRecoveryCause(cause, failures) ==
  IF cause # NoRun THEN cause
  ELSE IF failures = {} THEN NoRun
  ELSE CHOOSE r \in failures : \A q \in failures : r[2] <= q[2]

(***************************************************************************)
(* A phase.                                                                *)
(***************************************************************************)
\* The step's identity is durable before its process exists.
PhaseNext ==
  /\ ppc = "next"
  /\ \/ /\ halt # "no" \/ st = Len(Phases[ph])
        /\ ppc' = "save" /\ UNCHANGED <<st, slot, manifest>>
     \/ /\ halt = "no" /\ st < Len(Phases[ph])
        /\ st' = st + 1 /\ slot' = NoRun /\ ppc' = "spawn"
        /\ manifest' = [manifest EXCEPT ![ph] = @ \union {<<ph, st', "step">>}]
  /\ UNCHANGED <<allVars, run, result, left, proven, rows, fenceP, causeP, halt,
                 killed, campaignFaults>>

\* A live step is refused at its entry while the fence is up: all its cases
\* are reported blocked, and it has no journal that could prove anything.
Refused == Live(Step) /\ fenceP

SpawnStep ==
  /\ ppc = "spawn" /\ ppc' = "child"
  /\ run' = [run EXCEPT ![Step] = IF Refused THEN "ended" ELSE "running"]
  /\ result' = [result EXCEPT ![Step] = IF Refused THEN "Blocked" ELSE @]
  /\ slot' = IF Refused THEN Step ELSE slot
  /\ left' = IF Live(Step) /\ ~Refused THEN left \union {Step} ELSE left
  /\ UNCHANGED <<allVars, proven, manifest, rows, st, fenceP, causeP, halt, killed,
                 campaignFaults>>

\* A step ends, cleaned up or not, and writes its receipt last of all.
StepEnds(r) ==
  /\ run[r] = "running" /\ r[3] = "step"
  /\ run' = [run EXCEPT ![r] = "ended"]
  /\ \/ /\ left' = left \ {r} /\ proven' = proven \union {r}
        /\ \E o \in {"Passed", "Failed"} : result' = [result EXCEPT ![r] = o]
        /\ UNCHANGED campaignFaults
     \/ /\ Live(r) /\ CFault /\ UNCHANGED <<left, proven>>
        /\ result' = [result EXCEPT ![r] = "Failed"]
  /\ slot' = IF r = Step THEN r ELSE slot
  /\ UNCHANGED <<allVars, phaseVars, manifest, rows, halt, killed>>

\* The launcher of a step is killed: its process group goes on without it.
StepKilled(r) ==
  /\ run[r] = "running" /\ CFault
  /\ run' = [run EXCEPT ![r] = "orphan"] /\ result' = [result EXCEPT ![r] = "Failed"]
  /\ UNCHANGED <<allVars, phaseVars, left, proven, manifest, slot, rows, halt,
                 killed>>

OrphanEnds(r) ==
  /\ run[r] = "orphan" /\ run' = [run EXCEPT ![r] = "ended"]
  /\ left' \in {left, left \ {r}}
  /\ UNCHANGED <<allVars, phaseVars, result, proven, manifest, slot, rows, halt,
                 killed, campaignFaults>>

\* Only the receipt of exactly this run is believed; without it the step has
\* failed, or is blocked when the campaign was cancelled.
ChildEvidence(r) ==
  IF slot = r THEN result[r] ELSE IF halt = "CANCELLED" THEN "Blocked" ELSE "Failed"

Collected(r) == rows' = [rows EXCEPT ![ph] = @ \union {<<r, ChildEvidence(r)>>}]

\* Mutant: the recovery of a step ends the fence whatever it reports.
RecoveryTakenOptimistic ==
  /\ ppc = "recovery" /\ run[Recovery] \in {"ended", "orphan"}
  /\ Collected(Recovery) /\ ppc' = "next"
  /\ fenceP' = FALSE /\ causeP' = NoRun
  /\ UNCHANGED <<allVars, run, result, left, proven, manifest, slot, st, halt,
                 killed, campaignFaults>>

\* The evidence of a step: an unverified cleanup raises the fence, and the
\* first one in a phase is followed by one attempt to recover.
StepTaken ==
  /\ ppc = "child" /\ run[Step] \in {"ended", "orphan"}
  /\ Collected(Step)
  /\ LET open == Live(Step) /\ Step \notin proven
         recover == open /\ ~fenceP /\ halt # "CANCELLED" IN
     /\ fenceP' = (fenceP \/ open)
     /\ causeP' = IF open
                  THEN InheritRecoveryCause(causeP,
                         IF ChildEvidence(Step) = "Failed" THEN {Step} ELSE {})
                  ELSE causeP
     /\ ppc' = IF recover THEN "recover" ELSE "next"
     /\ manifest' = IF recover
                    THEN [manifest EXCEPT ![ph] = @ \union {Recovery}] ELSE manifest
     /\ slot' = IF recover THEN NoRun ELSE slot
  /\ UNCHANGED <<allVars, run, result, left, proven, st, halt, killed,
                 campaignFaults>>

SpawnRecovery ==
  /\ ppc = "recover" /\ ppc' = "recovery"
  /\ run' = [run EXCEPT ![Recovery] = "running"]
  /\ UNCHANGED <<allVars, result, left, proven, manifest, slot, rows, st, fenceP,
                 causeP, halt, killed, campaignFaults>>

\* A recovery of a step that has ended restores what it left, or fails; its
\* own cleanup covers its target.
RecoveryEnds(r) ==
  /\ run[r] = "running" /\ r[3] = "recovery"
  /\ run' = [run EXCEPT ![r] = "ended"]
  /\ LET target == <<r[1], r[2], "step">> IN
     \/ /\ run[target] = "ended"
        /\ left' = left \ {target} /\ proven' = proven \union {target, r}
        /\ result' = [result EXCEPT ![r] = "Passed"] /\ UNCHANGED campaignFaults
     \/ /\ run[target] # "ended" \/ campaignFaults < CampaignFaults
        /\ result' = [result EXCEPT ![r] = "Failed"] /\ UNCHANGED <<left, proven>>
        /\ IF run[target] # "ended" THEN UNCHANGED campaignFaults ELSE CFault
  /\ slot' = IF r = Recovery THEN r ELSE slot
  /\ UNCHANGED <<allVars, phaseVars, manifest, rows, halt, killed>>

RecoveryTaken ==
  /\ ppc = "recovery" /\ run[Recovery] \in {"ended", "orphan"}
  /\ Collected(Recovery) /\ ppc' = "next"
  /\ IF ChildEvidence(Recovery) = "Passed" /\ Recovery \in proven
     THEN fenceP' = FALSE /\ causeP' = NoRun ELSE UNCHANGED <<fenceP, causeP>>
  /\ UNCHANGED <<allVars, run, result, left, proven, manifest, slot, st, halt,
                 killed, campaignFaults>>

Complete(p) ==
  /\ {<<p, s, "step">> : s \in Steps(p)} \subseteq {x[1] : x \in rows[p]}
  /\ \A x \in rows[p] : x[2] = "Passed"

PhaseOutcome(p) ==
  IF halt = "no" /\ Complete(p) /\ AssessRunCleanup(p) THEN "Passed"
  ELSE IF halt = "DEADLINE" \/ \E x \in rows[p] : x[2] = "Failed" THEN "Failed"
  ELSE "Blocked"

SavePhase ==
  /\ ppc = "save" /\ ppc' = "done"
  /\ UNCHANGED <<allVars, st, fenceP, causeP, run, result, left, proven, manifest,
                 slot, rows, halt, killed, campaignFaults>>

\* The phase coordinator dies, or is killed when it has not ended in time
\* after a signal was passed on to it.  The step it was waiting for goes on.
PhaseKilled ==
  /\ ppc \notin {"none", "done", "dead"}
  /\ \/ CFault
     \/ halt # "no" /\ UNCHANGED campaignFaults
  /\ ppc' = "dead" /\ killed' = killed \union {ph}
  /\ UNCHANGED <<allVars, st, fenceP, causeP, run, result, left, proven, manifest,
                 slot, rows, halt>>

(***************************************************************************)
(* The campaign.                                                           *)
(***************************************************************************)
AllNext ==
  /\ apc = "next"
  /\ \/ /\ halt # "no" \/ ph = Len(Phases)
        /\ apc' = "save" /\ UNCHANGED <<ph, phaseVars>>
     \/ /\ halt = "no" /\ ph < Len(Phases)
        /\ ph' = ph + 1 /\ apc' = "wait"
        /\ ppc' = "next" /\ st' = 0 /\ fenceP' = fenceA /\ causeP' = causeA
  /\ UNCHANGED <<run, result, left, proven, manifest, slot, rows, fenceA, causeA,
                 halt, ended, killed, code, campaignFaults>>

\* Mutant: only a phase that has written its receipt is over.
PhaseReported == ppc = "done"

\* waitChild: a phase is over when its process is, however it ended.
PhaseOver == ppc \in {"done", "dead"}

\* The fence of the next phase is the one of this phase, from its files.
PhaseTaken ==
  /\ apc = "wait" /\ PhaseOver
  /\ LET open == ~AssessRunCleanup(ph)
         failures == {r \in Runs : r[1] = ph /\ <<r, "Failed">> \in rows[ph]
                                   /\ r \notin proven} IN
     /\ fenceA' = open
     /\ causeA' = IF open THEN InheritRecoveryCause(causeA, IF ppc = "done" THEN failures ELSE {})
                  ELSE NoRun
  /\ ended' = Append(ended, IF ppc = "done" THEN PhaseOutcome(ph)
                            ELSE IF halt = "CANCELLED" THEN "Blocked" ELSE "Failed")
  /\ apc' = "next"
  /\ UNCHANGED <<ph, code, phaseVars, run, result, left, proven, manifest, slot,
                 rows, halt, killed, campaignFaults>>

\* Mutant: the phases that have ended decide.
AllPassedSoFar == \A i \in DOMAIN ended : ended[i] = "Passed"

AllPassed ==
  halt = "no" /\ Len(ended) = Len(Phases) /\ \A i \in DOMAIN ended : ended[i] = "Passed"

SaveAll ==
  /\ apc = "save" /\ apc' = "done"
  /\ code' = IF AllPassed THEN 0
             ELSE IF halt = "DEADLINE" \/ \E i \in DOMAIN ended : ended[i] = "Failed" THEN 1 ELSE 2
  /\ UNCHANGED <<ph, fenceA, causeA, ended, phaseVars, run, result, left, proven,
                 manifest, slot, rows, halt, killed, campaignFaults>>

\* A signal or the deadline; it is passed on, and no further step starts.
Halt ==
  /\ halt = "no" /\ apc # "done" /\ CFault
  /\ halt' \in {"CANCELLED", "DEADLINE"}
  /\ UNCHANGED <<allVars, phaseVars, run, result, left, proven, manifest, slot,
                 rows, killed>>

PhaseStep ==
  \/ PhaseNext \/ SpawnStep \/ StepTaken \/ SpawnRecovery \/ RecoveryTaken \/ SavePhase
  \/ (halt # "no" /\ PhaseKilled)
AllStep == AllNext \/ PhaseTaken \/ SaveAll
Ends(r) == StepEnds(r) \/ OrphanEnds(r) \/ RecoveryEnds(r)

CampaignNext ==
  \/ PhaseStep \/ AllStep \/ PhaseKilled \/ Halt
  \/ \E r \in Runs : Ends(r) \/ StepKilled(r)

CampaignFairness ==
  /\ WF_campaignVars(PhaseStep) /\ WF_campaignVars(AllStep)
  /\ WF_campaignVars(\E r \in Runs : Ends(r))

(***************************************************************************)
(* What a campaign's result is worth, and what it never does.              *)
(***************************************************************************)
\* Exit code 0 means that every step of every phase ran to its end, passed
\* and was cleaned up, and that no process of the campaign is left: launch.mjs
\* over childEvidence, stepCases and assessRunCleanup.
NoFalseGreen ==
  code = 0 =>
    /\ \A r \in Runs : r[3] = "step" => run[r] = "ended" /\ result[r] = "Passed"
    /\ left = {} /\ \A r \in Runs : run[r] # "orphan"

Starts(r) == run[r] = "none" /\ run'[r] = "running" /\ r[3] = "step" /\ Live(r)

\* A phase coordinator that died among its isolated steps: its files say
\* nothing of the earlier phases, and the campaign takes them for clean.
Forgetful(q) == q \in killed /\ \A r \in manifest[q] : ~Live(r)

\* No live step starts while something of an earlier run is left on the
\* appliance, whichever process was killed in between, except after a phase
\* coordinator that was killed among its isolated steps (the recovery fence,
\* its inheritance by children and its clearing by a proved recovery).
FenceHolds ==
  [][\A r \in Runs : Starts(r) =>
       left = {} \/ \E q \in DOMAIN Phases : q < ph /\ Forgetful(q)]_campaignVars

\* The same without the exception.
FenceRetained == [][\A r \in Runs : Starts(r) => left = {}]_campaignVars

\* The root cause named by the steps that the fence refuses is a run that did
\* fail itself, never one that was only refused (inheritRecoveryCause).
CauseTrue ==
  \A c \in {causeA, causeP} \ {NoRun} : result[c] # "Blocked" /\ result[c] # "Passed"

\* The verdict of a campaign is true: green when everything ran and passed, and
\* the cause it names for the rest is one.
VerdictTrue == NoFalseGreen /\ CauseTrue

CampaignEnded == apc = "done"

\* Every campaign ends, whatever is killed and however it is stopped.
CampaignEnds == <>CampaignEnded

CampaignSpec == CampaignInit /\ [][CampaignNext]_campaignVars /\ CampaignFairness
=============================================================================

---------------------------- MODULE DeploymentPins ----------------------------
(***************************************************************************)
(* The baseline of a live run (waitForDeploymentPins of preflight.ts, the  *)
(* snapshot of live-foundation.ts).  Before anything is written, the       *)
(* pinned Flux source and Deployments are read again and again until one   *)
(* attempt finds all of them ready, of the pinned revision and images and  *)
(* with the identity that was found first.  An attempt is no atomic view:  *)
(* Pods and Flux are listed, then each Deployment and its ReplicaSets are  *)
(* read one after another, and the cluster changes meanwhile.  The         *)
(* deadline races the attempt under way, which then goes on unattended.    *)
(* Pin 0 is the Flux source, pins 1 to Pinned are the Deployments.  The    *)
(* history of the diagnostic and its files are left out.                   *)
(***************************************************************************)
EXTENDS Integers, FiniteSets

CONSTANTS
  Pinned,        \* how many Deployments are pinned (config.expected.images)
  PinAttempts,   \* bound: attempts before the deadline
  ClusterEdits   \* bound: changes of what is observed

ASSUME PinsAssumption == Pinned \in Nat /\ PinAttempts \in Nat /\ ClusterEdits \in Nat

VARIABLES
  cluster,     \* the observed objects
  firstRead,   \* the identity of each pin when it was first read, as the history knows it,
  strange,     \* and the pins found missing, or with another revision or image
  poller,      \* the attempt: place and number; is there a pin error; the outcome
  sample,      \* what the attempt has read, and the conditions it found
  identities,  \* the identity of each pin at its first check
  diagnostic,
  clusterEdits

pinsVars == <<cluster, firstRead, strange, poller, sample, identities, diagnostic, clusterEdits>>

Pins == 0 .. Pinned

(***************************************************************************)
(* The cluster.  A uid is never used again, a generation only grows.       *)
(***************************************************************************)
\* What the containers of a Deployment's Pods can be together: without a digest or
\* not ready, ready and as pinned, or of another image.
PodKinds == {{}, {"starting"}, {"ready"}, {"ready", "wrong"}}
Identity(o) == <<o.uid, o.gen>>
\* Read nothing.
Unknown == <<0, 0>>
Absent == [there |-> FALSE, uid |-> 0, gen |-> 0, observed |-> 0, right |-> FALSE, up |-> FALSE, pods |-> {}]

\* Between two reads an object is deleted, gets another status, or is configured
\* or created anew, and its controller has seen that or has not.
Versions(o) == IF o.there THEN {Identity(o), <<o.uid, o.gen + 1>>, <<o.uid + 1, 1>>} ELSE {<<o.uid + 1, 1>>}
RightOf(i) == IF i = 0 THEN BOOLEAN ELSE {TRUE}
PodsOf(i) == IF i = 0 THEN {{}} ELSE PodKinds
Changed(i, o) ==
  {[o EXCEPT !.there = FALSE, !.pods = {}]}
  \cup {[there |-> TRUE, uid |-> version[1], gen |-> version[2], observed |-> IF seen THEN version[2] ELSE 0,
         right |-> right, up |-> seen /\ up, pods |-> pods] :
           version \in Versions(o), seen \in BOOLEAN, up \in BOOLEAN, right \in RightOf(i), pods \in PodsOf(i)}

ClusterChanges ==
  /\ clusterEdits < ClusterEdits /\ clusterEdits' = clusterEdits + 1
  /\ \E i \in Pins : \E o \in Changed(i, cluster[i]) : cluster' = [cluster EXCEPT ![i] = o]
  /\ UNCHANGED <<firstRead, strange, poller, sample, identities, diagnostic>>

(***************************************************************************)
(* The poller and the diagnostic.                                          *)
(***************************************************************************)
Unchecked == [i \in Pins |-> "unread"]
NoSample == [pods |-> FALSE, flux |-> FALSE, listed |-> [i \in Pins |-> Absent], got |-> [i \in Pins |-> Absent],
             next |-> 0, checks |-> Unchecked, error |-> "none"]
NoFailure == [attempt |-> 0, error |-> "none", checks |-> Unchecked, got |-> [i \in Pins |-> Absent]]

\* At first, one object may be other than it should be.
Steady(i) == [there |-> TRUE, uid |-> 1, gen |-> 1, observed |-> 1, right |-> TRUE, up |-> TRUE,
              pods |-> IF i = 0 THEN {} ELSE {"ready"}]
Unsteady(i) == IF i = 0 THEN {[Steady(i) EXCEPT !.right = FALSE]}
               ELSE {[Steady(i) EXCEPT !.up = "ready" \in pods, !.pods = pods] : pods \in PodKinds}

PinsInit ==
  /\ \E other \in Pins : \E o \in Unsteady(other) : cluster = [i \in Pins |-> IF i = other THEN o ELSE Steady(i)]
  /\ firstRead = [i \in Pins |-> Unknown] /\ identities = [i \in Pins |-> Unknown] /\ strange = {}
  /\ poller = [at |-> "start", attempt |-> 0, collected |-> FALSE, pinError |-> FALSE, outcome |-> "none"]
  /\ sample = NoSample
  /\ diagnostic = [state |-> "observing", attempts |-> 0, firstFailure |-> NoFailure, events |-> "not-needed",
                   logs |-> "not-needed", targets |-> {}]
  /\ clusterEdits = 0

Undecided == poller.outcome = "none"
PollerAt(place) == poller.at = place
PollerTo(place) == poller' = [poller EXCEPT !.at = place]

Failing(checks) == {i \in Pins : checks[i] \notin {"unread", "ready"}}
\* Only readiness may converge: these conditions are never tried again.
Final(checks) == \E i \in Failing(checks) : checks[i] \in {"identity", "revision", "image", "missing"}

\* The first failed observation is kept.
RecordPinObservation(error, checks) ==
  [diagnostic EXCEPT !.attempts = poller.attempt,
                     !.firstFailure =
                        IF diagnostic.firstFailure = NoFailure /\ (error # "none" \/ Failing(checks) # {})
                        THEN [attempt |-> poller.attempt, error |-> error, checks |-> checks, got |-> sample.got]
                        ELSE diagnostic.firstFailure]
CollectedLater(d) == IF poller.collected THEN d ELSE [d EXCEPT !.events = "pending", !.logs = "pending"]
\* The outer catch: what is still pending will not come.
Failed(d) ==
  [d EXCEPT !.state = "failed", !.events = IF d.events = "pending" THEN "unavailable" ELSE d.events,
            !.logs = IF d.logs = "pending" THEN "unavailable" ELSE d.logs]

\* The rights of the observer are checked before the first attempt.
VerifyConfiguration ==
  /\ PollerAt("start")
  /\ \/ PollerTo("idle") /\ UNCHANGED diagnostic
     \/ /\ poller' = [poller EXCEPT !.at = "done", !.outcome = "OBSERVER"]
        /\ diagnostic' = [diagnostic EXCEPT !.attempts = 1, !.state = "failed",
                            !.firstFailure = [NoFailure EXCEPT !.attempt = 1, !.error = "OBSERVER"]]
  /\ UNCHANGED <<cluster, firstRead, strange, sample, identities, clusterEdits>>

(***************************************************************************)
(* An attempt.                                                             *)
(***************************************************************************)
BeginAttempt ==
  /\ PollerAt("idle") /\ poller.attempt < PinAttempts
  /\ poller' = [poller EXCEPT !.at = "reading", !.attempt = poller.attempt + 1] /\ sample' = NoSample
  /\ UNCHANGED <<cluster, firstRead, strange, identities, diagnostic, clusterEdits>>

ListBaselinePods ==
  /\ PollerAt("reading") /\ sample' = [sample EXCEPT !.pods = TRUE, !.listed = cluster]
  /\ UNCHANGED <<cluster, firstRead, strange, poller, identities, diagnostic, clusterEdits>>

Remembered(known, i, o) == [known EXCEPT ![i] = IF known[i] = Unknown /\ o.there THEN Identity(o) ELSE known[i]]
Reads(i) == firstRead' = Remembered(firstRead, i, cluster[i])

ListFlux ==
  /\ PollerAt("reading") /\ ~sample.flux /\ Reads(0)
  /\ sample' = [sample EXCEPT !.flux = TRUE, !.got = [sample.got EXCEPT ![0] = cluster[0]]]
  /\ strange' = strange \cup {i \in {0} : ~(cluster[0].there /\ cluster[0].right)}
  /\ UNCHANGED <<cluster, poller, identities, diagnostic, clusterEdits>>

\* The first identity stays.
SameIdentity(i, o) == identities[i] \in {Unknown, Identity(o)}
FluxCondition(o) ==
  IF ~o.there THEN "missing" ELSE IF ~SameIdentity(0, o) THEN "identity" ELSE IF ~o.right THEN "revision"
  ELSE IF o.up /\ o.observed = o.gen THEN "ready" ELSE "readiness"
DeploymentCondition(i, o, containers) ==
  IF ~SameIdentity(i, o) THEN "identity" ELSE IF "wrong" \in containers THEN "image"
  ELSE IF o.gen # o.observed THEN "generation" ELSE IF ~o.up THEN "replicas"
  ELSE IF containers = {} THEN "containers" ELSE IF containers = {"ready"} THEN "ready" ELSE "readiness"

\* The conditions of all pins decide.
VerifyDeploymentPins(checks) ==
  \/ ~Undecided /\ PollerTo("done") /\ UNCHANGED diagnostic
  \/ /\ Undecided /\ Failing(checks) = {} /\ PollerTo("saved")
     /\ diagnostic' = [RecordPinObservation("none", checks) EXCEPT !.state = "converged"]
  \/ /\ Undecided /\ Failing(checks) # {} /\ poller' = [poller EXCEPT !.at = "saving", !.pinError = TRUE]
     /\ diagnostic' = CollectedLater(RecordPinObservation("none", checks))

\* A pin is checked, the last one decides.
Check(i, condition) ==
  /\ identities' = Remembered(identities, i, sample.got[i])
  /\ sample' = [sample EXCEPT !.next = i + 1, !.checks = [sample.checks EXCEPT ![i] = condition]]
  /\ \/ i < Pinned /\ PollerTo("deployments") /\ UNCHANGED diagnostic
     \/ i = Pinned /\ VerifyDeploymentPins([sample.checks EXCEPT ![i] = condition])

\* Everything is read, and appliance, nodes, lab and capabilities are the expected ones.
ReadBaseline ==
  /\ PollerAt("reading") /\ sample.pods /\ sample.flux
  /\ \/ ~Undecided /\ PollerTo("done") /\ UNCHANGED <<sample, identities, diagnostic>>
     \/ Undecided /\ Check(0, FluxCondition(sample.got[0]))
  /\ UNCHANGED <<cluster, firstRead, strange, clusterEdits>>

\* The Deployment whose turn it is, and whether it was read.
Turn == sample.next
GetDeployment ==
  /\ PollerAt("deployments") /\ ~sample.got[Turn].there /\ cluster[Turn].there /\ Reads(Turn)
  /\ sample' = [sample EXCEPT !.got = [sample.got EXCEPT ![Turn] = cluster[Turn]]]
  /\ UNCHANGED <<cluster, strange, poller, identities, diagnostic, clusterEdits>>

\* The Pods count that were listed before and belong to a ReplicaSet of this very
\* Deployment; the ReplicaSets of a deleted one can be left for a while.
ListReplicaSets ==
  /\ PollerAt("deployments") /\ sample.got[Turn].there
  /\ \E kept \in BOOLEAN :
       LET o == sample.got[Turn]
           ours == sample.listed[Turn].uid = o.uid /\ (kept \/ (cluster[Turn].there /\ cluster[Turn].uid = o.uid))
           containers == IF ours THEN sample.listed[Turn].pods ELSE {} IN
       /\ strange' = strange \cup {i \in {Turn} : "wrong" \in containers}
       /\ Check(Turn, DeploymentCondition(Turn, o, containers))
  /\ UNCHANGED <<cluster, firstRead, clusterEdits>>

\* A read fails, or shows another appliance, node or lab: no retry.
ReadFails ==
  /\ PollerAt("reading") \/ PollerAt("deployments")
  /\ \/ ~Undecided /\ PollerTo("done") /\ UNCHANGED <<sample, diagnostic>>
     \/ \E error \in {"OBSERVER", "IDENTITY"} :
          /\ Undecided /\ (error = "IDENTITY" => PollerAt("reading"))
          /\ PollerTo("saving") /\ sample' = [sample EXCEPT !.error = error]
          /\ diagnostic' = CollectedLater(RecordPinObservation(error, sample.checks))
  /\ UNCHANGED <<cluster, firstRead, strange, identities, clusterEdits>>

(***************************************************************************)
(* After the attempt.                                                      *)
(***************************************************************************)
AcceptBaseline ==
  /\ PollerAt("saved")
  /\ poller' = [poller EXCEPT !.at = "done", !.outcome = IF Undecided THEN "accepted" ELSE poller.outcome]
  /\ UNCHANGED <<cluster, firstRead, strange, sample, identities, diagnostic, clusterEdits>>

\* The first failure is saved before events and logs are collected, once.
SaveFailure ==
  /\ PollerAt("saving") /\ ~poller.collected /\ poller' = [poller EXCEPT !.at = "collecting", !.collected = TRUE]
  /\ UNCHANGED <<cluster, firstRead, strange, sample, identities, diagnostic, clusterEdits>>

\* Logs are read of the first two failing pins, of fewer when the Pods of the first
\* are enough, and of no Deployment that has become another one.
LogTargets == LET failing == Failing(diagnostic.firstFailure.checks)
              IN  {i \in failing \ {0} : Cardinality({j \in failing : j < i}) < 2}
CollectPreflightFailure ==
  /\ PollerAt("collecting")
  /\ \/ ~Undecided /\ PollerTo("done") /\ UNCHANGED diagnostic
     \/ /\ Undecided /\ PollerTo("deciding")
        /\ \E events \in {"collected", "unavailable"} :
             \/ diagnostic' = [diagnostic EXCEPT !.events = events, !.logs = "unavailable"]
             \/ \E targets \in SUBSET LogTargets :
                  /\ \A i \in targets : /\ cluster[i].there
                                        /\ Identity(cluster[i]) = Identity(diagnostic.firstFailure.got[i])
                  /\ diagnostic' = [diagnostic EXCEPT !.events = events, !.logs = "captured",
                                      !.targets = {<<i, Identity(cluster[i])>> : i \in targets}]
  /\ UNCHANGED <<cluster, firstRead, strange, sample, identities, clusterEdits>>

\* Only what can still become ready is tried again.
Retryable == sample.error = "none" /\ ~Final(sample.checks)
Decide ==
  /\ PollerAt("deciding") \/ (PollerAt("saving") /\ poller.collected)
  /\ \/ ~Undecided /\ PollerTo("done") /\ UNCHANGED diagnostic
     \/ Undecided /\ Retryable /\ PollerTo("idle") /\ UNCHANGED diagnostic
     \/ /\ Undecided /\ ~Retryable /\ diagnostic' = Failed(diagnostic)
        /\ poller' = [poller EXCEPT !.at = "done", !.outcome = IF sample.error = "none" THEN "REVISION" ELSE sample.error]
  /\ UNCHANGED <<cluster, firstRead, strange, sample, identities, clusterEdits>>

\* The specific pin error is thrown, if there was one.
DeadlinePasses ==
  /\ Undecided /\ ~PollerAt("start") /\ diagnostic' = Failed(diagnostic)
  /\ poller' = [poller EXCEPT !.at = IF PollerAt("idle") THEN "done" ELSE poller.at,
                              !.outcome = IF poller.pinError THEN "REVISION" ELSE "DEADLINE"]
  /\ UNCHANGED <<cluster, firstRead, strange, sample, identities, clusterEdits>>

PinsNext ==
  \/ ClusterChanges \/ VerifyConfiguration \/ BeginAttempt
  \/ ListBaselinePods \/ ListFlux \/ ReadBaseline \/ GetDeployment \/ ListReplicaSets \/ ReadFails
  \/ AcceptBaseline \/ SaveFailure \/ CollectPreflightFailure \/ Decide \/ DeadlinePasses

PinsSpec == PinsInit /\ [][PinsNext]_pinsVars

(***************************************************************************)
(* Properties.                                                             *)
(***************************************************************************)
\* A live run starts from a baseline in which every pinned object is the one that
\* was read first, and so all the time between, with no other revision or image
\* seen since, and in which the Pods that count, listed earlier, are those of the
\* Deployment that was read and all of the pinned image and ready.
BaselineTrue ==
  poller.outcome = "accepted" =>
     /\ strange = {} /\ \A i \in Pins : sample.got[i].there /\ Identity(sample.got[i]) = firstRead[i]
     /\ \A i \in Pins \ {0} : sample.listed[i].uid = sample.got[i].uid /\ sample.listed[i].pods = {"ready"}

\* A baseline that fails says why: the diagnostic is of the outcome, whatever a
\* late attempt still reads, and nothing of it is awaited any more; what was tried
\* again had failed pins at first, and the deadline hides none; private logs are
\* only of the very Deployments whose failure is shown.
FailureShown ==
  /\ ~Undecided => /\ diagnostic.state = IF poller.outcome = "accepted" THEN "converged" ELSE "failed"
                   /\ diagnostic.events # "pending" /\ diagnostic.logs # "pending"
  /\ LET first == diagnostic.firstFailure IN
     /\ poller.attempt > 1 => first.attempt = 1 /\ first.error = "none" /\ Failing(first.checks) # {}
     /\ poller.outcome = "DEADLINE" => first = NoFailure \/ first.error # "none"
     /\ \A target \in diagnostic.targets :
           target[1] \in Failing(first.checks) /\ target[2] = Identity(first.got[target[1]])

PinsTrue == BaselineTrue /\ FailureShown

==============================================================================

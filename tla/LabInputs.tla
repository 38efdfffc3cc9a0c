------------------------------ MODULE LabInputs ------------------------------
(***************************************************************************)
(* Accepting the private inputs of the regression harness (prepare.mjs).   *)
(* A preparation reads the files, inspects the appliance and either saves  *)
(* a plan for review, accepts a reviewed plan, or - automatic - generates  *)
(* and accepts inputs for the registered appliance.  An acceptance writes  *)
(* several files under a marker; a live run refuses to start while the     *)
(* marker exists and reads the files one after the other.                  *)
(***************************************************************************)
EXTENDS Naturals

CONSTANTS
  Preparers,     \* preparation processes
  Registered,    \* the uid of the registered appliance
  Replacement,   \* the uid of an appliance put in its place
  MaxPlans,      \* bound: generated candidates
  InputFaults    \* bound: killed preparations, reboots and replacements

ASSUME InputUids == Registered # Replacement /\ {Registered, Replacement} \subseteq Nat \ {0}

VARIABLES
  target,     \* the appliance: its uid and its boot
  idle,       \* the lab lease is idle and no host or model is busy
  lab,        \* lab.json: generation, pinned uid and boot
  profile,    \* remaining-p0.json: generation, uid the consent was given for
  drills,     \* host-drills.json: pinned uid and boot; uid 0: no file
  marker,     \* .preparation-accepting.json: its kind and who wrote it
  inputPlan,       \* the latest plan under prepared/
  prep,       \* the preparation processes
  using,      \* the live run and what it has read
  plans,      \* candidates generated so far
  raced,      \* a marker was taken from a preparation that was still alive
  gap,        \* what has happened between an old marker and the new one
  inputFaults

inputFiles == <<lab, profile, drills, marker>>
inputVars == <<target, idle, lab, profile, drills, marker, inputPlan, prep, using, plans,
               raced, gap, inputFaults>>

NoDrills == [uid |-> 0, boot |-> 0]
NoMarker == [kind |-> "none", by |-> "none"]
Source == [lab |-> lab, profile |-> profile, drills |-> drills]
Accepted == [lab |-> [gen |-> 0, uid |-> Registered, boot |-> 0],
             profile |-> [gen |-> 0, consent |-> Registered], drills |-> NoDrills]
NoPlan == [src |-> Accepted, snap |-> [uid |-> 0, boot |-> 0], cand |-> Accepted,
           fresh |-> FALSE]
Unstarted == [pc |-> "idle", mode |-> "none", src |-> Accepted, cand |-> Accepted,
              interrupted |-> FALSE]
NoUse == [pc |-> "idle", lab |-> Accepted.lab, profile |-> Accepted.profile,
          drills |-> NoDrills, overlap |-> FALSE]

IFault == inputFaults < InputFaults /\ inputFaults' = inputFaults + 1

InputInit ==
  /\ target = [uid |-> Registered, boot |-> 0] /\ idle = TRUE
  /\ lab = Accepted.lab /\ profile = Accepted.profile /\ drills = NoDrills
  /\ marker = NoMarker /\ inputPlan = NoPlan
  /\ prep = [p \in Preparers |-> Unstarted] /\ using = NoUse
  /\ plans = 0 /\ raced = FALSE /\ gap = {} /\ inputFaults = 0

(***************************************************************************)
(* A candidate for the appliance as it is now.                             *)
(***************************************************************************)
\* What an inspection over TLS, login and the scoped observer finds.
Discover == target

\* Pins follow the appliance that was inspected.
PreparedLab(gen) == [gen |-> gen, uid |-> Discover.uid, boot |-> Discover.boot]

\* Mutant: consent survives a replaced appliance.
PreparedProfileKept(gen, src, approve) ==
  [gen |-> gen, consent |-> IF approve THEN target.uid ELSE src.profile.consent]

\* Consent is inherited only by the appliance whose pins were accepted before;
\* a named approval is for the appliance under review.
PreparedProfile(gen, src, approve) ==
  [gen |-> gen,
   consent |-> IF approve THEN target.uid
               ELSE IF src.lab.uid = target.uid THEN src.profile.consent
               ELSE 0]

\* Registration and the marker in the cluster name this appliance.
RegisteredLab == Discover.uid = Registered

\* The registration of a disposable lab is its consent.
AutomaticProfile(gen) == [gen |-> gen, consent |-> Registered]

\* A reboot recipe is prepared only on request and with approval; automatic preparation derives
\* recipes whenever the host is there.
PreparedReboot(drill) == IF drill THEN target ELSE NoDrills
AutomaticHostRecipes == target

Candidate(gen, src, approve, drill) ==
  [lab |-> PreparedLab(gen), profile |-> PreparedProfile(gen, src, approve),
   drills |-> PreparedReboot(drill)]
AutomaticCandidate(gen) ==
  [lab |-> PreparedLab(gen), profile |-> AutomaticProfile(gen),
   drills |-> AutomaticHostRecipes]

(***************************************************************************)
(* A preparation.                                                          *)
(***************************************************************************)
At(p, s) == prep[p].pc = s
Goto(p, s) == prep' = [prep EXCEPT ![p].pc = s]
Over(p) == prep' = [prep EXCEPT ![p] = Unstarted]

\* An interrupted acceptance is taken up only by an automatic preparation, and
\* only when it was one itself.
AutomaticInputRecovery(m) ==
  marker = NoMarker \/ (m = "automatic" /\ marker.kind = "automatic")

PreparationModes == {"plan", "accept", "automatic"}

\* The old marker is gone and the new one is not there yet.
Unmarked(p) == At(p, "mark") /\ prep[p].interrupted

InGap(event) == gap \cup {e \in {event} : \E p \in Preparers : Unmarked(p)}

Start(p, m) ==
  /\ At(p, "idle") /\ AutomaticInputRecovery(m)
  /\ m = "accept" => inputPlan.fresh
  /\ m # "accept" => plans < MaxPlans
  /\ prep' = [prep EXCEPT ![p] = [pc |-> "discover", mode |-> m,
                                  src |-> IF m = "automatic" THEN Accepted ELSE Source,
                                  cand |-> Accepted, interrupted |-> marker # NoMarker]]
  /\ gap' = IF m = "automatic" THEN gap ELSE InGap("planned")
  /\ UNCHANGED <<target, idle, inputFiles, inputPlan, using, plans, raced, inputFaults>>

\* The plan's own files, unchanged inputs, an unchanged appliance, in time.
ValidateAcceptance(p) ==
  /\ inputPlan.fresh /\ inputPlan.src = prep[p].src /\ inputPlan.snap = Discover

\* A plan is written for review; nothing that is in use changes.
SavePlan(p) ==
  /\ At(p, "discover") /\ prep[p].mode = "plan" /\ plans < MaxPlans
  /\ plans' = plans + 1 /\ Over(p)
  /\ \E flags \in SUBSET {"approve", "drill"} :
       inputPlan' = [src |-> prep[p].src, snap |-> Discover, fresh |-> TRUE,
                cand |-> Candidate(plans + 1, prep[p].src, "approve" \in flags,
                                   flags = {"approve", "drill"})]
  /\ UNCHANGED <<target, idle, inputFiles, using, raced, gap, inputFaults>>

\* The appliance is inspected again before a reviewed plan is accepted.
InputsValidated(p) ==
  /\ At(p, "discover") /\ prep[p].mode = "accept"
  /\ IF ValidateAcceptance(p) /\ idle
     THEN prep' = [prep EXCEPT ![p].pc = "mark", ![p].cand = inputPlan.cand,
                             ![p].src = Accepted]
     ELSE Over(p)
  /\ UNCHANGED <<target, idle, inputFiles, inputPlan, using, plans, raced, gap, inputFaults>>

\* Automatic preparation is for the registered appliance alone.
Generate(p) ==
  /\ At(p, "discover") /\ prep[p].mode = "automatic"
  /\ IF RegisteredLab /\ plans < MaxPlans /\ idle
     THEN /\ plans' = plans + 1
          /\ prep' = [prep EXCEPT ![p].cand = AutomaticCandidate(plans + 1),
                        ![p].pc = IF prep[p].interrupted THEN "drop" ELSE "mark"]
     ELSE Over(p) /\ UNCHANGED plans
  /\ UNCHANGED <<target, idle, inputFiles, inputPlan, using, raced, gap, inputFaults>>

\* An acceptance that has written its marker and goes on.
Writing(p) == prep[p].pc \in {"profile", "drills", "lab", "unmark"}

\* The interrupted marker is removed after a record of it was saved.  It may
\* belong to a preparation that is not interrupted at all.
DropMarker(p) ==
  /\ At(p, "drop")
  /\ IF marker = NoMarker THEN Over(p) ELSE Goto(p, "mark")
  /\ marker' = NoMarker
  /\ raced' = (raced \/ \E q \in Preparers : marker.by = q /\ Writing(q))
  /\ UNCHANGED <<target, idle, lab, profile, drills, inputPlan, using, plans, gap, inputFaults>>

\* The marker is created exclusively, before any file changes.
Mark(p) ==
  /\ At(p, "mark")
  /\ IF marker # NoMarker THEN Over(p) /\ UNCHANGED <<marker, using>>
     ELSE /\ Goto(p, "profile")
          /\ marker' = [kind |-> prep[p].mode, by |-> p]
          /\ using' = [using EXCEPT !.overlap = @ \/ using.pc # "idle"]
  /\ UNCHANGED <<target, idle, lab, profile, drills, inputPlan, plans, raced, gap, inputFaults>>

WriteProfile(p) ==
  /\ At(p, "profile") /\ Goto(p, "drills")
  /\ profile' = prep[p].cand.profile
  /\ UNCHANGED <<target, idle, lab, drills, marker, inputPlan, using, plans, raced,
                 gap, inputFaults>>

\* Without recipes of its own a reviewed plan leaves the old ones.
WriteDrills(p) ==
  /\ At(p, "drills") /\ Goto(p, "lab")
  /\ drills' = IF prep[p].cand.drills # NoDrills \/ prep[p].mode = "automatic"
               THEN prep[p].cand.drills ELSE drills
  /\ UNCHANGED <<target, idle, lab, profile, marker, inputPlan, using, plans, raced,
                 gap, inputFaults>>

WriteLab(p) ==
  /\ At(p, "lab") /\ Goto(p, "unmark")
  /\ lab' = prep[p].cand.lab
  /\ UNCHANGED <<target, idle, profile, drills, marker, inputPlan, using, plans, raced,
                 gap, inputFaults>>

Unmark(p) ==
  /\ At(p, "unmark") /\ Over(p) /\ marker' = NoMarker
  /\ UNCHANGED <<target, idle, lab, profile, drills, inputPlan, using, plans, raced,
                 gap, inputFaults>>

\* A killed preparation, or one that a failed write ends, leaves its marker.
PrepKilled(p) ==
  /\ prep[p].pc # "idle" /\ IFault /\ Over(p)
  /\ gap' = IF Unmarked(p) THEN gap \cup {"killed"} ELSE gap
  /\ UNCHANGED <<target, idle, inputFiles, inputPlan, using, plans, raced>>

(***************************************************************************)
(* A live run.                                                             *)
(***************************************************************************)

LiveGate == marker = NoMarker

Enter ==
  /\ using.pc = "idle" /\ LiveGate
  /\ using' = [NoUse EXCEPT !.pc = "entered"]
  /\ gap' = InGap("entered")
  /\ UNCHANGED <<target, idle, inputFiles, inputPlan, prep, plans, raced, inputFaults>>

LoadLabConfig ==
  /\ using.pc = "entered" /\ using' = [using EXCEPT !.pc = "loaded", !.lab = lab]
  /\ UNCHANGED <<target, idle, inputFiles, inputPlan, prep, plans, raced, gap, inputFaults>>

\* Preflight: the pins are those of the appliance, then the lease is taken.
VerifyIdentity(l) == l.uid = target.uid /\ l.boot = target.boot

Reserve ==
  /\ using.pc = "loaded"
  /\ IF VerifyIdentity(using.lab) /\ idle
     THEN using' = [using EXCEPT !.pc = "reserved"] /\ idle' = FALSE
     ELSE using' = NoUse /\ UNCHANGED idle
  /\ UNCHANGED <<target, inputFiles, inputPlan, prep, plans, raced, gap, inputFaults>>

\* The tests read the profile and, bound to node and boot, the host recipes.
LoadProfile ==
  /\ using.pc = "reserved"
  /\ using' = [using EXCEPT !.pc = "using", !.profile = profile,
                 !.drills = IF drills.uid = using.lab.uid /\ drills.boot = using.lab.boot
                            THEN drills ELSE NoDrills]
  /\ UNCHANGED <<target, idle, inputFiles, inputPlan, prep, plans, raced, gap, inputFaults>>

LeaveInputs ==
  /\ using.pc = "using" /\ using' = NoUse /\ idle' = TRUE
  /\ UNCHANGED <<target, inputFiles, inputPlan, prep, plans, raced, gap, inputFaults>>

(***************************************************************************)
(* The appliance and the clock.                                            *)
(***************************************************************************)
Reboot ==
  /\ IFault /\ target' = [target EXCEPT !.boot = @ + 1]
  /\ UNCHANGED <<idle, inputFiles, inputPlan, prep, using, plans, raced, gap>>

Replace ==
  /\ IFault /\ target.uid = Registered /\ target' = [uid |-> Replacement, boot |-> 0]
  /\ UNCHANGED <<idle, inputFiles, inputPlan, prep, using, plans, raced, gap>>

\* Fifteen minutes after a plan was made.
PlanExpires ==
  /\ inputPlan.fresh /\ inputPlan' = NoPlan
  /\ UNCHANGED <<target, idle, inputFiles, prep, using, plans, raced, gap, inputFaults>>

PrepSteps(p) ==
  \/ SavePlan(p) \/ InputsValidated(p) \/ Generate(p) \/ DropMarker(p) \/ Mark(p)
  \/ WriteProfile(p) \/ WriteDrills(p) \/ WriteLab(p) \/ Unmark(p)
RunSteps == LoadLabConfig \/ Reserve \/ LoadProfile \/ LeaveInputs

InputNext ==
  \/ \E p \in Preparers :
       \/ \E m \in PreparationModes : Start(p, m)
       \/ PrepSteps(p) \/ PrepKilled(p)
  \/ Enter \/ RunSteps
  \/ Reboot \/ Replace \/ PlanExpires

\* Processes go on once started, and every campaign begins with an automatic
\* preparation.
InputFairness ==
  /\ \A p \in Preparers : WF_inputVars(PrepSteps(p))
  /\ WF_inputVars(\E p \in Preparers : Start(p, "automatic"))
  /\ WF_inputVars(RunSteps)

InputSpec == InputInit /\ [][InputNext]_inputVars /\ InputFairness

(***************************************************************************)
(* Properties.                                                             *)
(***************************************************************************)
\* Files of one acceptance belong together: a live run that no acceptance
\* overlapped works with a profile and pins of the same one, wherever earlier
\* acceptances were killed (launch.mjs: an interrupted multi-file acceptance
\* must never run a partly updated live profile).
PartialNeverRuns ==
  (using.pc = "using" /\ ~using.overlap /\ ~raced) => using.lab.gen = using.profile.gen

\* A run never reads a mixture of two sets of inputs, leaving aside the moment in
\* which an automatic preparation has removed the marker of the interrupted one
\* and not yet written its own (prepare.mjs): no run starts and no process is
\* killed just there.
InputsWhole == gap \subseteq {"planned"} => PartialNeverRuns

\* Consent given for one appliance is never used on another: not by a plan
\* that was reviewed before the replacement, not by mixed files, if nobody has
\* begun a plan or its acceptance at the moment left aside above.
ConsentBound ==
  (using.pc = "using" /\ ~using.overlap /\ ~raced /\ gap = {})
    => using.profile.consent \in {0, using.lab.uid}

\* A live run works with one accepted set of inputs, made for this appliance.
InputsSafe == InputsWhole /\ ConsentBound

InputsSettled == marker.kind # "automatic" \/ target.uid # Registered \/ plans = MaxPlans

\* An interrupted automatic acceptance does not block the lab for good: the
\* next campaign regenerates the inputs, unless the appliance was replaced or
\* no further preparation is counted.
Regenerated == []<>InputsSettled

=============================================================================

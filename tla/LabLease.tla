------------------------------ MODULE LabLease ------------------------------
(* The reservation of the disposable regression lab: one Kubernetes Lease,  *)
(* taken and renewed by compare-and-swap.  Three kinds of owner share it:   *)
(* test runners (lease.ts, runner-session.ts), the automatic recovery of an *)
(* interrupted run (automatic-recovery.ts) and the host's convergence guard *)
(* (regression_guard.py).                                                   *)
(*                                                                          *)
(* Time is kept as ages: a clock tick adds one to every age, up to Old.     *)
(* fresh says that the Lease still has the resourceVersion an owner read,   *)
(* so that what its request writes follows from the Lease itself.           *)
EXTENDS Integers, FiniteSets

CONSTANTS
  Runners,      \* test runs; each acquires the Lease at most once
  Recoverers,   \* recoveries; each has an owner name of its own
  Hosts,        \* executions of the convergence guard on the one host
  Nobody,       \* the empty holderIdentity
  Duration,     \* leaseDurationSeconds of an ordinary reservation, in ticks
  Window,       \* leaseDurationSeconds of a reserved outage
  Drain,        \* the minute that must pass after expiry before a takeover
  Latency,      \* the longest a request is under way
  MaxFaults     \* crashes and failed requests in one behaviour

ASSUME LabAssumption ==
  /\ Duration \in Nat \ {0} /\ Drain \in Nat /\ Latency \in Nat /\ MaxFaults \in Nat
  /\ Window \in Nat /\ Duration <= Window
  /\ Latency <= Drain
  /\ Nobody \notin Runners \cup Recoverers \cup Hosts
  /\ Runners \cap Recoverers = {} /\ Hosts \cap (Runners \cup Recoverers) = {}

VARIABLES
  lease,     \* the Lease on the API server
  proc,      \* the private state of every owner
  receipt,   \* lease-<owner>.json in the run's private directory
  session,   \* runner-session.json of the run
  recovery,  \* recoveryOwner of automatic-recovery.json
  child,     \* the guarded command of a host execution is running
  intent,    \* a RegressionRun that is not finished exists
  faults     \* faults still to come

vars == <<lease, proc, receipt, session, recovery, child, intent, faults>>

Harness == Runners \cup Recoverers
Owners == Harness \cup Hosts
Old == Window + Drain + 1
None == -1

FreeLease == [holder |-> Nobody, age |-> 0, dur |-> 0, run |-> Nobody,
              recovering |-> FALSE, original |-> Nobody, host |-> FALSE]

\* Before acquire(): not held, not fenced, no request under way.
NewProc == [pc |-> "idle", alive |-> TRUE, held |-> FALSE, fenced |-> FALSE,
            age |-> 0, dur |-> Duration, offline |-> FALSE,
            sent |-> None, fresh |-> FALSE, write |-> None]

Init ==
  /\ lease = FreeLease
  /\ proc = [p \in Owners |-> NewProc]
  /\ receipt = [r \in Runners |-> "none"]
  /\ session = [r \in Runners |-> "none"]
  /\ recovery = Nobody
  /\ child = [h \in Hosts |-> FALSE]
  /\ intent = FALSE
  /\ faults = MaxFaults

Leases == [holder: Owners \cup {Nobody}, age: 0..Old, dur: {0, Duration, Window},
           run: Runners \cup {Nobody}, recovering: BOOLEAN,
           original: Owners \cup {Nobody}, host: BOOLEAN]

TypeOK ==
  /\ lease \in Leases
  /\ proc \in [Owners -> [pc: {"idle", "requested", "unsure", "claimed", "free",
                                "renewing", "resizing", "closing", "closed",
                                "running", "stopping", "ended"},
                          alive: BOOLEAN, held: BOOLEAN, fenced: BOOLEAN,
                          age: 0..Old, dur: {Duration, Window}, offline: BOOLEAN,
                          sent: None..Latency, fresh: BOOLEAN, write: None..Latency]]
  /\ receipt \in [Runners -> {"none", "requested", "released"}]
  /\ session \in [Runners -> {"none", "running", "finished"}]
  /\ recovery \in Recoverers \cup {Nobody}
  /\ child \in [Hosts -> BOOLEAN]
  /\ intent \in BOOLEAN
  /\ faults \in 0..MaxFaults

-----------------------------------------------------------------------------
(* Expiry, and what an owner checks before it goes on.                      *)

\* Mutant: a holder that has run out is as good as none.
LeaseHolderReasonStale(l) == IF l.holder # Nobody /\ l.age < l.dur THEN "LOCK_BUSY" ELSE "free"

\* leaseHolderReason: nobody, a live holder, or one whose lease has run out.
LeaseHolderReason(l) ==
  CASE l.holder = Nobody -> "free"
    [] l.holder # Nobody /\ l.age >= l.dur -> "LOCK_STALE"
    [] OTHER -> "LOCK_BUSY"

\* Mutant: an expired lease is taken at once.
DrainedAtExpiry(l) == l.holder # Nobody /\ l.age >= l.dur

Drained(l) == LeaseHolderReason(l) = "LOCK_STALE" /\ l.age >= l.dur + Drain

\* assertHeldInternal: the local clock, then the Lease itself.
AssertHeld(p) ==
  LET me == proc[p] IN
  /\ me.held /\ ~me.fenced /\ me.age < me.dur
  /\ lease.holder = p /\ lease.dur = me.dur /\ lease.age < me.dur

\* No request is under way.
Answered(me, pc) == [me EXCEPT !.pc = pc, !.sent = None, !.fresh = FALSE]

\* What an owner that stopped leaves of its private state.
Over(me) == [Answered(me, "ended") EXCEPT !.held = FALSE, !.age = 0, !.dur = Duration, !.offline = FALSE]

\* Any failure of a lease operation: the runner never becomes an owner again.
Fenced(me) == [Over(me) EXCEPT !.fenced = TRUE]

\* The Lease was read and a request computed from it has left.
Sent(me, pc) == [me EXCEPT !.pc = pc, !.sent = 0, !.fresh = TRUE]

\* The host leaves the annotations of the last test run where they are.
HostPut(l, h) == [l EXCEPT !.holder = h, !.dur = Duration, !.host = TRUE]

\* What the request of p writes over the version it read; renewTime is the time
\* at which it was computed.
Put(p) ==
  LET l == [lease EXCEPT !.age = proc[p].sent] IN
  CASE proc[p].pc = "requested" /\ p \in Runners ->
         [l EXCEPT !.holder = p, !.dur = Duration, !.run = p, !.recovering = FALSE, !.original = Nobody]
    [] proc[p].pc = "requested" /\ p \in Recoverers ->
         [l EXCEPT !.holder = p, !.dur = Duration, !.recovering = TRUE,
                   !.original = IF l.recovering THEN l.original ELSE l.holder]
    [] proc[p].pc = "requested" /\ p \in Hosts -> HostPut(l, p)
    [] proc[p].pc = "resizing" -> [l EXCEPT !.dur = IF proc[p].offline THEN Duration ELSE Window]
    [] proc[p].pc = "closing" -> [l EXCEPT !.holder = Nobody]
    [] OTHER -> l

\* The Lease changes, by p if it is an owner's request: p goes on as me, and
\* every other request under way was computed from an old version.
Write(p, new, me) ==
  /\ lease' = new
  /\ proc' = [o \in Owners |-> IF o = p THEN me ELSE [proc[o] EXCEPT !.fresh = FALSE]]

Become(p, me) == proc' = [proc EXCEPT ![p] = me] /\ UNCHANGED lease

Fault == faults > 0 /\ faults' = faults - 1

-----------------------------------------------------------------------------
(* LabLease.acquire and recordedLeaseSession.                               *)

\* The run's session and the receipt are on disk before the request leaves.
Acquire(r) ==
  /\ r \in Runners
  /\ proc[r].pc = "idle" /\ proc[r].alive
  /\ LeaseHolderReason(lease) = "free"
  /\ session' = [session EXCEPT ![r] = "running"]
  /\ receipt' = [receipt EXCEPT ![r] = "requested"]
  /\ Become(r, Sent(proc[r], "requested"))
  /\ UNCHANGED <<recovery, child, intent, faults>>

\* The swap succeeds and its answer arrives, or the swap is refused.
ClaimAnswered(p) ==
  /\ p \in Harness
  /\ proc[p].pc = "requested" /\ proc[p].alive
  /\ IF proc[p].fresh
       THEN Write(p, Put(p), [Answered(proc[p], "claimed") EXCEPT !.held = TRUE])
       ELSE Become(p, Answered(proc[p], "unsure"))
  /\ UNCHANGED <<receipt, session, recovery, child, intent, faults>>

\* The swap succeeds and its answer is lost, or the request never arrives.
ClaimLost(p) ==
  /\ p \in Harness
  /\ proc[p].pc = "requested" /\ proc[p].alive
  /\ Fault
  /\ \/ proc[p].fresh /\ Write(p, Put(p), Answered(proc[p], "unsure"))
     \/ Become(p, Answered(proc[p], "unsure"))
  /\ UNCHANGED <<receipt, session, recovery, child, intent>>

\* Mutant: no answer is taken for a refusal.
ClaimUnsureRefused(p) ==
  /\ proc[p].pc = "unsure" /\ proc[p].alive
  /\ Become(p, Over(proc[p]))
  /\ IF p \in Runners
       THEN receipt' = [receipt EXCEPT ![p] = "released"] /\ session' = [session EXCEPT ![p] = "finished"]
       ELSE UNCHANGED <<receipt, session>>
  /\ UNCHANGED <<recovery, child, intent, faults>>

\* A lost answer is not a refused swap: only a read that shows another holder
\* closes the receipt.  Either way the caller sees LOCK_BUSY and finishes.
ClaimUnsure(p) ==
  /\ proc[p].pc = "unsure" /\ proc[p].alive
  /\ Become(p, Over(proc[p]))
  /\ IF p \in Runners
       THEN \/ /\ receipt' = [receipt EXCEPT ![p] =
                    IF lease.holder # p THEN "released" ELSE @]
               /\ session' = [session EXCEPT ![p] = "finished"]
               /\ UNCHANGED faults
            \/ /\ Fault
               /\ session' = [session EXCEPT ![p] = "finished"]
               /\ UNCHANGED receipt
       ELSE UNCHANGED <<receipt, session, faults>>
  /\ UNCHANGED <<recovery, child, intent>>

\* acquire() ends with assertHeld(); the recovery then writes its receipt.
ClaimConfirmed(p) ==
  /\ proc[p].pc = "claimed" /\ proc[p].alive /\ p \in Harness
  /\ IF AssertHeld(p)
       THEN /\ Become(p, [proc[p] EXCEPT !.pc = "free"])
            /\ recovery' = IF p \in Recoverers THEN p ELSE recovery
       ELSE /\ Become(p, Fenced(proc[p]))
            /\ UNCHANGED recovery
  /\ UNCHANGED <<receipt, session, child, intent, faults>>

-----------------------------------------------------------------------------
(* AutomaticRecovery: the takeover of a run that stopped.                   *)

\* The run's parent has finished, or its liveness file is no longer renewed.
SessionOver(r) == session[r] = "finished" \/ ~proc[r].alive

\* Mutant: the Lease's own marks of an earlier recovery are not looked at.
RecoverableRecorded(l) ==
  /\ Drained(l) /\ l.run \in Runners /\ SessionOver(l.run)
  /\ l.holder \in {l.run, recovery}

\* prepareJournal: the holder must be a journal of the run, the recorded
\* recovery, or a recovery of this run that died before it wrote its receipt.
Recoverable(l) ==
  /\ Drained(l)
  /\ l.run \in Runners
  /\ SessionOver(l.run)
  /\ \/ l.holder = l.run
     \/ l.holder = recovery
     \/ l.recovering /\ l.original = l.run

\* Every recovery has a new owner name: one that is written nowhere is as good.
NewName(q) ==
  /\ proc[q].pc \in {"idle", "ended"} /\ proc[q].write = None
  /\ q \notin {lease.holder, lease.original, recovery}

\* acquireRecovery re-reads the Lease and swaps the version that was prepared,
\* so that preparing and requesting are one step.
AcquireRecovery(q) ==
  /\ q \in Recoverers
  /\ NewName(q)
  /\ Recoverable(lease)
  /\ Become(q, Sent(NewProc, "requested"))
  /\ UNCHANGED <<receipt, session, recovery, child, intent, faults>>

\* A run whose release took effect and whose answer was lost: the Lease is free,
\* nothing of the run is open, and the receipts are closed.
RecoverFree(q) ==
  /\ q \in Recoverers
  /\ NewName(q)
  /\ lease.holder = Nobody /\ lease.run \in Runners
  /\ SessionOver(lease.run)
  /\ receipt' = [receipt EXCEPT ![lease.run] = "released"]
  /\ UNCHANGED <<lease, proc, session, recovery, child, intent, faults>>

-----------------------------------------------------------------------------
(* An owner at work: guarded product writes, heartbeats, outages, release.  *)

\* An operation of an owner begins with assertHeld().
Checked(p, me) ==
  /\ p \in Harness
  /\ proc[p].pc = "free" /\ proc[p].alive
  /\ Become(p, IF AssertHeld(p) THEN me ELSE Fenced(proc[p]))
  /\ UNCHANGED <<receipt, session, recovery, child, intent, faults>>

\* guard() and the product request it allows.
GuardedWrite(p) == proc[p].write = None /\ Checked(p, [proc[p] EXCEPT !.write = 0])

\* The product request takes effect, also when its sender has died meanwhile.
WriteLands(p) ==
  /\ proc[p].write # None
  /\ Become(p, [proc[p] EXCEPT !.write = None])
  /\ UNCHANGED <<receipt, session, recovery, child, intent, faults>>

\* The background loop; in a reserved outage it only watches the local clock.
Heartbeat(p) ==
  \/ ~proc[p].offline /\ Checked(p, Sent(proc[p], "renewing"))
  \/ /\ proc[p].offline /\ proc[p].pc = "free" /\ proc[p].alive
     /\ proc[p].age >= proc[p].dur
     /\ Become(p, Fenced(proc[p]))
     /\ UNCHANGED <<receipt, session, recovery, child, intent, faults>>

\* reserveOfflineWindow and finishOfflineWindow: one swap of the duration.
Resize(p) == p \in Runners /\ Checked(p, Sent(proc[p], "resizing"))

\* A caller releases after its last product request has been answered.
Release(p) == proc[p].write = None /\ Checked(p, Sent(proc[p], "closing"))

\* What an answered swap means for the operation that sent it.
AfterSwap(p) ==
  CASE proc[p].pc = "renewing" -> [Answered(proc[p], "free") EXCEPT !.age = 0]
    [] proc[p].pc = "resizing" -> [Answered(proc[p], "free") EXCEPT
                                     !.age = 0, !.dur = Put(p).dur, !.offline = ~@]
    [] OTHER -> Answered(proc[p], "closed")

Swapping(p) == proc[p].pc \in {"renewing", "resizing", "closing"} /\ proc[p].alive

SwapAnswered(p) ==
  /\ Swapping(p)
  /\ IF proc[p].fresh THEN Write(p, Put(p), AfterSwap(p)) ELSE Become(p, Fenced(proc[p]))
  /\ UNCHANGED <<receipt, session, recovery, child, intent, faults>>

SwapLost(p) ==
  /\ Swapping(p)
  /\ Fault
  /\ \/ proc[p].fresh /\ Write(p, Put(p), Fenced(proc[p]))
     \/ Become(p, Fenced(proc[p]))
  /\ UNCHANGED <<receipt, session, recovery, child, intent>>

\* release() reads the Lease once more before the receipt says released; a
\* recovery closes the receipts of the run it recovered (verifyReservationReleased).
ReleaseVerified(p) ==
  /\ proc[p].pc = "closed" /\ proc[p].alive
  /\ IF lease.holder = Nobody
       THEN /\ Become(p, Over(proc[p]))
            /\ receipt' = [r \in Runners |->
                 IF r = p \/ (p \in Recoverers /\ r = lease.run) THEN "released" ELSE receipt[r]]
       ELSE /\ Become(p, Fenced(proc[p]))
            /\ UNCHANGED receipt
  /\ UNCHANGED <<session, recovery, child, intent, faults>>

\* session.finish(): the parent's last write, after the lease object is done.
FinishSession(r) ==
  /\ r \in Runners
  /\ proc[r].pc = "ended" /\ proc[r].alive /\ session[r] = "running" /\ proc[r].write = None
  /\ session' = [session EXCEPT ![r] = "finished"]
  /\ UNCHANGED <<lease, proc, receipt, recovery, child, intent, faults>>

\* The process is killed.  A swap it had sent may still reach the server.
Crash(p) ==
  /\ p \in Harness
  /\ proc[p].alive /\ proc[p].pc \notin {"idle", "ended"}
  /\ Fault
  /\ LET me == [Over(proc[p]) EXCEPT !.alive = FALSE] IN
     \/ Become(p, me)
     \/ (proc[p].pc = "requested" \/ Swapping(p)) /\ proc[p].fresh /\ Write(p, Put(p), me)
  /\ UNCHANGED <<receipt, session, recovery, child, intent>>

-----------------------------------------------------------------------------
(* regression_guard.py: the host reserves the lab while it converges.       *)

\* The host's maintenance lock is inherited by the guarded command.
MaintenanceLockFree == \A h \in Hosts : ~child[h] /\ (proc[h].alive => proc[h].pc \in {"idle", "ended"})

\* A reservation this host left behind, a minute after it ran out.
OwnExpired(l) == l.host /\ l.holder \in Hosts /\ l.age >= l.dur + Drain

HostAcquire(h) ==
  /\ h \in Hosts
  /\ proc[h].pc = "idle" /\ proc[h].alive
  /\ MaintenanceLockFree
  /\ ~intent
  /\ lease.holder = Nobody \/ OwnExpired(lease)
  /\ Become(h, Sent(proc[h], "requested"))
  /\ UNCHANGED <<receipt, session, recovery, child, intent, faults>>

\* release(): an execution gives up its own reservation only.
HostReleases(h, me) ==
  IF lease.holder = h
    THEN Write(h, [lease EXCEPT !.holder = Nobody, !.age = 0, !.host = FALSE], me)
    ELSE Become(h, me)

\* The swap; a refused one ends the execution.
HostClaim(h) ==
  /\ h \in Hosts
  /\ proc[h].pc = "requested" /\ proc[h].alive
  /\ IF proc[h].fresh
       THEN Write(h, Put(h), [Answered(proc[h], "claimed") EXCEPT !.held = TRUE])
       ELSE Become(h, Over(proc[h]))
  /\ UNCHANGED <<receipt, session, recovery, child, intent, faults>>

\* A second look for test runs, then the command is started.
HostStart(h) ==
  /\ h \in Hosts
  /\ proc[h].pc = "claimed" /\ proc[h].alive
  /\ IF intent
       THEN HostReleases(h, Over(proc[h])) /\ UNCHANGED child
       ELSE Become(h, [proc[h] EXCEPT !.pc = "running"]) /\ child' = [child EXCEPT ![h] = TRUE]
  /\ UNCHANGED <<receipt, session, recovery, intent, faults>>

HostRenew(h) ==
  /\ h \in Hosts
  /\ proc[h].pc = "running" /\ proc[h].alive
  /\ LET lost == [proc[h] EXCEPT !.pc = "stopping"] IN
     \/ /\ lease.holder = h /\ proc[h].age > 0
        /\ Write(h, [lease EXCEPT !.age = 0], [proc[h] EXCEPT !.age = 0])
        /\ UNCHANGED faults
     \/ lease.holder # h /\ Become(h, lost) /\ UNCHANGED faults
     \/ Fault /\ Become(h, lost)
  /\ UNCHANGED <<receipt, session, recovery, child, intent>>

\* The command is stopped after a lost reservation; the Lease is left to expire.
HostStop(h) ==
  /\ h \in Hosts
  /\ proc[h].pc = "stopping" /\ proc[h].alive
  /\ child' = [child EXCEPT ![h] = FALSE]
  /\ Become(h, Over(proc[h]))
  /\ UNCHANGED <<receipt, session, recovery, intent, faults>>

\* The command ends: the Lease is kept unless Flux is proved to have converged.
HostDone(h) ==
  /\ h \in Hosts
  /\ proc[h].pc = "running" /\ proc[h].alive
  /\ child' = [child EXCEPT ![h] = FALSE]
  /\ \/ HostReleases(h, Over(proc[h])) /\ UNCHANGED faults
     \/ Fault /\ Become(h, Over(proc[h]))
  /\ UNCHANGED <<receipt, session, recovery, intent>>

\* The guard is killed; its command goes on and keeps the maintenance lock.
HostKilled(h) ==
  /\ h \in Hosts
  /\ proc[h].pc \in {"claimed", "running", "stopping"} /\ proc[h].alive
  /\ Fault
  /\ Become(h, [Over(proc[h]) EXCEPT !.alive = FALSE])
  /\ UNCHANGED <<receipt, session, recovery, child, intent>>

OrphanEnds(h) ==
  /\ h \in Hosts
  /\ child[h] /\ ~proc[h].alive
  /\ child' = [child EXCEPT ![h] = FALSE]
  /\ UNCHANGED <<lease, proc, receipt, session, recovery, intent, faults>>

\* A RegressionRun is created through the dashboard, and reaches a final phase.
IntentChanges ==
  /\ intent' = ~intent
  /\ UNCHANGED <<lease, proc, receipt, session, recovery, child, faults>>

-----------------------------------------------------------------------------
(* Time.                                                                    *)

Older(n) == IF n < Old THEN n + 1 ELSE Old

\* A request is under way for at most Latency; a guard that runs renews its
\* reservation, or notices that it cannot and stops its command, before the
\* reservation runs out.
Urgent(p) ==
  \/ proc[p].write = Latency \/ proc[p].sent = Latency
  \/ proc[p].alive /\ proc[p].pc \in {"claimed", "running", "stopping"} /\ p \in Hosts
     /\ proc[p].age = Duration - 1

\* A live owner that has not renewed in time.
Stalls(p) ==
  /\ p \in Harness /\ proc[p].held /\ proc[p].pc # "closed"
  /\ \/ proc[p].age + 1 = proc[p].dur
     \/ lease.holder = p /\ lease.age + 1 = lease.dur

\* The age of a Lease that nobody holds is not looked at.
Tick ==
  /\ \A p \in Owners : ~Urgent(p)
  /\ IF \E p \in Owners : Stalls(p) THEN Fault ELSE UNCHANGED faults
  /\ lease' = [lease EXCEPT !.age = IF lease.holder = Nobody THEN 0 ELSE Older(@)]
  /\ proc' = [p \in Owners |->
       [proc[p] EXCEPT !.age = IF proc[p].held THEN Older(@) ELSE @,
                       !.sent = IF @ = None THEN None ELSE @ + 1,
                       !.write = IF @ = None THEN None ELSE @ + 1]]
  /\ UNCHANGED <<receipt, session, recovery, child, intent>>

Step(p) ==
  \/ Acquire(p) \/ ClaimAnswered(p) \/ ClaimUnsure(p) \/ ClaimConfirmed(p)
  \/ AcquireRecovery(p) \/ RecoverFree(p) \/ GuardedWrite(p) \/ WriteLands(p) \/ Heartbeat(p)
  \/ Resize(p) \/ Release(p) \/ SwapAnswered(p) \/ ReleaseVerified(p) \/ FinishSession(p)
  \/ HostAcquire(p) \/ HostClaim(p) \/ HostStart(p) \/ HostRenew(p) \/ HostStop(p) \/ HostDone(p) \/ OrphanEnds(p)

Misfortune(p) == ClaimLost(p) \/ SwapLost(p) \/ Crash(p) \/ HostKilled(p)

Next ==
  \/ \E p \in Owners : Step(p) \/ Misfortune(p)
  \/ IntentChanges
  \/ Tick

Spec == Init /\ [][Next]_vars

\* Setup starts a recovery until one succeeds, a recovery finishes what it began,
\* the heartbeat loop runs, requests are answered and the clock goes on.
Recovers(q) ==
  \/ AcquireRecovery(q) \/ ClaimAnswered(q) \/ ClaimUnsure(q) \/ ClaimConfirmed(q)
  \/ SwapAnswered(q) \/ ReleaseVerified(q)

Fairness ==
  /\ WF_vars(Tick)
  /\ \A p \in Owners : WF_vars(WriteLands(p)) /\ WF_vars(SwapAnswered(p)) /\ WF_vars(ReleaseVerified(p))
  /\ \A q \in Recoverers : WF_vars(Recovers(q)) /\ WF_vars(Heartbeat(q)) /\ SF_vars(Release(q))
  /\ \A r \in Runners : WF_vars(ClaimAnswered(r)) /\ WF_vars(ClaimUnsure(r)) /\ WF_vars(FinishSession(r))
  /\ \A h \in Hosts : /\ WF_vars(HostClaim(h)) /\ WF_vars(HostStart(h)) /\ WF_vars(HostStop(h))
                      /\ WF_vars(HostDone(h)) /\ WF_vars(OrphanEnds(h))

FairSpec == Spec /\ Fairness

-----------------------------------------------------------------------------
(* Properties.                                                              *)

\* A product request takes effect only while the owner whose guard allowed it
\* is still the holder of the Lease: the minute of drain outlasts every request
\* of a runner that was killed or lost the API (lease.ts: acquireRecovery).
WriteOwned == [][\A p \in Owners : WriteLands(p) => lease.holder = p]_vars

\* Whoever holds the Lease can be found again from the run's own directory: a
\* runner that holds it has an open receipt, whatever answer was lost.
ReceiptTrue == \A r \in Runners : lease.holder = r => receipt[r] = "requested"

\* What the local clock alone tells an owner that is not releasing.
Trusts(p) == proc[p].held /\ proc[p].age < proc[p].dur /\ proc[p].pc # "closed"

\* At no time do two owners both trust their local clock: what a runner in a
\* reserved outage relies on while it cannot ask the API (backgroundHeartbeat).
OneBeliever ==
  \A p, q \in Harness : Trusts(p) /\ Trusts(q) => p = q

\* As long as the host's guard lives, its command runs under its own reservation:
\* it has stopped the command before anyone may take over an expired one.
HostHolds == \A h \in Hosts : child[h] /\ proc[h].alive => lease.holder = h

\* The lab has one owner at a time: between test runs and recoveries by their
\* clocks, between them and the host's command by the reservation.
OneOwner == OneBeliever /\ HostHolds

\* The lab of a run that died, was fenced or lost its answer is free again in
\* the end, although recoveries die and stall too.
Recovered == \A r \in Runners : lease.holder = r /\ proc[r].pc = "ended" ~> lease.holder = Nobody

\* "Test cleanup cannot clear this reservation": while the host's command runs
\* under its reservation, no recovery takes the Lease.
HostReserved == \A h \in Hosts, q \in Recoverers : child[h] => lease.holder # q
=============================================================================

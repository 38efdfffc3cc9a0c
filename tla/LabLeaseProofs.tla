--------------------------- MODULE LabLeaseProofs ---------------------------
(* The safety of the laboratory's reservation, for any number of runners,   *)
(* recoveries and guards, any times that satisfy LabAssumption and any      *)
(* number of faults.  The argument is about one owner at a time: Sound says *)
(* how its private state relates to the Lease.  Only the holder of the      *)
(* Lease, or whoever finds it vacant, changes it, so that the other owners  *)
(* stay sound (OthersSound); what is left is what each step does to itself. *)
EXTENDS LabLease, TLAPS

Places == {"idle", "requested", "unsure", "claimed", "free", "renewing", "resizing",
           "closing", "closed", "running", "stopping", "ended"}

Procs == [pc: Places,
          alive: BOOLEAN, held: BOOLEAN, fenced: BOOLEAN,
          age: 0..Old, dur: {Duration, Window}, offline: BOOLEAN,
          sent: None..Latency, fresh: BOOLEAN, write: None..Latency]

\* Nobody holds l, or its holder may be replaced.
Vacant(l) == l.holder = Nobody \/ l.age >= l.dur + Drain

\* The holder that m is, by its clock: the Lease is at most a request older.
Holds(l, p, m) == l.holder = p /\ l.dur = m.dur /\ l.age <= m.age + Latency

\* A request under way has an age.
SentSound(m) == m.pc \in {"requested", "renewing", "resizing", "closing"} => m.sent # None

\* An owner that has not claimed yet has nothing to lose.
NewSound(m) ==
  m.pc \in {"idle", "requested"} => ~m.held /\ m.age = 0 /\ m.dur = Duration /\ m.write = None

\* A claim that can still succeed was computed from a vacant Lease; a runner
\* takes over nobody.
ClaimSound(l, p, m) ==
  m.pc = "requested" /\ m.fresh => Vacant(l) /\ (p \in Runners => l.holder = Nobody)

\* A swap that can still succeed is the holder's.
SwapSound(l, p, m) ==
  m.pc \in {"renewing", "resizing", "closing"} =>
    p \in Harness /\ (m.fresh => l.holder = p /\ l.dur = m.dur)

\* A product request under way is the holder's, and was sent while the
\* reservation had not run out.
Pending(l, p, m) == m.write # None => p \in Harness /\ l.holder = p /\ l.age < l.dur + m.write

\* It was sent before any swap under way.
WriteSound(l, p, m) ==
  /\ Pending(l, p, m)
  /\ m.write # None =>
    /\ m.pc \in {"renewing", "resizing"} => m.sent <= m.write
    /\ m.pc \notin {"closing", "closed"}

\* An owner that trusts its clock is the holder.
TrustSound(l, p, m) ==
  p \in Harness /\ m.held /\ m.age < m.dur /\ m.pc # "closed" => Holds(l, p, m)

\* So is a guard at work, and its clock has not run out.
HostSound(l, p, m) ==
  p \in Hosts /\ m.alive /\ m.pc \in {"claimed", "running", "stopping"} =>
    /\ l.holder = p /\ l.dur = Duration /\ l.age <= m.age + Latency
    /\ m.held /\ m.age < Duration

Sound(l, p, m) ==
  /\ SentSound(m) /\ NewSound(m)
  /\ ClaimSound(l, p, m) /\ SwapSound(l, p, m) /\ WriteSound(l, p, m)
  /\ TrustSound(l, p, m) /\ HostSound(l, p, m)

\* Only a guard at work has a command, unless it was killed.
ChildSound == \A h \in Hosts : child[h] /\ proc[h].alive => proc[h].pc \in {"running", "stopping"}

\* A run that asks for the Lease has an open receipt and has not had it before.
ReceiptSound == \A r \in Runners :
  /\ proc[r].pc = "requested" => receipt[r] = "requested"
  /\ lease.run = r => proc[r].pc \notin {"idle", "requested"}

LabInv ==
  /\ TypeOK
  /\ \A p \in Owners : Sound(lease, p, proc[p])
  /\ ChildSound
  /\ ReceiptSound /\ ReceiptTrue

-----------------------------------------------------------------------------
(* The constants and the owners.                                            *)

\* The times are naturals, and a request is over before a drain is.
LEMMA Times ==
  /\ Duration \in Nat /\ Duration > 0 /\ Drain \in Nat /\ Latency \in Nat /\ Window \in Nat
  /\ Duration <= Window /\ Latency <= Drain
  /\ Old \in Nat /\ Old = Window + Drain + 1 /\ None = -1
BY LabAssumption DEF Old, None

\* The three kinds of owner are apart, and Nobody is none of them.
LEMMA Kinds ==
  /\ \A p \in Owners : p # Nobody /\ (p \in Harness \/ p \in Hosts)
  /\ \A p \in Harness : p \in Owners /\ p \notin Hosts
  /\ \A r \in Runners : r \in Harness /\ r \in Owners /\ r \notin Recoverers /\ r \notin Hosts
  /\ \A q \in Recoverers : q \in Harness /\ q \in Owners /\ q \notin Runners /\ q \notin Hosts
  /\ \A h \in Hosts : h \in Owners /\ h \notin Runners /\ h \notin Recoverers /\ h \notin Harness
BY LabAssumption DEF Owners, Harness

\* The private states of the owners, as TypeOK writes them.
LEMMA ProcsType == TypeOK => proc \in [Owners -> Procs] /\ lease \in Leases
BY DEF TypeOK, Procs, Places

\* An owner is not disturbed by a change of the Lease that it does not hold, or
\* that it holds only on paper: its own request becomes stale, and that is all.
LEMMA OthersSound ==
  ASSUME NEW l \in Leases, NEW new \in Leases, NEW p \in Owners, NEW m \in Procs,
         Sound(l, p, m), l.holder # p \/ Vacant(l)
  PROVE  [m EXCEPT !.fresh = FALSE] \in Procs /\ Sound(new, p, [m EXCEPT !.fresh = FALSE])
<1> DEFINE n == [m EXCEPT !.fresh = FALSE]
<1>1. /\ n \in Procs /\ n.pc = m.pc /\ n.alive = m.alive /\ n.held = m.held /\ n.age = m.age
      /\ n.dur = m.dur /\ n.sent = m.sent /\ n.fresh = FALSE /\ n.write = m.write
  BY DEF Procs
<1>2. m.write = None
  BY Times, Kinds DEF Sound, WriteSound, Pending, Vacant, Procs, Leases
<1>3. p \in Harness /\ m.held /\ m.age < m.dur => m.pc = "closed"
  BY Times, Kinds DEF Sound, TrustSound, Holds, Vacant, Procs, Leases
<1>4. ~(p \in Hosts /\ m.alive /\ m.pc \in {"claimed", "running", "stopping"})
  BY Times, Kinds DEF Sound, HostSound, Vacant, Procs, Leases
<1> HIDE DEF n
<1>5. SentSound(n) /\ NewSound(n)
  BY <1>1 DEF Sound, SentSound, NewSound
<1>6. ClaimSound(new, p, n) /\ SwapSound(new, p, n)
  BY <1>1 DEF Sound, ClaimSound, SwapSound
<1>7. WriteSound(new, p, n) /\ TrustSound(new, p, n) /\ HostSound(new, p, n)
  BY <1>1, <1>2, <1>3, <1>4 DEF WriteSound, Pending, TrustSound, HostSound
<1> QED
  BY <1>1, <1>5, <1>6, <1>7 DEF Sound, n

-----------------------------------------------------------------------------
(* The two shapes of a step.                                                *)

\* What every step leaves well typed.
Typed ==
  /\ session' \in [Runners -> {"none", "running", "finished"}]
  /\ recovery' \in Recoverers \cup {Nobody}
  /\ intent' \in BOOLEAN
  /\ faults' \in 0..MaxFaults

\* A step within one owner: it has to be sound itself, and neither forgets that
\* it has asked for the Lease nor leaves a command behind.
LEMMA LocalStep ==
  ASSUME LabInv, Typed, NEW p \in Owners, NEW me \in Procs, Become(p, me), Sound(lease, p, me),
         p \in Runners => me.pc \notin {"idle", "requested"},
         child' \in [Hosts -> BOOLEAN],
         \A h \in Hosts : h # p /\ child'[h] => child[h],
         p \in Hosts /\ child'[p] /\ me.alive => me.pc \in {"running", "stopping"},
         UNCHANGED receipt
  PROVE  LabInv'
<1> USE DEF LabInv
<1>1. proc \in [Owners -> Procs] /\ lease \in Leases
  BY ProcsType
<1>2. /\ lease' = lease /\ proc' \in [Owners -> Procs] /\ proc'[p] = me
      /\ \A o \in Owners : o # p => proc'[o] = proc[o]
  BY <1>1 DEF Become
<1>3. TypeOK'
  BY <1>1, <1>2 DEF TypeOK, Typed, Procs, Places
<1>4. \A o \in Owners : Sound(lease, o, proc'[o])
  BY <1>2
<1>5. ChildSound'
  BY <1>2, Kinds DEF ChildSound
<1>6. ReceiptSound' /\ ReceiptTrue'
  BY <1>2, Kinds DEF ReceiptSound, ReceiptTrue
<1> QED
  BY <1>2, <1>3, <1>4, <1>5, <1>6 DEF LabInv

\* A step that changes the Lease: only its holder does, or whoever finds it
\* vacant, and a runner becomes the holder only by its own request.
LEMMA LeaseStep ==
  ASSUME LabInv, Typed, NEW p \in Owners, NEW me \in Procs, NEW new \in Leases,
         Write(p, new, me), Sound(new, p, me),
         lease.holder = p \/ Vacant(lease),
         p \in Runners => me.pc \notin {"idle", "requested"},
         new.run # lease.run => new.run = p,
         new.holder \in Runners => new.holder = lease.holder \/ (new.holder = p /\ receipt[p] = "requested"),
         child' \in [Hosts -> BOOLEAN],
         \A h \in Hosts : h # p /\ child'[h] => child[h],
         p \in Hosts /\ child'[p] /\ me.alive => me.pc \in {"running", "stopping"},
         UNCHANGED receipt
  PROVE  LabInv'
<1> USE DEF LabInv
<1>1. proc \in [Owners -> Procs] /\ lease \in Leases
  BY ProcsType
<1>2. /\ lease' = new /\ proc'[p] = me
      /\ \A o \in Owners : o # p => proc'[o] = [proc[o] EXCEPT !.fresh = FALSE]
  BY DEF Write
<1>3. \A o \in Owners : o # p => lease.holder # o \/ Vacant(lease)
  OBVIOUS
<1>4. ASSUME NEW o \in Owners, o # p
      PROVE  proc'[o] \in Procs /\ Sound(new, o, proc'[o])
  <2>1. proc[o] \in Procs /\ Sound(lease, o, proc[o]) /\ (lease.holder # o \/ Vacant(lease))
    BY <1>1, <1>3, <1>4
  <2>2. /\ [proc[o] EXCEPT !.fresh = FALSE] \in Procs
        /\ Sound(new, o, [proc[o] EXCEPT !.fresh = FALSE])
    BY <1>1, <2>1, OthersSound
  <2> QED
    BY <1>2, <1>4, <2>2
<1>5. ASSUME NEW o \in Owners, o # p
      PROVE  proc'[o].pc = proc[o].pc /\ proc'[o].alive = proc[o].alive
  <2>1. proc[o] \in Procs /\ proc'[o] = [proc[o] EXCEPT !.fresh = FALSE]
    BY <1>1, <1>2, <1>5
  <2> QED
    BY <2>1 DEF Procs
<1>6. proc' \in [Owners -> Procs]
  BY <1>2, <1>4 DEF Write
<1>7. TypeOK'
  BY <1>2, <1>6 DEF TypeOK, Typed, Procs, Places
<1>8. \A o \in Owners : Sound(new, o, proc'[o])
  BY <1>2, <1>4
<1>9. ChildSound'
  BY <1>2, <1>5, Kinds DEF ChildSound
<1>10. ReceiptSound'
  BY <1>2, <1>5, Kinds DEF ReceiptSound
<1>11. ReceiptTrue'
  BY <1>2, Kinds DEF ReceiptTrue
<1> QED
  BY <1>2, <1>7, <1>8, <1>9, <1>10, <1>11 DEF LabInv

-----------------------------------------------------------------------------
(* What becomes of an owner, without the Lease.                             *)

\* Values an owner's state is set to.
LEMMA Values ==
  /\ None \in None..Latency /\ 0 \in None..Latency /\ 0 \in 0..Old
  /\ Duration \in {Duration, Window} /\ TRUE \in BOOLEAN /\ FALSE \in BOOLEAN
BY Times

\* The answer of a request.
LEMMA AnsweredType ==
  ASSUME NEW m \in Procs, NEW at \in Places
  PROVE  LET n == Answered(m, at) IN
         /\ n \in Procs /\ n.pc = at /\ n.sent = None /\ n.fresh = FALSE
         /\ n.alive = m.alive /\ n.held = m.held /\ n.age = m.age /\ n.dur = m.dur
         /\ n.offline = m.offline /\ n.write = m.write
<1>1. Answered(m, at) \in Procs
  BY Values, Zenon DEF Answered, Procs
<1> QED
  BY <1>1 DEF Answered, Procs

\* A request leaves.
LEMMA SentType ==
  ASSUME NEW m \in Procs, NEW at \in Places
  PROVE  LET n == Sent(m, at) IN
         /\ n \in Procs /\ n.pc = at /\ n.sent = 0 /\ n.fresh = TRUE
         /\ n.alive = m.alive /\ n.held = m.held /\ n.age = m.age /\ n.dur = m.dur
         /\ n.offline = m.offline /\ n.write = m.write
<1>1. Sent(m, at) \in Procs
  BY Values, Zenon DEF Sent, Procs
<1> QED
  BY <1>1 DEF Sent, Procs

\* n is what is left of an owner m that has stopped: it believes in nothing and
\* keeps only the product request it had sent.
Ended(m, n) == n \in Procs /\ n.pc = "ended" /\ n.held = FALSE /\ n.write = m.write

\* Whoever stops, is fenced or is killed has ended.
LEMMA OverEnded ==
  ASSUME NEW m \in Procs
  PROVE  /\ Ended(m, Over(m)) /\ Over(m).alive = m.alive
         /\ Ended(m, Fenced(m))
         /\ Ended(m, [Over(m) EXCEPT !.alive = FALSE]) /\ [Over(m) EXCEPT !.alive = FALSE].alive = FALSE
<1> DEFINE a == Answered(m, "ended")
           n == Over(m)
<1>1. a \in Procs /\ a.pc = "ended" /\ a.write = m.write /\ a.alive = m.alive
  BY AnsweredType DEF Places
<1>2. n = [a EXCEPT !.held = FALSE, !.age = 0, !.dur = Duration, !.offline = FALSE]
  BY DEF Over
<1> HIDE DEF a, n
<1>3. n \in Procs
  BY <1>1, <1>2, Values, Zenon DEF Procs
<1>4. n.pc = "ended" /\ n.held = FALSE /\ n.write = m.write /\ n.alive = m.alive
  BY <1>1, <1>2 DEF Procs
<1>5. Ended(m, [n EXCEPT !.fenced = TRUE]) /\ Ended(m, [n EXCEPT !.alive = FALSE])
  BY <1>3, <1>4 DEF Ended, Procs
<1>6. [n EXCEPT !.alive = FALSE].alive = FALSE
  BY <1>3 DEF Procs
<1> QED
  BY <1>3, <1>4, <1>5, <1>6 DEF Ended, Fenced, n

\* An owner that has ended is sound with its last product request.
LEMMA EndedSound ==
  ASSUME NEW l \in Leases, NEW p \in Owners, NEW m \in Procs, NEW n, Ended(m, n), Pending(l, p, m)
  PROVE  Sound(l, p, n)
<1>1. n \in Procs /\ n.pc = "ended" /\ n.held = FALSE /\ n.write = m.write
  BY DEF Ended
<1>2. SentSound(n) /\ NewSound(n) /\ ClaimSound(l, p, n) /\ SwapSound(l, p, n)
  BY <1>1 DEF SentSound, NewSound, ClaimSound, SwapSound
<1>3. WriteSound(l, p, n) /\ TrustSound(l, p, n) /\ HostSound(l, p, n)
  BY <1>1 DEF WriteSound, Pending, TrustSound, HostSound
<1> QED
  BY <1>1, <1>2, <1>3 DEF Sound

\* A claim that has ended without an answer leaves its owner in possession of nothing.
LEMMA UnsureSound ==
  ASSUME NEW l \in Leases, NEW p \in Owners, NEW m \in Procs, m.held = FALSE, m.write = None
  PROVE  Answered(m, "unsure") \in Procs /\ Sound(l, p, Answered(m, "unsure"))
<1> DEFINE n == Answered(m, "unsure")
<1>1. n \in Procs /\ n.pc = "unsure" /\ n.held = FALSE /\ n.write = None
  BY AnsweredType DEF Places
<1> HIDE DEF n
<1>2. SentSound(n) /\ NewSound(n) /\ ClaimSound(l, p, n) /\ SwapSound(l, p, n)
  BY <1>1 DEF SentSound, NewSound, ClaimSound, SwapSound
<1>3. WriteSound(l, p, n) /\ TrustSound(l, p, n) /\ HostSound(l, p, n)
  BY <1>1 DEF WriteSound, Pending, TrustSound, HostSound
<1> QED
  BY <1>1, <1>2, <1>3 DEF Sound, n

-----------------------------------------------------------------------------
(* What a request writes.                                                   *)

\* A request under way writes its own age.
LEMMA PutAge ==
  ASSUME LabInv, NEW p \in Owners,
         proc[p].pc \in {"requested", "renewing", "resizing", "closing"}
  PROVE  /\ proc[p].sent \in 0..Latency
         /\ [lease EXCEPT !.age = proc[p].sent] \in Leases
<1>1. proc[p] \in Procs /\ lease \in Leases /\ SentSound(proc[p])
  BY ProcsType DEF LabInv, Sound
<1>2. proc[p].sent \in 0..Latency
  BY <1>1, Times DEF SentSound, Procs
<1>3. proc[p].sent \in 0..Old
  BY <1>2, Times
<1> QED
  BY <1>1, <1>2, <1>3 DEF Leases

\* A claim makes p the holder, and the last run's mark changes with a run only.
LEMMA PutClaims ==
  ASSUME LabInv, NEW p \in Owners, proc[p].pc = "requested"
  PROVE  /\ Put(p) \in Leases
         /\ Put(p).holder = p /\ Put(p).dur = Duration /\ Put(p).age = proc[p].sent
         /\ Put(p).run = IF p \in Runners THEN p ELSE lease.run
<1> DEFINE l == [lease EXCEPT !.age = proc[p].sent]
<1>1. l \in Leases /\ l.age = proc[p].sent /\ l.run = lease.run
  BY PutAge, ProcsType DEF LabInv, Leases
<1> HIDE DEF l
<1>2. CASE p \in Runners
  <2>1. Put(p) = [l EXCEPT !.holder = p, !.dur = Duration, !.run = p, !.recovering = FALSE, !.original = Nobody]
    BY <1>2, Kinds DEF Put, l
  <2>2. Put(p) \in Leases
    BY <1>1, <1>2, <2>1, Zenon DEF Leases
  <2> QED
    BY <1>1, <1>2, <2>1, <2>2 DEF Leases
<1>3. CASE p \in Recoverers
  <2>1. Put(p) = [l EXCEPT !.holder = p, !.dur = Duration, !.recovering = TRUE,
                           !.original = IF l.recovering THEN l.original ELSE l.holder]
    BY <1>3, Kinds DEF Put, l
  <2> DEFINE original == IF l.recovering THEN l.original ELSE l.holder
  <2>2. original \in Owners \cup {Nobody}
    BY <1>1 DEF Leases
  <2>3. Put(p) = [l EXCEPT !.holder = p, !.dur = Duration, !.recovering = TRUE, !.original = original]
    BY <2>1
  <2> HIDE DEF original
  <2>4. Put(p) \in Leases
    BY <1>1, <2>2, <2>3, Zenon DEF Leases
  <2> QED
    BY <1>1, <1>3, <2>3, <2>4, Kinds DEF Leases
<1>4. CASE p \in Hosts
  <2>1. Put(p) = [l EXCEPT !.holder = p, !.dur = Duration, !.host = TRUE]
    BY <1>4, Kinds DEF Put, HostPut, l
  <2>2. Put(p) \in Leases
    BY <1>1, <2>1, Zenon DEF Leases
  <2> QED
    BY <1>1, <1>4, <2>1, <2>2, Kinds DEF Leases
<1> QED
  BY <1>2, <1>3, <1>4 DEF Owners, Harness

\* A swap keeps or gives up the holder and leaves the run's mark.
LEMMA PutSwaps ==
  ASSUME LabInv, NEW p \in Owners, proc[p].pc \in {"renewing", "resizing", "closing"}
  PROVE  /\ Put(p) \in Leases
         /\ Put(p).age = proc[p].sent /\ Put(p).run = lease.run
         /\ Put(p).holder = IF proc[p].pc = "closing" THEN Nobody ELSE lease.holder
         /\ proc[p].pc = "renewing" => Put(p).dur = lease.dur
         /\ proc[p].pc = "resizing" => Put(p).dur \in {Duration, Window}
<1> DEFINE l == [lease EXCEPT !.age = proc[p].sent]
<1>1. l \in Leases /\ l.age = proc[p].sent /\ l.run = lease.run /\ l.holder = lease.holder /\ l.dur = lease.dur
  BY PutAge, ProcsType DEF LabInv, Leases
<1> HIDE DEF l
<1>2. CASE proc[p].pc = "renewing"
  BY <1>1, <1>2 DEF Put, l
<1>3. CASE proc[p].pc = "resizing"
  <2> DEFINE d == IF proc[p].offline THEN Duration ELSE Window
  <2>1. Put(p) = [l EXCEPT !.dur = d]
    BY <1>3 DEF Put, l
  <2>2. d \in {Duration, Window}
    OBVIOUS
  <2> HIDE DEF d
  <2> QED
    BY <1>1, <1>3, <2>1, <2>2 DEF Leases
<1>4. CASE proc[p].pc = "closing"
  <2>1. Put(p) = [l EXCEPT !.holder = Nobody]
    BY <1>4 DEF Put, l
  <2> QED
    BY <1>1, <1>4, <2>1 DEF Leases
<1> QED
  BY <1>2, <1>3, <1>4

-----------------------------------------------------------------------------
(* The steps of a claim.                                                    *)

\* What an owner is in at the beginning of a step.
LEMMA Here ==
  ASSUME LabInv, NEW p \in Owners
  PROVE  /\ proc[p] \in Procs /\ lease \in Leases /\ Sound(lease, p, proc[p])
         /\ proc \in [Owners -> Procs]
BY ProcsType DEF LabInv

\* The rest of the state, where a step leaves it alone or counts a fault.
Rest == <<session, recovery, child, intent>>

\* Such a step leaves the rest well typed.
LEMMA RestTyped == LabInv /\ UNCHANGED Rest /\ (UNCHANGED faults \/ Fault) =>
  Typed /\ child' \in [Hosts -> BOOLEAN] /\ child' = child
<1> SUFFICES ASSUME LabInv, UNCHANGED Rest, UNCHANGED faults \/ Fault
             PROVE  Typed /\ child' \in [Hosts -> BOOLEAN] /\ child' = child
  OBVIOUS
<1>1. faults \in 0..MaxFaults /\ MaxFaults \in Nat
  BY LabAssumption DEF LabInv, TypeOK
<1>2. faults' \in 0..MaxFaults
  BY <1>1 DEF Fault
<1> QED
  BY <1>2 DEF LabInv, TypeOK, Typed, Rest

\* An owner stops, is fenced or is killed; the Lease stays.
LEMMA Stops ==
  ASSUME LabInv, NEW p \in Owners, UNCHANGED receipt, Typed,
         NEW n, Ended(proc[p], n), Become(p, n),
         child' \in [Hosts -> BOOLEAN], \A h \in Hosts : h # p /\ child'[h] => child[h],
         p \in Hosts /\ child'[p] => ~n.alive
  PROVE  LabInv'
<1>1. lease \in Leases /\ proc[p] \in Procs /\ Pending(lease, p, proc[p])
  BY Here DEF Sound, WriteSound
<1>2. n \in Procs /\ n.pc = "ended" /\ Sound(lease, p, n)
  BY <1>1, EndedSound DEF Ended
<1> QED
  BY <1>2, LocalStep

\* The run's session and receipt are written, and the request leaves.
LEMMA AcquireInv ==
  ASSUME LabInv, NEW r \in Owners, Acquire(r)
  PROVE  LabInv'
<1> DEFINE n == Sent(proc[r], "requested")
<1>1. /\ r \in Runners /\ r \in Harness /\ r \in Owners /\ r \notin Hosts /\ proc[r].pc = "idle"
      /\ lease.holder = Nobody /\ lease' = lease /\ proc' = [proc EXCEPT ![r] = n]
      /\ receipt' = [receipt EXCEPT ![r] = "requested"]
  BY Kinds DEF Acquire, LeaseHolderReason, Become
<1>2. /\ n \in Procs /\ n.pc = "requested" /\ n.sent = 0 /\ n.fresh = TRUE /\ n.held = proc[r].held
      /\ n.age = proc[r].age /\ n.dur = proc[r].dur /\ n.write = proc[r].write
  BY Here, SentType DEF Places
<1> HIDE DEF n
<1>3. Sound(lease, r, n)
  <2>1. SentSound(n) /\ NewSound(n)
    BY <1>1, <1>2, Here, Times DEF Sound, SentSound, NewSound
  <2>2. ClaimSound(lease, r, n) /\ SwapSound(lease, r, n)
    BY <1>1, <1>2 DEF ClaimSound, SwapSound, Vacant
  <2>3. WriteSound(lease, r, n) /\ TrustSound(lease, r, n) /\ HostSound(lease, r, n)
    BY <1>1, <1>2, Here DEF Sound, NewSound, WriteSound, Pending, TrustSound, HostSound
  <2> QED
    BY <2>1, <2>2, <2>3 DEF Sound
<1>4. proc' \in [Owners -> Procs] /\ proc'[r] = n /\ \A o \in Owners : o # r => proc'[o] = proc[o]
  BY <1>1, <1>2, Here
<1>5. TypeOK'
  BY <1>1, <1>4 DEF Acquire, LabInv, TypeOK, Procs, Places
<1>6. \A o \in Owners : Sound(lease, o, proc'[o])
  BY <1>3, <1>4 DEF LabInv
<1>7. ChildSound'
  BY <1>1, <1>4, Kinds DEF Acquire, LabInv, ChildSound
<1>8. ReceiptSound'
  BY <1>1, <1>2, <1>4, Kinds DEF LabInv, ReceiptSound, TypeOK
<1>9. ReceiptTrue'
  BY <1>1, Kinds DEF LabInv, ReceiptTrue, TypeOK
<1> QED
  BY <1>1, <1>5, <1>6, <1>7, <1>8, <1>9 DEF LabInv

\* The claim arrived and was granted: p holds the Lease, by the clock too.
LEMMA ClaimedSound ==
  ASSUME LabInv, NEW p \in Owners, proc[p].pc = "requested"
  PROVE  LET me == [Answered(proc[p], "claimed") EXCEPT !.held = TRUE] IN
         me \in Procs /\ me.pc = "claimed" /\ Sound(Put(p), p, me)
<1> DEFINE a == Answered(proc[p], "claimed")
           me == [a EXCEPT !.held = TRUE]
<1>1. proc[p].age = 0 /\ proc[p].dur = Duration /\ proc[p].write = None
  BY Here DEF Sound, NewSound
<1>2. a \in Procs /\ a.pc = "claimed" /\ a.age = 0 /\ a.dur = Duration /\ a.write = None
  BY <1>1, Here, AnsweredType DEF Places
<1> HIDE DEF a
<1>3. /\ me \in Procs /\ me.pc = "claimed" /\ me.held = TRUE
      /\ me.age = 0 /\ me.dur = Duration /\ me.write = None
  BY <1>2 DEF Procs
<1>4. /\ Put(p).holder = p /\ Put(p).dur = Duration /\ Put(p).age \in 0..Latency
  BY PutClaims, PutAge
<1> HIDE DEF me
<1>5. SentSound(me) /\ NewSound(me) /\ ClaimSound(Put(p), p, me) /\ SwapSound(Put(p), p, me)
  BY <1>3 DEF SentSound, NewSound, ClaimSound, SwapSound
<1>6. WriteSound(Put(p), p, me) /\ TrustSound(Put(p), p, me) /\ HostSound(Put(p), p, me)
  BY <1>3, <1>4, Times DEF WriteSound, Pending, TrustSound, HostSound, Holds
<1>7. Sound(Put(p), p, me)
  BY <1>5, <1>6 DEF Sound
<1> QED
  BY <1>3, <1>7 DEF me, a

\* A claim that can still succeed may be granted, whatever becomes of p.
LEMMA Granted ==
  ASSUME LabInv, NEW p \in Owners, proc[p].pc = "requested", proc[p].fresh,
         Typed, UNCHANGED <<receipt, child>>,
         NEW me \in Procs, Write(p, Put(p), me), Sound(Put(p), p, me),
         me.pc \in {"claimed", "unsure", "ended"}, me.alive => proc[p].alive
  PROVE  LabInv'
<1>1. Vacant(lease)
  BY Here DEF Sound, ClaimSound
<1>2. p \in Hosts => ~(child[p] /\ proc[p].alive)
  BY DEF LabInv, ChildSound
<1>3. p \in Hosts /\ child[p] => ~proc[p].alive
  BY <1>2
<1>4. p \in Runners => receipt[p] = "requested"
  BY DEF LabInv, ReceiptSound
<1>5. child \in [Hosts -> BOOLEAN]
  BY DEF LabInv, TypeOK
<1>6. /\ Put(p) \in Leases /\ Put(p).holder = p
      /\ Put(p).run = IF p \in Runners THEN p ELSE lease.run
  BY PutClaims
<1>7. ASSUME p \in Hosts, child[p], me.alive
      PROVE  FALSE
  <2>1. ~proc[p].alive
    BY <1>3, <1>7
  <2> QED
    BY <1>7, <2>1
<1> QED
  BY <1>1, <1>4, <1>5, <1>6, <1>7, LeaseStep

\* The claim was refused, or p does not know.
LEMMA UnsureStep ==
  ASSUME LabInv, NEW p \in Owners, proc[p].pc = "requested", p \notin Hosts,
         Typed, UNCHANGED <<receipt, child>>, Become(p, Answered(proc[p], "unsure"))
  PROVE  LabInv'
<1> DEFINE me == Answered(proc[p], "unsure")
<1>1. proc[p].held = FALSE /\ proc[p].write = None /\ proc[p] \in Procs /\ lease \in Leases
  BY Here DEF Sound, NewSound, Procs
<1>2. me \in Procs /\ me.pc = "unsure" /\ Sound(lease, p, me)
  BY <1>1, UnsureSound, AnsweredType DEF Places
<1>3. child' = child /\ child \in [Hosts -> BOOLEAN] /\ Become(p, me)
  BY DEF LabInv, TypeOK
<1> HIDE DEF me
<1> QED
  BY <1>2, <1>3, LocalStep

\* The answer of a claim: granted, or refused because the Lease has changed.
LEMMA ClaimAnsweredInv ==
  ASSUME LabInv, NEW p \in Owners, ClaimAnswered(p)
  PROVE  LabInv'
<1>1. /\ Typed /\ UNCHANGED <<receipt, child>> /\ child' \in [Hosts -> BOOLEAN]
      /\ p \in Harness /\ p \notin Hosts /\ proc[p].pc = "requested"
  BY RestTyped, Kinds DEF ClaimAnswered, Rest
<1>2. CASE proc[p].fresh
  <2> DEFINE me == [Answered(proc[p], "claimed") EXCEPT !.held = TRUE]
  <2>1. me \in Procs /\ me.pc = "claimed" /\ Sound(Put(p), p, me)
    BY <1>1, ClaimedSound
  <2>2. Write(p, Put(p), me)
    BY <1>2 DEF ClaimAnswered
  <2>3. me.alive = proc[p].alive
    <3>1. LET n == Answered(proc[p], "claimed") IN n \in Procs /\ n.alive = proc[p].alive
      BY Here, AnsweredType DEF Places
    <3> QED
      BY <3>1 DEF Procs
  <2> HIDE DEF me
  <2> QED
    BY <1>1, <1>2, <2>1, <2>2, <2>3, Granted
<1>3. CASE ~proc[p].fresh
  <2>1. Become(p, Answered(proc[p], "unsure"))
    BY <1>3 DEF ClaimAnswered
  <2> QED
    BY <1>1, <2>1, UnsureStep
<1> QED
  BY <1>2, <1>3

\* A claim without an answer, which may have been granted.
LEMMA ClaimLostInv ==
  ASSUME LabInv, NEW p \in Owners, ClaimLost(p)
  PROVE  LabInv'
<1>1. /\ Typed /\ UNCHANGED <<receipt, child>> /\ child' \in [Hosts -> BOOLEAN]
      /\ p \in Harness /\ p \notin Hosts /\ proc[p].pc = "requested"
  BY RestTyped, Kinds DEF ClaimLost, Rest
<1>2. CASE proc[p].fresh /\ Write(p, Put(p), Answered(proc[p], "unsure"))
  <2> DEFINE me == Answered(proc[p], "unsure")
  <2>1. Put(p) \in Leases /\ proc[p].held = FALSE /\ proc[p].write = None /\ proc[p] \in Procs
    BY <1>1, PutClaims, Here DEF Sound, NewSound, Procs
  <2>2. me \in Procs /\ me.pc = "unsure" /\ me.alive = proc[p].alive /\ Sound(Put(p), p, me)
    BY <2>1, UnsureSound, AnsweredType DEF Places
  <2> HIDE DEF me
  <2> QED
    BY <1>1, <1>2, <2>2, Granted DEF me
<1>3. CASE Become(p, Answered(proc[p], "unsure"))
  BY <1>1, <1>3, UnsureStep
<1> QED
  BY <1>2, <1>3 DEF ClaimLost

\* The receipt is closed by a read that shows another holder; p asks no more.
LEMMA ClaimUnsureInv ==
  ASSUME LabInv, NEW p \in Owners, ClaimUnsure(p)
  PROVE  LabInv'
<1> DEFINE me == Over(proc[p])
<1>1. proc[p].pc = "unsure" /\ Become(p, me) /\ UNCHANGED <<recovery, child, intent>>
  BY DEF ClaimUnsure
<1>2. me \in Procs /\ me.pc = "ended" /\ Ended(proc[p], me) /\ me.alive = proc[p].alive
  BY Here, OverEnded DEF Ended
<1>3. Typed
  <2>1. faults' \in 0..MaxFaults
    BY LabAssumption DEF ClaimUnsure, Fault, LabInv, TypeOK
  <2>2. session' \in [Runners -> {"none", "running", "finished"}]
    BY DEF ClaimUnsure, LabInv, TypeOK
  <2> QED
    BY <1>1, <2>1, <2>2 DEF Typed, LabInv, TypeOK
<1>4. child' = child /\ child \in [Hosts -> BOOLEAN]
  BY <1>1 DEF LabInv, TypeOK
<1>5. p \in Hosts /\ child[p] => ~me.alive
  BY <1>1, <1>2 DEF LabInv, ChildSound
<1> HIDE DEF me
<1>6. CASE UNCHANGED receipt
  BY <1>1, <1>2, <1>3, <1>4, <1>5, <1>6, Stops
<1>7. CASE p \in Runners /\ lease.holder # p /\ receipt' = [receipt EXCEPT ![p] = "released"]
  <2>1. /\ lease' = lease /\ proc' \in [Owners -> Procs] /\ proc'[p] = me
        /\ \A o \in Owners : o # p => proc'[o] = proc[o]
    BY <1>1, <1>2, Here DEF Become
  <2>2. Sound(lease, p, me)
    <3>1. lease \in Leases /\ proc[p] \in Procs /\ Pending(lease, p, proc[p])
      BY Here DEF Sound, WriteSound
    <3> QED
      BY <1>2, <3>1, EndedSound
  <2>3. receipt \in [Runners -> {"none", "requested", "released"}]
    BY DEF LabInv, TypeOK
  <2>4. TypeOK'
    BY <1>3, <1>4, <1>7, <2>1, <2>3 DEF LabInv, TypeOK, Typed, Procs, Places
  <2>5. \A o \in Owners : Sound(lease, o, proc'[o])
    BY <2>1, <2>2 DEF LabInv
  <2>6. ChildSound'
    BY <1>4, <1>7, <2>1, Kinds DEF LabInv, ChildSound
  <2>7. ReceiptSound' /\ ReceiptTrue'
    BY <1>2, <1>7, <2>1, <2>3, Kinds DEF LabInv, ReceiptSound, ReceiptTrue
  <2> QED
    BY <2>1, <2>4, <2>5, <2>6, <2>7 DEF LabInv
<1>8. ~UNCHANGED receipt => p \in Runners /\ lease.holder # p /\ receipt' = [receipt EXCEPT ![p] = "released"]
  <2>1. receipt \in [Runners -> {"none", "requested", "released"}]
    BY DEF LabInv, TypeOK
  <2> QED
    BY <2>1 DEF ClaimUnsure
<1> QED
  BY <1>6, <1>7, <1>8

\* acquire() ends with a check: p goes on or is fenced.
LEMMA ClaimConfirmedInv ==
  ASSUME LabInv, NEW p \in Owners, ClaimConfirmed(p)
  PROVE  LabInv'
<1>1. /\ UNCHANGED <<receipt, session, child, intent, faults>>
      /\ p \in Harness /\ p \notin Hosts /\ proc[p].pc = "claimed"
  BY Kinds DEF ClaimConfirmed
<1>2. Typed /\ child' = child /\ child' \in [Hosts -> BOOLEAN]
  <2>1. recovery' \in Recoverers \cup {Nobody}
    BY DEF ClaimConfirmed, LabInv, TypeOK
  <2> QED
    BY <1>1, <2>1 DEF Typed, LabInv, TypeOK
<1>3. CASE AssertHeld(p)
  <2> DEFINE me == [proc[p] EXCEPT !.pc = "free"]
  <2>1. /\ me \in Procs /\ me.pc = "free" /\ me.held = proc[p].held /\ me.age = proc[p].age
        /\ me.dur = proc[p].dur /\ me.write = proc[p].write
    BY Here DEF Procs, Places
  <2>2. Become(p, me)
    BY <1>3 DEF ClaimConfirmed
  <2> HIDE DEF me
  <2>3. Sound(lease, p, me)
    BY <1>1, <2>1, Here, Kinds DEF Sound, SentSound, NewSound, ClaimSound, SwapSound, WriteSound, Pending,
       TrustSound, HostSound, Holds
  <2> QED
    BY <1>1, <1>2, <2>1, <2>2, <2>3, LocalStep
<1>4. CASE ~AssertHeld(p)
  <2>1. Become(p, Fenced(proc[p])) /\ Ended(proc[p], Fenced(proc[p]))
    BY <1>4, Here, OverEnded DEF ClaimConfirmed
  <2> QED
    BY <1>1, <1>2, <2>1, Stops
<1> QED
  BY <1>3, <1>4

-----------------------------------------------------------------------------
(* Recovery.                                                                *)

\* A recovery under a new name asks for a drained Lease.
LEMMA AcquireRecoveryInv ==
  ASSUME LabInv, NEW q \in Owners, AcquireRecovery(q)
  PROVE  LabInv'
<1> DEFINE me == Sent(NewProc, "requested")
<1>1. /\ Typed /\ UNCHANGED <<receipt, child>> /\ child' \in [Hosts -> BOOLEAN]
      /\ q \in Recoverers /\ q \notin Runners /\ q \notin Hosts /\ Become(q, me)
  BY RestTyped, Kinds DEF AcquireRecovery, Rest
<1>2. Vacant(lease)
  BY DEF AcquireRecovery, Recoverable, Drained, Vacant
<1>3. NewProc \in Procs
  BY Values, Zenon DEF NewProc, Procs, Places
<1>4. /\ me \in Procs /\ me.pc = "requested" /\ me.sent = 0 /\ me.held = FALSE
      /\ me.age = 0 /\ me.dur = Duration /\ me.write = None
  <2>1. /\ NewProc.held = FALSE /\ NewProc.age = 0 /\ NewProc.dur = Duration /\ NewProc.write = None
    BY DEF NewProc
  <2>2. "requested" \in Places
    BY DEF Places
  <2> QED
    BY <1>3, <2>1, <2>2, SentType
<1> HIDE DEF me
<1>5. Sound(lease, q, me)
  <2>1. SentSound(me) /\ NewSound(me)
    BY <1>4, Times DEF SentSound, NewSound
  <2>2. ClaimSound(lease, q, me) /\ SwapSound(lease, q, me)
    BY <1>1, <1>2, <1>4 DEF ClaimSound, SwapSound
  <2>3. WriteSound(lease, q, me) /\ TrustSound(lease, q, me) /\ HostSound(lease, q, me)
    BY <1>4 DEF WriteSound, Pending, TrustSound, HostSound
  <2> QED
    BY <2>1, <2>2, <2>3 DEF Sound
<1> QED
  BY <1>1, <1>4, <1>5, LocalStep

\* A change of receipts alone is harmless where the run can no longer hold the
\* Lease nor ask for it.
LEMMA ReceiptsClosed ==
  ASSUME LabInv, lease' = lease, receipt' \in [Runners -> {"none", "requested", "released"}],
         NEW closed \in SUBSET Runners,
         \A r \in Runners \ closed : receipt'[r] = receipt[r],
         \A r \in closed : lease.holder # r /\ proc'[r].pc # "requested",
         \A r \in Runners : proc'[r].pc \in {"idle", "requested"} => proc'[r].pc = proc[r].pc
  PROVE  ReceiptSound' /\ ReceiptTrue'
<1>1. ReceiptTrue'
  BY DEF LabInv, ReceiptTrue
<1>2. ReceiptSound'
  BY DEF LabInv, ReceiptSound
<1> QED
  BY <1>1, <1>2

\* The receipts of a run whose release took effect are closed.
LEMMA RecoverFreeInv ==
  ASSUME LabInv, NEW q \in Owners, RecoverFree(q)
  PROVE  LabInv'
<1>1. /\ lease.run \in Runners /\ lease.holder = Nobody /\ lease' = lease /\ proc' = proc
      /\ receipt' = [receipt EXCEPT ![lease.run] = "released"]
      /\ UNCHANGED <<session, recovery, child, intent, faults>>
  BY DEF RecoverFree
<1>2. TypeOK'
  BY <1>1 DEF LabInv, TypeOK
<1>3. (\A o \in Owners : Sound(lease, o, proc[o]))' /\ ChildSound'
  BY <1>1 DEF LabInv, ChildSound
<1>4. receipt' \in [Runners -> {"none", "requested", "released"}]
      /\ \A r \in Runners \ {lease.run} : receipt'[r] = receipt[r]
  BY <1>1 DEF LabInv, TypeOK
<1>5. \A r \in {lease.run} : lease.holder # r /\ proc'[r].pc # "requested"
  BY <1>1, Kinds DEF LabInv, ReceiptSound
<1>6. ReceiptSound' /\ ReceiptTrue'
  <2>1. {lease.run} \in SUBSET Runners
    BY <1>1
  <2>2. \A r \in Runners : proc'[r].pc \in {"idle", "requested"} => proc'[r].pc = proc[r].pc
    BY <1>1
  <2> QED
    BY <1>1, <1>4, <1>5, <2>1, <2>2, ReceiptsClosed
<1> QED
  BY <1>2, <1>3, <1>6 DEF LabInv

-----------------------------------------------------------------------------
(* An owner at work.                                                        *)

\* An operation that begins with the check: it goes on soundly, or is fenced.
LEMMA CheckedInv ==
  ASSUME LabInv, NEW p \in Owners, NEW me, Checked(p, me),
         AssertHeld(p) => me \in Procs /\ me.pc \notin {"idle", "requested"} /\ Sound(lease, p, me)
  PROVE  LabInv'
<1>1. /\ Typed /\ UNCHANGED <<receipt, child>> /\ child' \in [Hosts -> BOOLEAN]
      /\ p \in Harness /\ p \notin Hosts
  BY RestTyped, Kinds DEF Checked, Rest
<1>2. CASE AssertHeld(p)
  <2>1. Become(p, me)
    BY <1>2 DEF Checked
  <2> QED
    BY <1>1, <1>2, <2>1, LocalStep
<1>3. CASE ~AssertHeld(p)
  <2>1. Become(p, Fenced(proc[p])) /\ Ended(proc[p], Fenced(proc[p]))
    BY <1>3, Here, OverEnded DEF Checked
  <2> QED
    BY <1>1, <2>1, Stops
<1> QED
  BY <1>2, <1>3

\* A product request leaves right after the check.
LEMMA GuardedWriteInv ==
  ASSUME LabInv, NEW p \in Owners, GuardedWrite(p)
  PROVE  LabInv'
<1> DEFINE me == [proc[p] EXCEPT !.write = 0]
<1>1. Checked(p, me) /\ p \in Harness /\ proc[p].pc = "free"
  BY DEF GuardedWrite, Checked
<1>2. /\ me \in Procs /\ me.pc = "free" /\ me.held = proc[p].held /\ me.age = proc[p].age
      /\ me.dur = proc[p].dur /\ me.write = 0
  <2>1. me \in Procs
    BY Here, Values DEF Procs
  <2> QED
    BY <1>1, <2>1, Here DEF Procs
<1> HIDE DEF me
<1>3. ASSUME AssertHeld(p)
      PROVE  Sound(lease, p, me)
  <2>1. lease.holder = p /\ lease.age < lease.dur + 0
    <3>1. lease.holder = p /\ lease.age < lease.dur
      BY <1>3 DEF AssertHeld
    <3>2. lease.dur \in Nat
      BY Here, Times DEF Leases
    <3> QED
      BY <3>1, <3>2
  <2>2. SentSound(me) /\ NewSound(me) /\ ClaimSound(lease, p, me) /\ SwapSound(lease, p, me)
    BY <1>2 DEF SentSound, NewSound, ClaimSound, SwapSound
  <2>3. WriteSound(lease, p, me)
    BY <1>1, <1>2, <2>1 DEF WriteSound, Pending
  <2>4. TrustSound(lease, p, me) /\ HostSound(lease, p, me)
    BY <1>1, <1>2, Here DEF Sound, TrustSound, HostSound, Holds
  <2> QED
    BY <2>2, <2>3, <2>4 DEF Sound
<1> QED
  BY <1>1, <1>2, <1>3, CheckedInv

\* The request of a holder leaves: it is the holder's, and no product request is
\* younger than it.
LEMMA HolderSends ==
  ASSUME LabInv, NEW p \in Owners, p \in Harness, proc[p].pc = "free", AssertHeld(p),
         NEW at \in {"renewing", "resizing", "closing"}, at = "closing" => proc[p].write = None
  PROVE  Sent(proc[p], at) \in Procs /\ Sent(proc[p], at).pc = at /\ Sound(lease, p, Sent(proc[p], at))
<1> DEFINE me == Sent(proc[p], at)
<1>1. /\ me \in Procs /\ me.pc = at /\ me.sent = 0 /\ me.held = proc[p].held
      /\ me.age = proc[p].age /\ me.dur = proc[p].dur /\ me.write = proc[p].write
  <2>1. at \in Places
    BY DEF Places
  <2> QED
    BY <2>1, Here, SentType
<1> HIDE DEF me
<1>2. lease.holder = p /\ lease.dur = proc[p].dur
  BY DEF AssertHeld
<1>3. SentSound(me) /\ NewSound(me) /\ ClaimSound(lease, p, me) /\ SwapSound(lease, p, me)
  BY <1>1, <1>2, Times DEF SentSound, NewSound, ClaimSound, SwapSound
<1>4. WriteSound(lease, p, me)
  <2>1. me.write # None => me.write >= 0
    BY <1>1, Times DEF Procs
  <2> QED
    BY <1>1, <2>1, Here DEF Sound, WriteSound, Pending
<1>5. TrustSound(lease, p, me) /\ HostSound(lease, p, me)
  BY <1>1, Here DEF Sound, TrustSound, HostSound, Holds
<1> QED
  BY <1>1, <1>3, <1>4, <1>5 DEF Sound, me

\* Renewal, a change of the duration, release: the same request.
LEMMA SendsInv ==
  ASSUME LabInv, NEW p \in Owners, NEW at \in {"renewing", "resizing", "closing"},
         Checked(p, Sent(proc[p], at)), at = "closing" => proc[p].write = None
  PROVE  LabInv'
<1>1. p \in Harness /\ proc[p].pc = "free"
  BY DEF Checked
<1>2. AssertHeld(p) => LET me == Sent(proc[p], at) IN
        me \in Procs /\ me.pc \notin {"idle", "requested"} /\ Sound(lease, p, me)
  BY <1>1, HolderSends
<1> DEFINE me == Sent(proc[p], at)
<1> HIDE DEF me
<1> QED
  BY <1>2, CheckedInv DEF me

\* The product request takes effect.
LEMMA WriteLandsInv ==
  ASSUME LabInv, NEW p \in Owners, WriteLands(p)
  PROVE  LabInv'
<1> DEFINE me == [proc[p] EXCEPT !.write = None]
<1>1. /\ Typed /\ UNCHANGED <<receipt, child>> /\ child' \in [Hosts -> BOOLEAN]
      /\ Become(p, me) /\ proc[p].write # None
  BY RestTyped DEF WriteLands, Rest
<1>2. p \in Harness /\ p \notin Hosts /\ proc[p].pc \notin {"idle", "requested"}
  BY <1>1, Here, Kinds DEF Sound, WriteSound, Pending, NewSound
<1>3. /\ me \in Procs /\ me.pc = proc[p].pc /\ me.held = proc[p].held /\ me.age = proc[p].age
      /\ me.dur = proc[p].dur /\ me.write = None /\ me.sent = proc[p].sent /\ me.fresh = proc[p].fresh
  <2>1. me \in Procs
    BY Here, Values DEF Procs
  <2> QED
    BY <2>1, Here DEF Procs
<1> HIDE DEF me
<1>4. Sound(lease, p, me)
  <2>1. SentSound(me) /\ NewSound(me) /\ ClaimSound(lease, p, me) /\ SwapSound(lease, p, me)
    BY <1>2, <1>3, Here DEF Sound, SentSound, NewSound, ClaimSound, SwapSound
  <2>2. WriteSound(lease, p, me) /\ TrustSound(lease, p, me) /\ HostSound(lease, p, me)
    BY <1>2, <1>3, Here DEF Sound, WriteSound, Pending, TrustSound, HostSound, Holds
  <2> QED
    BY <2>1, <2>2 DEF Sound
<1> QED
  BY <1>1, <1>2, <1>3, <1>4, LocalStep

\* Renewal, or the end of an outage that took too long.
LEMMA HeartbeatInv ==
  ASSUME LabInv, NEW p \in Owners, Heartbeat(p)
  PROVE  LabInv'
<1>1. CASE Checked(p, Sent(proc[p], "renewing"))
  BY <1>1, SendsInv
<1>2. CASE /\ proc[p].pc = "free" /\ proc[p].alive /\ Become(p, Fenced(proc[p]))
           /\ UNCHANGED <<receipt, session, recovery, child, intent, faults>>
  <2>1. Typed /\ UNCHANGED <<receipt, child>> /\ child' \in [Hosts -> BOOLEAN]
    BY <1>2, RestTyped DEF Rest
  <2>2. p \in Hosts => ~child[p]
    BY <1>2 DEF LabInv, ChildSound
  <2>3. Ended(proc[p], Fenced(proc[p]))
    BY Here, OverEnded
  <2> QED
    BY <1>2, <2>1, <2>2, <2>3, Stops
<1> QED
  BY <1>1, <1>2 DEF Heartbeat

\* A swap that succeeds leaves the product request under way younger than the
\* reservation, although its age becomes that of the swap.
LEMMA SwapPending ==
  ASSUME LabInv, NEW p \in Owners, proc[p].pc \in {"renewing", "resizing", "closing"}, proc[p].fresh
  PROVE  /\ p \in Harness /\ p \notin Hosts /\ lease.holder = p /\ lease.dur = proc[p].dur
         /\ Pending(Put(p), p, proc[p])
<1>1. p \in Harness /\ p \notin Hosts /\ lease.holder = p /\ lease.dur = proc[p].dur
  BY Here, Kinds DEF Sound, SwapSound
<1>2. ASSUME proc[p].write # None
      PROVE  Put(p).holder = p /\ Put(p).age < Put(p).dur + proc[p].write
  <2>1. proc[p].pc \in {"renewing", "resizing"} /\ proc[p].sent <= proc[p].write
    BY <1>2, Here DEF Sound, WriteSound
  <2>2. Put(p).dur \in {Duration, Window} /\ Put(p).age = proc[p].sent /\ Put(p).holder = p
    BY <1>1, <2>1, PutSwaps, Here DEF Procs
  <2>3. proc[p].sent \in Int /\ proc[p].write \in Int
    BY Here, Times DEF Procs
  <2> QED
    BY <2>1, <2>2, <2>3, Times
<1> QED
  BY <1>1, <1>2 DEF Pending

\* A swap of the holder succeeds, whatever becomes of the holder.
LEMMA Swapped ==
  ASSUME LabInv, NEW p \in Owners, proc[p].pc \in {"renewing", "resizing", "closing"}, proc[p].fresh,
         Typed, UNCHANGED <<receipt, child>>,
         NEW me \in Procs, me.pc \notin {"idle", "requested"},
         Write(p, Put(p), me), Sound(Put(p), p, me)
  PROVE  LabInv'
<1>1. p \notin Hosts /\ lease.holder = p
  BY SwapPending
<1>2. /\ Put(p) \in Leases /\ Put(p).run = lease.run
      /\ Put(p).holder \in {Nobody, lease.holder}
  BY PutSwaps
<1>3. child' = child /\ child \in [Hosts -> BOOLEAN]
  BY DEF LabInv, TypeOK
<1> DEFINE new == Put(p)
<1>4. /\ new \in Leases /\ new.run = lease.run /\ Write(p, new, me) /\ Sound(new, p, me)
      /\ new.holder \in Runners => new.holder = lease.holder
  BY <1>2, Kinds DEF LabInv, TypeOK
<1> HIDE DEF new
<1>5. /\ lease.holder = p \/ Vacant(lease)
      /\ new.run # lease.run => new.run = p
      /\ new.holder \in Runners => new.holder = lease.holder \/ (new.holder = p /\ receipt[p] = "requested")
  BY <1>1, <1>4
<1>6. /\ child' \in [Hosts -> BOOLEAN] /\ UNCHANGED receipt
      /\ \A h \in Hosts : h # p /\ child'[h] => child[h]
      /\ p \in Hosts /\ child'[p] /\ me.alive => me.pc \in {"running", "stopping"}
  BY <1>1, <1>3
<1> QED
  BY <1>4, <1>5, <1>6, LeaseStep

\* The answer of a swap means what it says.
LEMMA AfterSwapSound ==
  ASSUME LabInv, NEW p \in Owners, proc[p].pc \in {"renewing", "resizing", "closing"}, proc[p].fresh
  PROVE  /\ AfterSwap(p) \in Procs /\ AfterSwap(p).pc \in {"free", "closed"}
         /\ Sound(Put(p), p, AfterSwap(p))
<1>1. /\ p \in Harness /\ p \notin Hosts /\ lease.holder = p /\ lease.dur = proc[p].dur
      /\ Pending(Put(p), p, proc[p]) /\ proc[p] \in Procs
  BY SwapPending, Here
<1>2. /\ Put(p).age \in 0..Latency /\ Put(p).age = proc[p].sent
  BY PutSwaps, PutAge
<1> DEFINE a == Answered(proc[p], "free")
           me == AfterSwap(p)
<1>3. a \in Procs /\ a.pc = "free" /\ a.dur = proc[p].dur /\ a.write = proc[p].write /\ a.offline = proc[p].offline
  <2>1. "free" \in Places
    BY DEF Places
  <2> QED
    BY <1>1, <2>1, AnsweredType
<1>4. CASE proc[p].pc = "closing"
  <2>1. me = Answered(proc[p], "closed")
    BY <1>4 DEF AfterSwap
  <2>2. proc[p].write = None
    BY <1>4, Here DEF Sound, WriteSound
  <2>3. me \in Procs /\ me.pc = "closed" /\ me.write = None
    <3>1. "closed" \in Places
      BY DEF Places
    <3>2. LET n == Answered(proc[p], "closed") IN n \in Procs /\ n.pc = "closed" /\ n.write = proc[p].write
      BY <1>1, <3>1, AnsweredType
    <3> QED
      BY <2>1, <2>2, <3>2
  <2> HIDE DEF me
  <2>4. Sound(Put(p), p, me)
    BY <1>1, <2>3 DEF Sound, SentSound, NewSound, ClaimSound, SwapSound, WriteSound, Pending, TrustSound, HostSound
  <2> QED
    BY <2>3, <2>4 DEF me
<1>5. CASE proc[p].pc \in {"renewing", "resizing"}
  <2> HIDE DEF a
  <2>1. /\ Put(p).dur \in {Duration, Window} /\ Put(p).holder = p
        /\ proc[p].pc = "renewing" => Put(p).dur = proc[p].dur
    BY <1>1, <1>5, PutSwaps DEF Procs
  <2>2. me \in Procs /\ me.pc = "free" /\ me.age = 0 /\ me.dur = Put(p).dur /\ me.write = proc[p].write
    <3>1. CASE proc[p].pc = "renewing"
      <4>1. me = [a EXCEPT !.age = 0]
        BY <3>1 DEF AfterSwap, a
      <4>2. me \in Procs
        BY <1>3, <4>1, Values DEF Procs
      <4> QED
        BY <1>3, <2>1, <3>1, <4>1, <4>2 DEF Procs
    <3>2. CASE proc[p].pc = "resizing"
      <4> DEFINE b == ~a.offline
                 d == Put(p).dur
      <4>1. me = [a EXCEPT !.age = 0, !.dur = d, !.offline = b]
        BY <3>2, <1>3 DEF AfterSwap, a
      <4>2. b \in BOOLEAN /\ d \in {Duration, Window} /\ d = Put(p).dur
        BY <2>1
      <4> HIDE DEF b, d
      <4>3. me \in Procs
        BY <1>3, <4>1, <4>2, Values, Zenon DEF Procs
      <4> QED
        BY <1>3, <4>1, <4>2, <4>3 DEF Procs
    <3> QED
      BY <1>5, <3>1, <3>2
  <2> HIDE DEF me
  <2>3. SentSound(me) /\ NewSound(me) /\ ClaimSound(Put(p), p, me) /\ SwapSound(Put(p), p, me)
    BY <2>2 DEF SentSound, NewSound, ClaimSound, SwapSound
  <2>4. WriteSound(Put(p), p, me)
    BY <1>1, <2>2 DEF WriteSound, Pending
  <2>5. TrustSound(Put(p), p, me) /\ HostSound(Put(p), p, me)
    BY <1>1, <1>2, <2>1, <2>2, Times DEF TrustSound, HostSound, Holds
  <2> QED
    BY <2>2, <2>3, <2>4, <2>5 DEF Sound, me
<1> QED
  BY <1>4, <1>5

\* A swap reaches the server and its owner has ended, whatever the request was.
LEMMA LastSwap ==
  ASSUME LabInv, NEW p \in Owners, p \notin Hosts, proc[p].fresh,
         proc[p].pc \in {"requested", "renewing", "resizing", "closing"},
         Typed, UNCHANGED <<receipt, child>>,
         NEW n, Ended(proc[p], n), n.alive => proc[p].alive, Write(p, Put(p), n)
  PROVE  LabInv'
<1>1. proc[p] \in Procs /\ n \in Procs /\ n.pc = "ended"
  BY Here DEF Ended
<1>2. CASE proc[p].pc = "requested"
  <2>1. Put(p) \in Leases
    BY <1>2, PutClaims
  <2>2. Pending(Put(p), p, proc[p])
    BY <1>2, Here DEF Sound, NewSound, Pending
  <2>3. Sound(Put(p), p, n)
    BY <1>1, <2>1, <2>2, EndedSound
  <2> QED
    BY <1>1, <1>2, <2>3, Granted
<1>3. CASE proc[p].pc \in {"renewing", "resizing", "closing"}
  <2>1. Put(p) \in Leases /\ Pending(Put(p), p, proc[p])
    BY <1>3, PutSwaps, SwapPending
  <2>2. Sound(Put(p), p, n)
    BY <1>1, <2>1, EndedSound
  <2> QED
    BY <1>1, <1>3, <2>2, Swapped
<1> QED
  BY <1>2, <1>3

\* The answer of a swap.
LEMMA SwapAnsweredInv ==
  ASSUME LabInv, NEW p \in Owners, SwapAnswered(p)
  PROVE  LabInv'
<1>1. /\ Typed /\ UNCHANGED <<receipt, child>> /\ child' \in [Hosts -> BOOLEAN]
      /\ proc[p].pc \in {"renewing", "resizing", "closing"}
  BY RestTyped DEF SwapAnswered, Swapping, Rest
<1>2. p \in Harness /\ p \notin Hosts
  BY <1>1, Here, Kinds DEF Sound, SwapSound
<1>3. CASE proc[p].fresh
  <2> DEFINE me == AfterSwap(p)
  <2>1. me \in Procs /\ me.pc \in {"free", "closed"} /\ Sound(Put(p), p, me) /\ Write(p, Put(p), me)
    BY <1>1, <1>3, AfterSwapSound DEF SwapAnswered
  <2> HIDE DEF me
  <2> QED
    BY <1>1, <1>3, <2>1, Swapped
<1>4. CASE ~proc[p].fresh
  <2>1. Become(p, Fenced(proc[p])) /\ Ended(proc[p], Fenced(proc[p]))
    BY <1>4, Here, OverEnded DEF SwapAnswered
  <2> QED
    BY <1>1, <1>2, <2>1, Stops
<1> QED
  BY <1>3, <1>4

\* A swap without an answer fences its owner, granted or not.
LEMMA SwapLostInv ==
  ASSUME LabInv, NEW p \in Owners, SwapLost(p)
  PROVE  LabInv'
<1>1. /\ Typed /\ UNCHANGED <<receipt, child>> /\ child' \in [Hosts -> BOOLEAN]
      /\ proc[p].pc \in {"renewing", "resizing", "closing"} /\ proc[p].alive
  BY RestTyped DEF SwapLost, Swapping, Rest
<1>2. p \in Harness /\ p \notin Hosts
  BY <1>1, Here, Kinds DEF Sound, SwapSound
<1> DEFINE n == Fenced(proc[p])
<1>3. Ended(proc[p], n)
  BY Here, OverEnded
<1>4. (proc[p].fresh /\ Write(p, Put(p), n)) \/ Become(p, n)
  BY DEF SwapLost
<1> HIDE DEF n
<1>5. CASE proc[p].fresh /\ Write(p, Put(p), n)
  BY <1>1, <1>2, <1>3, <1>5, LastSwap
<1>6. CASE Become(p, n)
  BY <1>1, <1>2, <1>3, <1>6, Stops
<1> QED
  BY <1>4, <1>5, <1>6

\* The process is killed; a swap it had sent may still be granted.
LEMMA CrashInv ==
  ASSUME LabInv, NEW p \in Owners, Crash(p)
  PROVE  LabInv'
<1> DEFINE n == [Over(proc[p]) EXCEPT !.alive = FALSE]
<1>1. /\ Typed /\ UNCHANGED <<receipt, child>> /\ child' \in [Hosts -> BOOLEAN]
      /\ p \in Harness /\ p \notin Hosts /\ proc[p].alive
  BY RestTyped, Kinds DEF Crash, Rest
<1>2. Ended(proc[p], n)
  BY Here, OverEnded
<1>3. \/ Become(p, n)
      \/ /\ proc[p].pc \in {"requested", "renewing", "resizing", "closing"}
         /\ proc[p].fresh /\ Write(p, Put(p), n)
  BY DEF Crash, Swapping
<1> HIDE DEF n
<1>4. CASE Become(p, n)
  BY <1>1, <1>2, <1>4, Stops
<1>5. CASE /\ proc[p].pc \in {"requested", "renewing", "resizing", "closing"}
           /\ proc[p].fresh /\ Write(p, Put(p), n)
  BY <1>1, <1>2, <1>5, LastSwap
<1> QED
  BY <1>3, <1>4, <1>5

\* The release is verified: the receipts of the run are closed, or p is fenced.
LEMMA ReleaseVerifiedInv ==
  ASSUME LabInv, NEW p \in Owners, ReleaseVerified(p)
  PROVE  LabInv'
<1>1. /\ Typed /\ child' = child /\ child \in [Hosts -> BOOLEAN]
      /\ proc[p].pc = "closed" /\ proc[p].alive
  BY RestTyped DEF ReleaseVerified, Rest, LabInv, TypeOK
<1>2. p \in Hosts => ~child[p]
  BY <1>1 DEF LabInv, ChildSound
<1>3. CASE lease.holder # Nobody
  <2>1. /\ Become(p, Fenced(proc[p])) /\ Ended(proc[p], Fenced(proc[p])) /\ UNCHANGED receipt
    BY <1>3, Here, OverEnded DEF ReleaseVerified
  <2> QED
    BY <1>1, <1>2, <2>1, Stops
<1>4. CASE lease.holder = Nobody
  <2> DEFINE me == Over(proc[p])
             closed == {r \in Runners : r = p \/ (p \in Recoverers /\ r = lease.run)}
  <2>1. /\ Become(p, me)
        /\ receipt' = [r \in Runners |-> IF r \in closed THEN "released" ELSE receipt[r]]
    BY <1>4 DEF ReleaseVerified
  <2>2. Ended(proc[p], me) /\ me \in Procs /\ me.pc = "ended"
    BY Here, OverEnded DEF Ended
  <2>3. closed \in SUBSET Runners /\ \A r \in closed : r = p \/ r = lease.run
    OBVIOUS
  <2> HIDE DEF me, closed
  <2>4. /\ lease' = lease /\ proc' \in [Owners -> Procs] /\ proc'[p] = me
        /\ \A o \in Owners : o # p => proc'[o] = proc[o]
    BY <2>1, <2>2, Here DEF Become
  <2>5. Sound(lease, p, me)
    <3>1. lease \in Leases /\ proc[p] \in Procs /\ Pending(lease, p, proc[p])
      BY Here DEF Sound, WriteSound
    <3> QED
      BY <2>2, <3>1, EndedSound
  <2>6. receipt' \in [Runners -> {"none", "requested", "released"}]
    BY <2>1 DEF LabInv, TypeOK
  <2>7. TypeOK'
    BY <1>1, <2>4, <2>6 DEF LabInv, TypeOK, Typed, Procs, Places
  <2>8. \A o \in Owners : Sound(lease, o, proc'[o])
    BY <2>4, <2>5 DEF LabInv
  <2>9. ChildSound'
    BY <1>1, <1>2, <2>4, Kinds DEF LabInv, ChildSound
  <2>10. \A r \in Runners \ closed : receipt'[r] = receipt[r]
    BY <2>1
  <2>11. \A r \in closed : lease.holder # r /\ proc'[r].pc # "requested"
    BY <1>4, <2>2, <2>3, <2>4, Kinds DEF LabInv, ReceiptSound
  <2>12. \A r \in Runners : proc'[r].pc \in {"idle", "requested"} => proc'[r].pc = proc[r].pc
    BY <2>2, <2>4, Kinds
  <2>13. ReceiptSound' /\ ReceiptTrue'
    BY <2>3, <2>4, <2>6, <2>10, <2>11, <2>12, ReceiptsClosed
  <2> QED
    BY <2>4, <2>7, <2>8, <2>9, <2>13 DEF LabInv
<1> QED
  BY <1>3, <1>4

\* The parent's last write.
LEMMA FinishSessionInv ==
  ASSUME LabInv, NEW r \in Owners, FinishSession(r)
  PROVE  LabInv'
BY DEF FinishSession, LabInv, TypeOK, ChildSound, ReceiptSound, ReceiptTrue

-----------------------------------------------------------------------------
(* The host's guard.                                                        *)

\* The guard asks for a Lease that is free, or that it let expire.
LEMMA HostAcquireInv ==
  ASSUME LabInv, NEW h \in Owners, HostAcquire(h)
  PROVE  LabInv'
<1> DEFINE me == Sent(proc[h], "requested")
<1>1. /\ Typed /\ UNCHANGED <<receipt, child>> /\ child' \in [Hosts -> BOOLEAN]
      /\ h \in Hosts /\ h \notin Runners /\ h \notin Harness /\ proc[h].pc = "idle" /\ Become(h, me)
  BY RestTyped, Kinds DEF HostAcquire, Rest
<1>2. Vacant(lease) /\ ~child[h]
  BY <1>1 DEF HostAcquire, OwnExpired, Vacant, MaintenanceLockFree
<1>3. /\ me \in Procs /\ me.pc = "requested" /\ me.sent = 0 /\ me.held = proc[h].held
      /\ me.age = proc[h].age /\ me.dur = proc[h].dur /\ me.write = proc[h].write
  BY Here, SentType DEF Places
<1> HIDE DEF me
<1>4. Sound(lease, h, me)
  <2>1. SentSound(me) /\ NewSound(me)
    BY <1>1, <1>3, Here, Times DEF Sound, SentSound, NewSound
  <2>2. ClaimSound(lease, h, me) /\ SwapSound(lease, h, me)
    BY <1>1, <1>2, <1>3 DEF ClaimSound, SwapSound
  <2>3. WriteSound(lease, h, me) /\ TrustSound(lease, h, me) /\ HostSound(lease, h, me)
    BY <1>1, <1>3, Here DEF Sound, NewSound, WriteSound, Pending, TrustSound, HostSound
  <2> QED
    BY <2>1, <2>2, <2>3 DEF Sound
<1> QED
  BY <1>1, <1>2, <1>3, <1>4, LocalStep

\* The guard's claim is granted, or the execution ends.
LEMMA HostClaimInv ==
  ASSUME LabInv, NEW h \in Owners, HostClaim(h)
  PROVE  LabInv'
<1>1. /\ Typed /\ UNCHANGED <<receipt, child>> /\ child' \in [Hosts -> BOOLEAN]
      /\ h \in Hosts /\ proc[h].pc = "requested" /\ proc[h].alive
  BY RestTyped DEF HostClaim, Rest
<1>2. ~child[h]
  BY <1>1 DEF LabInv, ChildSound
<1>3. CASE proc[h].fresh
  <2> DEFINE me == [Answered(proc[h], "claimed") EXCEPT !.held = TRUE]
  <2>1. me \in Procs /\ me.pc = "claimed" /\ Sound(Put(h), h, me)
    BY <1>1, ClaimedSound
  <2>2. Write(h, Put(h), me)
    BY <1>3 DEF HostClaim
  <2> HIDE DEF me
  <2> QED
    BY <1>1, <1>3, <2>1, <2>2, Granted
<1>4. CASE ~proc[h].fresh
  <2>1. Become(h, Over(proc[h])) /\ Ended(proc[h], Over(proc[h]))
    BY <1>4, Here, OverEnded DEF HostClaim
  <2> QED
    BY <1>1, <1>2, <2>1, Stops
<1> QED
  BY <1>3, <1>4

\* A guard sends no product request, and at work it is the holder.
LEMMA GuardHolds ==
  ASSUME LabInv, NEW h \in Hosts
  PROVE  /\ h \in Owners /\ h \notin Runners /\ h \notin Harness
         /\ proc[h].write = None
         /\ proc[h].alive /\ proc[h].pc \in {"claimed", "running", "stopping"} =>
              lease.holder = h /\ lease.dur = Duration /\ lease.age <= proc[h].age + Latency
              /\ proc[h].held /\ proc[h].age < Duration
BY Here, Kinds DEF Sound, WriteSound, Pending, HostSound

\* The guard has no command any more, and gives up its own reservation only.
LEMMA HostReleasesInv ==
  ASSUME LabInv, NEW h \in Hosts, NEW n, Ended(proc[h], n), HostReleases(h, n),
         Typed, UNCHANGED receipt, child' \in [Hosts -> BOOLEAN], ~child'[h],
         \A o \in Hosts : o # h /\ child'[o] => child[o]
  PROVE  LabInv'
<1>1. /\ h \in Owners /\ h \notin Runners /\ h \notin Harness /\ proc[h].write = None
      /\ proc[h] \in Procs /\ lease \in Leases /\ n \in Procs /\ n.pc = "ended"
  BY GuardHolds, Here DEF Ended
<1>2. CASE lease.holder = h
  <2> DEFINE new == [lease EXCEPT !.holder = Nobody, !.age = 0, !.host = FALSE]
  <2>1. new \in Leases
    BY <1>1, Values, Zenon DEF Leases
  <2>2. new.holder = Nobody /\ new.run = lease.run /\ Write(h, new, n)
    BY <1>1, <1>2, <2>1 DEF HostReleases, Leases
  <2> HIDE DEF new
  <2>3. Pending(new, h, proc[h])
    BY <1>1 DEF Pending
  <2>4. Sound(new, h, n)
    BY <1>1, <2>1, <2>3, EndedSound
  <2>5. new.holder \notin Runners
    BY <2>2, Kinds
  <2> QED
    BY <1>1, <1>2, <2>1, <2>2, <2>4, <2>5, LeaseStep
<1>3. CASE lease.holder # h
  <2>1. Become(h, n)
    BY <1>3 DEF HostReleases
  <2> QED
    BY <1>1, <2>1, Stops
<1> QED
  BY <1>2, <1>3

\* The second look for test runs, then the command.
LEMMA HostStartInv ==
  ASSUME LabInv, NEW h \in Owners, HostStart(h)
  PROVE  LabInv'
<1>1. /\ h \in Hosts /\ proc[h].pc = "claimed" /\ proc[h].alive
      /\ UNCHANGED <<receipt, session, recovery, intent, faults>>
      /\ child \in [Hosts -> BOOLEAN]
  BY DEF HostStart, LabInv, TypeOK
<1>2. Typed /\ ~child[h]
  BY <1>1 DEF Typed, LabInv, TypeOK, ChildSound
<1>3. CASE intent
  <2>1. /\ HostReleases(h, Over(proc[h])) /\ UNCHANGED child /\ Ended(proc[h], Over(proc[h]))
    BY <1>3, Here, OverEnded DEF HostStart
  <2> QED
    BY <1>1, <1>2, <2>1, HostReleasesInv
<1>4. CASE ~intent
  <2> DEFINE me == [proc[h] EXCEPT !.pc = "running"]
  <2>1. Become(h, me) /\ child' = [child EXCEPT ![h] = TRUE]
    BY <1>4 DEF HostStart
  <2>2. /\ me \in Procs /\ me.pc = "running" /\ me.held = proc[h].held /\ me.age = proc[h].age
        /\ me.write = proc[h].write
    BY Here DEF Procs, Places
  <2> HIDE DEF me
  <2>3. Sound(lease, h, me)
    BY <1>1, <2>2, GuardHolds DEF Sound, SentSound, NewSound, ClaimSound, SwapSound, WriteSound, Pending,
       TrustSound, HostSound
  <2>4. h \notin Runners
    BY <1>1, Kinds
  <2> QED
    BY <1>1, <1>2, <2>1, <2>2, <2>3, <2>4, LocalStep
<1> QED
  BY <1>3, <1>4

\* A renewal is read and written at once; after a failed one the command is stopped.
LEMMA HostRenewInv ==
  ASSUME LabInv, NEW h \in Owners, HostRenew(h)
  PROVE  LabInv'
<1>1. /\ Typed /\ UNCHANGED <<receipt, child>> /\ child' \in [Hosts -> BOOLEAN]
      /\ h \in Hosts /\ proc[h].pc = "running" /\ proc[h].alive
  BY RestTyped DEF HostRenew, Rest
<1>2. /\ h \notin Runners /\ h \notin Harness /\ lease.holder = h /\ lease.dur = Duration
      /\ lease.age <= proc[h].age + Latency /\ proc[h].held /\ proc[h].age < Duration
      /\ proc[h].write = None /\ proc[h] \in Procs /\ lease \in Leases
  BY <1>1, GuardHolds, Here
<1> DEFINE new == [lease EXCEPT !.age = 0]
           me == [proc[h] EXCEPT !.age = 0]
           lost == [proc[h] EXCEPT !.pc = "stopping"]
<1>3. CASE Write(h, new, me)
  <2>1. /\ new \in Leases /\ new.holder = h /\ new.dur = Duration /\ new.age = 0 /\ new.run = lease.run
    <3>1. new \in Leases
      BY <1>2, Values DEF Leases
    <3> QED
      BY <1>2, <3>1 DEF Leases
  <2>2. me \in Procs /\ me.pc = "running" /\ me.held /\ me.age = 0 /\ me.write = None
    <3>1. me \in Procs
      BY <1>2, Values DEF Procs
    <3> QED
      BY <1>1, <1>2, <3>1 DEF Procs
  <2> HIDE DEF new, me
  <2>3. Sound(new, h, me)
    BY <1>2, <2>1, <2>2, Times DEF Sound, SentSound, NewSound, ClaimSound, SwapSound, WriteSound, Pending,
       TrustSound, HostSound
  <2> QED
    BY <1>1, <1>2, <1>3, <2>1, <2>2, <2>3, LeaseStep
<1>4. CASE Become(h, lost)
  <2>1. lost \in Procs /\ lost.pc = "stopping" /\ lost.held /\ lost.age = proc[h].age /\ lost.write = None
    BY <1>2 DEF Procs, Places
  <2> HIDE DEF lost
  <2>2. Sound(lease, h, lost)
    BY <1>2, <2>1 DEF Sound, SentSound, NewSound, ClaimSound, SwapSound, WriteSound, Pending,
       TrustSound, HostSound
  <2> QED
    BY <1>1, <1>2, <1>4, <2>1, <2>2, LocalStep
<1> QED
  BY <1>3, <1>4 DEF HostRenew

\* The command has been stopped; the Lease is left to expire.
LEMMA HostStopInv ==
  ASSUME LabInv, NEW h \in Owners, HostStop(h)
  PROVE  LabInv'
<1>1. /\ h \in Hosts /\ child \in [Hosts -> BOOLEAN] /\ child' = [child EXCEPT ![h] = FALSE]
      /\ UNCHANGED <<receipt, session, recovery, intent, faults>> /\ Become(h, Over(proc[h]))
  BY DEF HostStop, LabInv, TypeOK
<1>2. Typed /\ child' \in [Hosts -> BOOLEAN] /\ ~child'[h] /\ \A o \in Hosts : o # h /\ child'[o] => child[o]
  BY <1>1 DEF Typed, LabInv, TypeOK
<1>3. Ended(proc[h], Over(proc[h]))
  BY Here, OverEnded
<1> QED
  BY <1>1, <1>2, <1>3, Stops

\* The command has ended; the reservation is given up or kept.
LEMMA HostDoneInv ==
  ASSUME LabInv, NEW h \in Owners, HostDone(h)
  PROVE  LabInv'
<1>1. /\ h \in Hosts /\ child \in [Hosts -> BOOLEAN] /\ child' = [child EXCEPT ![h] = FALSE]
      /\ UNCHANGED <<receipt, session, recovery, intent>> /\ (UNCHANGED faults \/ Fault)
      /\ HostReleases(h, Over(proc[h])) \/ Become(h, Over(proc[h]))
  BY DEF HostDone, LabInv, TypeOK
<1>2. Typed
  BY <1>1, LabAssumption DEF Typed, LabInv, TypeOK, Fault
<1>3. child' \in [Hosts -> BOOLEAN] /\ ~child'[h] /\ \A o \in Hosts : o # h /\ child'[o] => child[o]
  BY <1>1
<1>4. Ended(proc[h], Over(proc[h]))
  BY Here, OverEnded
<1>5. CASE HostReleases(h, Over(proc[h]))
  BY <1>1, <1>2, <1>3, <1>4, <1>5, HostReleasesInv
<1>6. CASE Become(h, Over(proc[h]))
  BY <1>1, <1>2, <1>3, <1>4, <1>6, Stops
<1> QED
  BY <1>1, <1>5, <1>6

\* The guard is killed, and its command goes on.
LEMMA HostKilledInv ==
  ASSUME LabInv, NEW h \in Owners, HostKilled(h)
  PROVE  LabInv'
<1> DEFINE n == [Over(proc[h]) EXCEPT !.alive = FALSE]
<1>1. /\ Typed /\ UNCHANGED <<receipt, child>> /\ child' \in [Hosts -> BOOLEAN] /\ Become(h, n)
  BY RestTyped DEF HostKilled, Rest
<1>2. Ended(proc[h], n) /\ ~n.alive
  BY Here, OverEnded
<1> HIDE DEF n
<1> QED
  BY <1>1, <1>2, Stops

\* A command without its guard ends.
LEMMA OrphanEndsInv ==
  ASSUME LabInv, NEW h \in Owners, OrphanEnds(h)
  PROVE  LabInv'
BY DEF OrphanEnds, LabInv, TypeOK, ChildSound, ReceiptSound, ReceiptTrue

-----------------------------------------------------------------------------
(* Time.                                                                    *)

\* The Lease and an owner, a tick later.
AgedLease(l) == [l EXCEPT !.age = IF l.holder = Nobody THEN 0 ELSE Older(l.age)]

AgedProc(m) == [m EXCEPT !.age = IF m.held THEN Older(m.age) ELSE m.age,
                         !.sent = IF m.sent = None THEN None ELSE m.sent + 1,
                         !.write = IF m.write = None THEN None ELSE m.write + 1]

\* Nothing has to happen before the clock goes on.
Patient(p, m) ==
  /\ m.write # Latency /\ m.sent # Latency
  /\ p \in Hosts /\ m.alive /\ m.pc \in {"claimed", "running", "stopping"} => m.age # Duration - 1

\* One owner as the clock goes on: its own clock and its requests age with the
\* Lease, and nothing is under way for longer than Latency.
LEMMA TickSound ==
  ASSUME NEW l \in Leases, NEW p \in Owners, NEW m \in Procs, Sound(l, p, m), Patient(p, m)
  PROVE  /\ AgedProc(m) \in Procs /\ AgedProc(m).pc = m.pc /\ AgedProc(m).alive = m.alive
         /\ Sound(AgedLease(l), p, AgedProc(m))
<1> DEFINE age == IF m.held THEN Older(m.age) ELSE m.age
           sent == IF m.sent = None THEN None ELSE m.sent + 1
           write == IF m.write = None THEN None ELSE m.write + 1
           aged == IF l.holder = Nobody THEN 0 ELSE Older(l.age)
           n == AgedProc(m)
           k == AgedLease(l)
<1>1. /\ m.age \in 0..Old /\ m.sent \in None..Latency /\ m.write \in None..Latency
      /\ l.age \in 0..Old /\ l.dur \in {0, Duration, Window} /\ m.dur \in {Duration, Window}
  BY DEF Procs, Leases
<1>2. age \in 0..Old /\ sent \in None..Latency /\ write \in None..Latency /\ aged \in 0..Old
  BY <1>1, Times DEF Older, Patient
<1>3. n = [m EXCEPT !.age = age, !.sent = sent, !.write = write] /\ k = [l EXCEPT !.age = aged]
  BY DEF AgedProc, AgedLease
<1>4. /\ age = m.age \/ (m.held /\ age = m.age + 1) \/ (m.held /\ age = Old /\ m.age = Old)
      /\ m.held /\ m.age < Old => age = m.age + 1
      /\ m.sent = None => sent = None
      /\ m.sent # None => sent = m.sent + 1 /\ sent # None
      /\ m.write = None => write = None
      /\ m.write # None => write = m.write + 1
      /\ aged <= l.age + 1 /\ (l.holder # Nobody => aged >= l.age \/ aged = Old)
      /\ l.holder # Nobody /\ l.age >= l.dur + Drain => aged >= l.dur + Drain
  BY <1>1, Times DEF Older
<1> HIDE DEF age, sent, write, aged, n, k
<1>5. n \in Procs
  BY <1>2, <1>3, Zenon DEF Procs
<1>6. /\ n.pc = m.pc /\ n.alive = m.alive /\ n.held = m.held /\ n.dur = m.dur /\ n.fresh = m.fresh
      /\ n.age = age /\ n.sent = sent /\ n.write = write
  BY <1>3 DEF Procs
<1>7. k.holder = l.holder /\ k.dur = l.dur /\ k.age = aged
  BY <1>3 DEF Leases
<1>8. SentSound(n)
  BY <1>4, <1>6 DEF Sound, SentSound
<1>9. NewSound(n)
  BY <1>4, <1>6 DEF Sound, NewSound
<1>10. ClaimSound(k, p, n)
  BY <1>4, <1>6, <1>7 DEF Sound, ClaimSound, Vacant
<1>11. SwapSound(k, p, n)
  BY <1>6, <1>7 DEF Sound, SwapSound
<1>12. WriteSound(k, p, n)
  BY <1>1, <1>2, <1>4, <1>6, <1>7, Times DEF Sound, SentSound, WriteSound, Pending
<1>13. TrustSound(k, p, n)
  BY <1>1, <1>2, <1>4, <1>6, <1>7, Times DEF Sound, TrustSound, Holds
<1>14. HostSound(k, p, n)
  BY <1>1, <1>2, <1>4, <1>6, <1>7, Times DEF Sound, HostSound, Patient
<1> QED
  BY <1>5, <1>6, <1>8, <1>9, <1>10, <1>11, <1>12, <1>13, <1>14 DEF Sound, n, k

\* The clock goes on.
LEMMA TickInv ==
  ASSUME LabInv, Tick
  PROVE  LabInv'
<1> DEFINE k == AgedLease(lease)
<1>1. lease \in Leases /\ proc \in [Owners -> Procs] /\ \A p \in Owners : Sound(lease, p, proc[p])
  BY ProcsType DEF LabInv
<1>2. k \in Leases /\ k.holder = lease.holder /\ k.run = lease.run
  <2> DEFINE aged == IF lease.holder = Nobody THEN 0 ELSE Older(lease.age)
  <2>1. aged \in 0..Old
    BY <1>1, Times DEF Older, Leases
  <2>2. k = [lease EXCEPT !.age = aged]
    BY DEF AgedLease
  <2> HIDE DEF aged, k
  <2> QED
    BY <1>1, <2>1, <2>2 DEF Leases
<1>3. lease' = k
  BY DEF Tick, AgedLease
<1>4. ASSUME NEW p \in Owners
      PROVE  /\ proc'[p] \in Procs /\ proc'[p].pc = proc[p].pc /\ proc'[p].alive = proc[p].alive
             /\ Sound(k, p, proc'[p])
  <2>1. Patient(p, proc[p])
    BY DEF Tick, Urgent, Patient
  <2>2. proc'[p] = AgedProc(proc[p])
    BY DEF Tick, AgedProc
  <2>3. proc[p] \in Procs /\ Sound(lease, p, proc[p])
    BY <1>1
  <2> QED
    BY <1>1, <2>1, <2>2, <2>3, TickSound
<1> HIDE DEF k
<1>5. proc' \in [Owners -> Procs]
  BY <1>4 DEF Tick
<1>6. UNCHANGED <<receipt, session, recovery, child, intent>> /\ faults' \in 0..MaxFaults
  <2>1. faults \in 0..MaxFaults /\ MaxFaults \in Nat
    BY LabAssumption DEF LabInv, TypeOK
  <2>2. UNCHANGED faults \/ Fault
    BY DEF Tick
  <2>3. faults' \in 0..MaxFaults
    BY <2>1, <2>2 DEF Fault
  <2>4. UNCHANGED <<receipt, session, recovery, child, intent>>
    BY DEF Tick
  <2> QED
    BY <2>3, <2>4
<1>7. TypeOK'
  BY <1>2, <1>3, <1>5, <1>6 DEF LabInv, TypeOK, Procs, Places
<1>8. \A p \in Owners : Sound(k, p, proc'[p])
  BY <1>4
<1>9. ChildSound'
  BY <1>4, <1>6, Kinds DEF LabInv, ChildSound
<1>10. ReceiptSound' /\ ReceiptTrue'
  BY <1>2, <1>3, <1>4, <1>6, Kinds DEF LabInv, ReceiptSound, ReceiptTrue
<1> QED
  BY <1>3, <1>7, <1>8, <1>9, <1>10 DEF LabInv

-----------------------------------------------------------------------------
(* The theorems.                                                            *)

\* No owner has done anything yet.
LEMMA InitInv == Init => LabInv
<1> SUFFICES ASSUME Init PROVE LabInv
  OBVIOUS
<1>1. NewProc \in Procs
  BY Values, Zenon DEF NewProc, Procs, Places
<1>2. /\ NewProc.pc = "idle" /\ NewProc.held = FALSE /\ NewProc.age = 0 /\ NewProc.dur = Duration
      /\ NewProc.write = None
  BY DEF NewProc
<1>3. FreeLease \in Leases /\ FreeLease.holder = Nobody /\ FreeLease.run = Nobody
  BY Values DEF FreeLease, Leases
<1>4. \A p \in Owners : proc[p] = NewProc
  BY DEF Init
<1>5. TypeOK
  <2>1. proc \in [Owners -> Procs] /\ lease \in Leases
    BY <1>1, <1>3 DEF Init
  <2>2. /\ receipt \in [Runners -> {"none", "requested", "released"}]
        /\ session \in [Runners -> {"none", "running", "finished"}]
        /\ recovery \in Recoverers \cup {Nobody} /\ child \in [Hosts -> BOOLEAN] /\ intent \in BOOLEAN
    BY DEF Init
  <2>3. faults \in 0..MaxFaults
    BY LabAssumption DEF Init
  <2> QED
    BY <2>1, <2>2, <2>3 DEF TypeOK, Procs, Places
<1>6. \A p \in Owners : Sound(lease, p, proc[p])
  <2>1. ASSUME NEW p \in Owners
        PROVE  Sound(lease, p, NewProc)
    BY <1>2 DEF Sound, SentSound, NewSound, ClaimSound, SwapSound, WriteSound, Pending, TrustSound, HostSound
  <2> QED
    BY <1>4, <2>1
<1>7. ChildSound
  BY DEF Init, ChildSound
<1>8. ReceiptSound /\ ReceiptTrue
  BY <1>2, <1>3, <1>4, Kinds DEF Init, ReceiptSound, ReceiptTrue
<1> QED
  BY <1>5, <1>6, <1>7, <1>8 DEF LabInv

\* Every step of the reservation keeps the invariant.
LEMMA NextInv == LabInv /\ [Next]_vars => LabInv'
<1> SUFFICES ASSUME LabInv, [Next]_vars PROVE LabInv'
  OBVIOUS
<1>1. CASE UNCHANGED vars
  BY <1>1 DEF vars, LabInv, TypeOK, ChildSound, ReceiptSound, ReceiptTrue
<1>2. CASE IntentChanges
  BY <1>2 DEF IntentChanges, LabInv, TypeOK, ChildSound, ReceiptSound, ReceiptTrue
<1>3. CASE Tick
  BY <1>3, TickInv
<1>4. ASSUME NEW p \in Owners, Step(p)
      PROVE  LabInv'
  <2>1. CASE Acquire(p) \/ ClaimAnswered(p) \/ ClaimUnsure(p) \/ ClaimConfirmed(p)
    BY <2>1, AcquireInv, ClaimAnsweredInv, ClaimUnsureInv, ClaimConfirmedInv
  <2>2. CASE AcquireRecovery(p) \/ RecoverFree(p)
    BY <2>2, AcquireRecoveryInv, RecoverFreeInv
  <2>3. CASE GuardedWrite(p) \/ WriteLands(p) \/ Heartbeat(p)
    BY <2>3, GuardedWriteInv, WriteLandsInv, HeartbeatInv
  <2>4. CASE Resize(p) \/ Release(p)
    BY <2>4, SendsInv DEF Resize, Release
  <2>5. CASE SwapAnswered(p) \/ ReleaseVerified(p) \/ FinishSession(p)
    BY <2>5, SwapAnsweredInv, ReleaseVerifiedInv, FinishSessionInv
  <2>6. CASE HostAcquire(p) \/ HostClaim(p) \/ HostStart(p) \/ HostRenew(p)
    BY <2>6, HostAcquireInv, HostClaimInv, HostStartInv, HostRenewInv
  <2>7. CASE HostStop(p) \/ HostDone(p) \/ OrphanEnds(p)
    BY <2>7, HostStopInv, HostDoneInv, OrphanEndsInv
  <2> QED
    BY <1>4, <2>1, <2>2, <2>3, <2>4, <2>5, <2>6, <2>7 DEF Step
<1>5. ASSUME NEW p \in Owners, Misfortune(p)
      PROVE  LabInv'
  BY <1>5, ClaimLostInv, SwapLostInv, CrashInv, HostKilledInv DEF Misfortune
<1> QED
  BY <1>1, <1>2, <1>3, <1>4, <1>5 DEF Next

\* The invariant holds throughout.
LEMMA LabInvariance == Spec => []LabInv
BY InitInv, NextInv, PTL DEF Spec

\* The state of the Lease and of its owners stays well formed (lease.ts).
THEOREM LabTypes == Spec => []TypeOK
<1>1. LabInv => TypeOK
  BY DEF LabInv
<1> QED
  BY <1>1, LabInvariance, PTL

\* A runner that holds the Lease has an open receipt on disk, whatever answer
\* was lost and whoever was killed (lease.ts acquire, release; automatic-recovery.ts).
THEOREM HolderHasReceipt == Spec => []ReceiptTrue
<1>1. LabInv => ReceiptTrue
  BY DEF LabInv
<1> QED
  BY <1>1, LabInvariance, PTL

\* Two owners never both trust their clocks, and a live guard's command runs
\* under its own reservation (lease.ts assertHeld, regression_guard.py run).
THEOREM LabHasOneOwner == Spec => []OneOwner
<1>1. ASSUME LabInv PROVE OneOwner
  <2>1. \A p \in Harness : Trusts(p) => lease.holder = p
    BY <1>1, Here, Kinds DEF Trusts, Sound, TrustSound, Holds
  <2>2. \A h \in Hosts : child[h] /\ proc[h].alive => lease.holder = h
    BY <1>1, GuardHolds DEF LabInv, ChildSound
  <2> QED
    BY <2>1, <2>2 DEF OneOwner, OneBeliever, HostHolds
<1> QED
  BY <1>1, LabInvariance, PTL

\* A product request takes effect only while its sender is still the holder:
\* the drain before a takeover outlasts it (lease.ts acquireRecovery).
THEOREM WritesAreOwned == Spec => WriteOwned
<1>1. LabInv => \A p \in Owners : WriteLands(p) => lease.holder = p
  BY Here DEF WriteLands, Sound, WriteSound, Pending
<1>2. LabInv /\ [Next]_vars => [\A p \in Owners : WriteLands(p) => lease.holder = p]_vars
  BY <1>1
<1> QED
  BY <1>2, LabInvariance, PTL DEF Spec, WriteOwned
=============================================================================

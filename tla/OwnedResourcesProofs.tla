------------------------ MODULE OwnedResourcesProofs ------------------------
(***************************************************************************)
(* The cleanup of a regression run is safe, for every scenario and every   *)
(* number of crashes, lost answers, failed writes and meddling             *)
(* administrators.                                                         *)
(***************************************************************************)
EXTENDS OwnedResources, TLAPS

-----------------------------------------------------------------------------
(* Types.                                                                  *)

Entries == [state : {"absent", "requested", "owned", "removed", "blocked"},
            uid : {"none", "run"}, gen : 0 .. MaxGen]

Objects == [uid : {"none", "run", "other"}, gen : 0 .. MaxGen + Meddling]

Wires == [op : {"none", "create", "created", "edit", "edited", "rejected"},
          item : Items \cup {0}, gen : 0 .. MaxGen - 1]

Steps == {"idle", "create", "answer", "absent", "lookup", "remove", "verify",
          "released", "attest", "ended"}

Journals == [Items -> Entries]

Locks == [holder : {"free", "run", "recovery", "other"}, run : {"none", "run", "other"}]

OwnedTypes ==
  /\ plan \in Plans
  /\ obj \in [Items -> Objects]
  /\ tail \subseteq Items /\ admins \subseteq Items
  /\ wire \in Wires /\ (wire.op # "none" => wire.item \in Items)
  /\ mem \in Journals /\ disk \in Journals
  /\ proc \in {"none", "run", "recovery"}
  /\ pc \in Steps
  /\ at \in 0 .. Len(plan) + 1
  /\ lock \in Locks /\ campaign \in BOOLEAN
  /\ meddled \in 0 .. Meddling

-----------------------------------------------------------------------------
(* The inductive invariant.                                                *)

\* Where each process can be.
Stationed ==
  /\ proc = "none" <=> pc \in {"idle", "ended"}
  /\ pc \in {"create", "answer"} => proc = "run"
  /\ pc = "absent" => proc = "recovery"
  /\ pc \in {"create", "answer"} => at # 0
  /\ pc \in {"absent", "lookup", "remove", "verify"} => at # Len(plan) + 1
  /\ pc \in {"remove", "verify"} =>
       at # 0 /\ mem[at].uid = "run" /\ mem[at].state \in {"owned", "blocked"}

\* An administrator cannot raise a generation more often than he meddles.
GenerationsBounded == \A i \in Items : obj[i].gen <= MaxGen + meddled

\* The request in flight may still create this object.
Creatable(i) == wire.op = "create" /\ wire.item = i

\* A journal has an open entry for what exists and for what may still be
\* created, and the latter is not acknowledged in it.
Covers(journal) ==
  \A i \in Items :
    /\ obj[i].uid = "run" => i \in RecoveryPlan(journal)
    /\ Creatable(i) => i \in RecoveryPlan(journal) /\ journal[i].uid = "none"
    /\ i \in tail => journal[i].state # "absent"

\* The journal on disk covers the appliance at all times, the one in memory
\* while a process is at work; a recovery starts when no request is left.
Covered ==
  /\ Covers(disk)
  /\ proc # "none" => Covers(mem)
  /\ proc = "recovery" => Drained

Untouched == /\ \A i \in Items : disk[i] = NoEntry
             /\ proof = NoProof /\ wire.op = "none"

\* Behind the final checks, and once attested, nothing is open or left.
Attested ==
  /\ pc = "idle" => Untouched
  /\ pc \in {"released", "attest"} => RecoveryPlan(disk) = {} /\ tail = {}
  /\ proof # NoProof =>
       /\ RecoveryPlan(disk) = {} /\ tail = {}
       /\ proc # "run" /\ pc \notin {"remove", "verify"}
       /\ proc = "recovery" => RecoveryPlan(mem) = {}

\* While nobody, or another run, holds the Lease behind this run, no process of
\* it is before its release, and nothing is open or left.
Ceded ==
  /\ lock.run = "other" => lock.holder \in {"free", "other"} /\ pc # "idle"
  /\ lock.holder \in {"free", "other"} /\ pc # "idle" =>
       pc \in {"released", "attest", "ended"} /\ RecoveryPlan(disk) = {} /\ tail = {}

OwnedInv ==
  /\ OwnedTypes /\ Stationed /\ GenerationsBounded /\ ForeignKept
  /\ Covered /\ Attested /\ Ceded

-----------------------------------------------------------------------------
(* Lemmas.                                                                 *)

\* A scenario is a finite sequence, numbered from 1.
LEMMA Numbered ==
  ASSUME plan \in Plans
  PROVE  Len(plan) \in Nat /\ Items = 1 .. Len(plan)
  BY OwnedAssumption DEF Items

\* The values that steps write have their types.
LEMMA OwnedValues ==
  /\ NoEntry \in Entries /\ [NoEntry EXCEPT !.state = "requested"] \in Entries
  /\ NoObject \in Objects /\ [uid |-> "run", gen |-> 1] \in Objects
  /\ [uid |-> "other", gen |-> 1] \in Objects
  /\ Quiet \in Wires
  BY OwnedAssumption, SMT DEF NoEntry, Entries, NoObject, Objects, Quiet, Wires

\* The empty journal is a journal.
LEMMA EmptyJournal == [i \in Items |-> NoEntry] \in Journals
  BY OwnedValues DEF Journals

\* A journal stays one when an entry is blocked or closed.
LEMMA StateTyped ==
  ASSUME NEW j \in Journals, NEW i \in Items, NEW s \in {"blocked", "removed"}
  PROVE  [j EXCEPT ![i].state = s] \in Journals
  BY SMT DEF Journals, Entries

\* An entry that is written anew leaves the other entries.
LEMMA EntryChanged ==
  ASSUME NEW j \in Journals, NEW i \in Items, NEW e \in Entries
  PROVE  LET k == [j EXCEPT ![i] = e]
         IN  k \in Journals /\ k[i] = e /\ \A n \in Items \ {i} : k[n] = j[n]
  BY SMT DEF Journals

\* A journal that covers the appliance still covers it when an entry is
\* blocked, or closed once its object is gone and cannot be created any more.
LEMMA StateCovers ==
  ASSUME NEW j \in Journals, Covers(j), NEW i \in Items, NEW s \in {"blocked", "removed"},
         s = "removed" => obj[i].uid # "run" /\ ~Creatable(i)
  PROVE  Covers([j EXCEPT ![i].state = s])
<1> DEFINE k == [j EXCEPT ![i].state = s]
<1>1. k[i].state = s /\ k[i].uid = j[i].uid /\ \A n \in Items \ {i} : k[n] = j[n]
  BY SMT DEF Journals, Entries
<1> HIDE DEF k
<1>2. Covers(k)
  BY <1>1 DEF Covers, RecoveryPlan
<1> QED
  BY <1>2 DEF k

\* Nothing is created: there are no more objects of the run, remains and
\* requests to create than before.
NoneCreated ==
  /\ plan' = plan /\ tail' \subseteq tail
  /\ \A i \in Items : /\ obj'[i].uid = "run" => obj[i].uid = "run"
                      /\ Creatable(i)' => Creatable(i)

\* Then the journals go on covering the appliance if the new ones would have
\* covered it before.
LEMMA CoveredStep ==
  ASSUME NoneCreated, Covers(disk'), proc' # "none" => Covers(mem'),
         proc' = "recovery" => Drained'
  PROVE  Covered'
<1>1. Items' = Items
  BY DEF NoneCreated, Items
<1>2. Covers(disk)'
  BY <1>1 DEF NoneCreated, Covers, RecoveryPlan
<1>3. ASSUME proc' # "none" PROVE Covers(mem)'
  <2>1. Covers(mem')
    BY <1>3
  <2> QED
    BY <1>1, <2>1 DEF NoneCreated, Covers, RecoveryPlan
<1> QED
  BY <1>2, <1>3 DEF Covered

\* A step that touches neither the appliance nor a journal.
LEMMA CoveredUntouched ==
  ASSUME Covered, UNCHANGED <<plan, obj, tail, wire, disk>>,
         proc' # "none" => proc' = proc /\ mem' = mem
  PROVE  Covered'
<1>1. NoneCreated
  BY DEF NoneCreated, Creatable
<1> QED
  BY <1>1, CoveredStep DEF Covered, Drained

\* Before the release a step that leaves the Lease alone cedes nothing.
LEMMA CededBefore ==
  ASSUME OwnedInv, lock' = lock, pc \notin {"idle", "released", "attest", "ended"},
         pc' # "idle"
  PROVE  Ceded'
  BY DEF OwnedInv, Ceded

\* Behind the release too, when the journal on disk stays and nothing appears.
LEMMA CededBehind ==
  ASSUME OwnedInv, UNCHANGED <<plan, lock, disk>>, tail' \subseteq tail,
         pc' = pc \/ (pc # "idle" /\ pc' \in {"released", "attest", "ended"})
  PROVE  Ceded'
<1>1. RecoveryPlan(disk)' = RecoveryPlan(disk)
  BY DEF RecoveryPlan, Items
<1>2. tail = {} => tail' = {}
  OBVIOUS
<1> QED
  BY <1>1, <1>2 DEF OwnedInv, Ceded

\* The initial state satisfies the invariant.
LEMMA OwnedInitInv == OwnedInit => OwnedInv
<1> SUFFICES ASSUME OwnedInit PROVE OwnedInv
  OBVIOUS
<1> USE DEF OwnedInit
<1>1. Len(plan) \in Nat /\ Items = 1 .. Len(plan)
  BY Numbered
<1>2. OwnedTypes
  <2>1. mem \in Journals /\ disk \in Journals
    BY EmptyJournal
  <2>2. obj \in [Items -> Objects]
    BY OwnedValues
  <2>3. wire \in Wires /\ wire.op = "none"
    BY OwnedValues DEF Quiet
  <2>4. lock \in Locks
    BY DEF Vacant, HeldBy, Locks
  <2> QED
    BY <1>1, <2>1, <2>2, <2>3, <2>4, OwnedAssumption DEF OwnedTypes, Steps
<1>3. Covers(disk)
  BY <1>2, SMT DEF Covers, Creatable, Quiet, NoObject
<1>4. Attested
  BY DEF Attested, Untouched, Quiet
<1>5. GenerationsBounded
  BY OwnedAssumption, SMT DEF GenerationsBounded, NoObject
<1>6. Ceded
  BY DEF Ceded, Vacant, HeldBy
<1> QED
  BY <1>6, <1>2, <1>3, <1>4, <1>5 DEF OwnedInv, Stationed, ForeignKept, Covered

-----------------------------------------------------------------------------
(* The run.                                                                *)

\* Open keeps the invariant: nothing of the scenario stands there yet.
LEMMA OpenInv == ASSUME OwnedInv, Open PROVE OwnedInv'
<1> USE DEF Open, appliance
<1>0. Len(plan) \in Nat /\ Items = 1 .. Len(plan)
  BY Numbered DEF OwnedInv, OwnedTypes
<1>1. OwnedTypes'
  BY <1>0, SMT DEF OwnedInv, OwnedTypes, Journals, Steps, Wires, Items, Locks, HeldBy
<1>2. Stationed'
  BY <1>0, SMT DEF Stationed
<1>3. \A i \in Items : obj[i].uid # "run" /\ i \notin tail /\ ~Creatable(i)
  BY DEF OwnedInv, Attested, Untouched, Covered, Covers, RecoveryPlan, NoEntry, Creatable
<1>4. Covered'
  BY <1>3 DEF OwnedInv, Covered, Covers, Creatable, RecoveryPlan, Items
<1>5. Attested'
  BY DEF OwnedInv, Attested, Untouched
<1>6. Ceded'
  BY DEF Ceded, HeldBy
<1> QED
  BY <1>6, <1>1, <1>2, <1>4, <1>5 DEF OwnedInv, GenerationsBounded, ForeignKept, Items

\* What a request to create does: the intent is journalled, and the request
\* leaves if that succeeded; or the teardown begins.
Intended ==
  /\ mem' = [mem EXCEPT ![at] = [NoEntry EXCEPT !.state = "requested"]]
  /\ Persist(mem')
  /\ \/ /\ disk' = mem' /\ wire' = [op |-> "create", item |-> at, gen |-> 0]
        /\ pc' = "answer" /\ at' = at
     \/ Teardown /\ UNCHANGED wire

\* A request to create keeps the invariant.
LEMMA IntendedInv ==
  ASSUME OwnedInv, pc = "create", at <= Len(plan), Intended \/ GiveUp, CreateUnchanged
  PROVE  OwnedInv'
<1> USE DEF CreateUnchanged
<1>0. Len(plan) \in Nat /\ Items = 1 .. Len(plan) /\ at \in Items /\ proc = "run"
  BY Numbered DEF OwnedInv, OwnedTypes, Stationed
<1> DEFINE entry == [NoEntry EXCEPT !.state = "requested"]
           j == [mem EXCEPT ![at] = entry]
<1>1. entry \in Entries /\ entry.state = "requested" /\ entry.uid = "none"
  BY OwnedValues, SMT DEF NoEntry
<1>2. j \in Journals /\ j[at] = entry /\ \A n \in Items \ {at} : j[n] = mem[n]
  BY <1>0, <1>1, EntryChanged DEF OwnedInv, OwnedTypes
<1>3. /\ mem' \in {mem, j} /\ disk' \in {disk, mem'}
      /\ mem' = j \/ UNCHANGED <<mem, disk, wire>>
      /\ \/ UNCHANGED wire /\ pc' = "lookup" /\ at' = Len(plan)
         \/ /\ wire' = [op |-> "create", item |-> at, gen |-> 0] /\ mem' = j /\ disk' = mem'
            /\ pc' = "answer" /\ at' = at
  BY DEF Intended, GiveUp, Persist, Teardown
<1> HIDE DEF entry, j
<1>4. OwnedTypes'
  <2>1. wire' \in Wires /\ (wire'.op # "none" => wire'.item \in Items)
    BY <1>0, <1>3, OwnedAssumption, SMT DEF OwnedInv, OwnedTypes, Wires, Items
  <2>2. mem' \in Journals /\ disk' \in Journals
    BY <1>2, <1>3 DEF OwnedInv, OwnedTypes
  <2> QED
    BY <1>0, <1>3, <2>1, <2>2, SMT DEF OwnedInv, OwnedTypes, Steps, Journals, Wires, Items
<1>5. Stationed'
  BY <1>0, <1>3, SMT DEF OwnedInv, Stationed
<1>6. Covers(j) /\ Covers(mem) /\ Covers(disk)
  BY <1>0, <1>1, <1>2 DEF OwnedInv, Covered, Covers, RecoveryPlan
<1>7. Covered'
  <2>1. CASE UNCHANGED wire
    <3>1. NoneCreated
      BY <2>1 DEF NoneCreated, Creatable
    <3> QED
      BY <1>0, <1>3, <1>6, <3>1, CoveredStep
  <2>2. CASE /\ wire' = [op |-> "create", item |-> at, gen |-> 0] /\ mem' = j /\ disk' = mem'
    <3>1. \A i \in Items : Creatable(i)' <=> i = at
      BY <2>2 DEF Creatable
    <3>2. Covers(mem)' /\ Covers(disk)'
      BY <1>1, <1>2, <1>6, <2>2, <3>1 DEF Covers, RecoveryPlan, Items
    <3> QED
      BY <1>0, <3>2 DEF Covered
  <2> QED
    BY <1>3, <2>1, <2>2
<1>8. Attested'
  BY <1>0, <1>3 DEF OwnedInv, Attested, Untouched
<1>9. Ceded'
  BY <1>3, CededBefore
<1> QED
  BY <1>9, <1>4, <1>5, <1>7, <1>8 DEF OwnedInv, GenerationsBounded, ForeignKept, Items

\* CreateKey keeps the invariant.
LEMMA CreateKeyInv == ASSUME OwnedInv, CreateKey PROVE OwnedInv'
  BY IntendedInv DEF CreateKey, Creating, Requested, Intended

\* CreateModel keeps the invariant.
LEMMA CreateModelInv == ASSUME OwnedInv, CreateModel PROVE OwnedInv'
  BY IntendedInv DEF CreateModel, Creating, Requested, Intended

\* SubmitCreate keeps the invariant.
LEMMA SubmitCreateInv == ASSUME OwnedInv, SubmitCreate PROVE OwnedInv'
  BY IntendedInv DEF SubmitCreate, Creating, Requested, Intended

\* CreateIdentity keeps the invariant.
LEMMA CreateIdentityInv == ASSUME OwnedInv, CreateIdentity PROVE OwnedInv'
  BY IntendedInv DEF CreateIdentity, Creating, Requested, Intended

\* An edit keeps the invariant.
LEMMA EditInv == ASSUME OwnedInv, NEW i \in Items, Edit(i) PROVE OwnedInv'
<1> USE DEF Edit, evidence
<1>0. Len(plan) \in Nat /\ Items = 1 .. Len(plan)
  BY Numbered DEF OwnedInv, OwnedTypes
<1>1. OwnedTypes'
  <2>1. mem[i].gen \in 0 .. MaxGen - 1
    BY OwnedAssumption, SMT DEF OwnedInv, OwnedTypes, Journals, Entries
  <2>2. wire' \in Wires /\ wire'.item \in Items
    BY <2>1, SMT DEF Wires
  <2> QED
    BY <2>2 DEF OwnedInv, OwnedTypes, Journals, Steps, Wires, Items
<1>2. Stationed'
  BY DEF OwnedInv, Stationed
<1>3. NoneCreated
  BY SMT DEF NoneCreated, Creatable
<1>4. Covered'
  BY <1>3, CoveredStep DEF OwnedInv, Stationed, Covered
<1>5. Attested'
  BY DEF OwnedInv, Stationed, Attested, Untouched
<1>6. Ceded'
  BY CededBefore
<1> QED
  BY <1>6, <1>1, <1>2, <1>4, <1>5 DEF OwnedInv, GenerationsBounded, ForeignKept, Items

\* The end of the scenario keeps the invariant.
LEMMA ScenarioEndsInv == ASSUME OwnedInv, ScenarioEnds PROVE OwnedInv'
<1> USE DEF ScenarioEnds, Teardown, appliance, evidence
<1>0. Len(plan) \in Nat
  BY Numbered DEF OwnedInv, OwnedTypes
<1>1. OwnedTypes'
  BY <1>0, SMT DEF OwnedInv, OwnedTypes, Journals, Steps, Wires, Items
<1>2. Stationed'
  BY <1>0, SMT DEF OwnedInv, Stationed
<1>4. Covered'
  BY CoveredUntouched DEF OwnedInv
<1>5. Attested'
  BY DEF OwnedInv, Stationed, Attested, Untouched
<1>6. Ceded'
  BY CededBefore
<1> QED
  BY <1>6, <1>1, <1>2, <1>4, <1>5 DEF OwnedInv, GenerationsBounded, ForeignKept, Items

\* An acknowledged answer keeps the invariant: its entry is open, with a uid.
LEMMA AcknowledgedInv == ASSUME OwnedInv, Acknowledged PROVE OwnedInv'
<1> DEFINE i == wire.item
           j == [mem EXCEPT ![i] = OwnedEntry(i)]
<1>0. Len(plan) \in Nat /\ Items = 1 .. Len(plan) /\ i \in Items /\ proc = "run"
  BY Numbered DEF OwnedInv, OwnedTypes, Stationed, Acknowledged
<1>1. OwnedEntry(i) \in Entries /\ OwnedEntry(i).state = "owned"
  BY <1>0, OwnedAssumption, SMT DEF OwnedEntry, Entries, OwnedInv, OwnedTypes, Wires
<1>2. j \in Journals /\ j[i] = OwnedEntry(i) /\ \A n \in Items \ {i} : j[n] = mem[n]
  BY <1>0, <1>1, EntryChanged DEF OwnedInv, OwnedTypes
<1>3. /\ mem' = j /\ disk' \in {disk, mem'} /\ wire' = Quiet
      /\ \/ pc' = "create" /\ at' = IF i = at THEN at + 1 ELSE at
         \/ pc' = "lookup" /\ at' = Len(plan)
      /\ UNCHANGED <<plan, obj, tail, admins, proc, lock, campaign, proof, meddled>>
  BY DEF Acknowledged, Persist, Teardown
<1>4. wire.op \in {"created", "edited"} /\ pc = "answer"
  BY DEF Acknowledged
<1> HIDE DEF j, i
<1>5. OwnedTypes'
  <2>1. wire' \in Wires /\ wire'.op = "none"
    BY <1>3, OwnedValues DEF Quiet, Wires, Items
  <2>2. mem' \in Journals /\ disk' \in Journals
    BY <1>2, <1>3 DEF OwnedInv, OwnedTypes
  <2>3. at' \in 0 .. Len(plan) + 1
    BY <1>0, <1>3, SMT DEF OwnedInv, OwnedTypes
  <2> QED
    BY <1>3, <2>1, <2>2, <2>3 DEF OwnedInv, OwnedTypes, Steps, Journals, Wires, Items
<1>6. Stationed'
  BY <1>0, <1>3, <1>4, SMT DEF OwnedInv, OwnedTypes, Stationed
<1>7. NoneCreated
  BY <1>3 DEF NoneCreated, Creatable, Quiet
<1>8. Covers(j) /\ Covers(disk)
  BY <1>0, <1>1, <1>2, <1>4 DEF OwnedInv, Covered, Covers, RecoveryPlan, Creatable
<1>9. Covered'
  BY <1>0, <1>3, <1>7, <1>8, CoveredStep
<1>10. Attested'
  BY <1>0, <1>3 DEF OwnedInv, Attested
<1>11. Ceded'
  BY <1>3, <1>4, CededBefore
<1> QED
  BY <1>11, <1>3, <1>5, <1>6, <1>9, <1>10 DEF OwnedInv, GenerationsBounded, ForeignKept, Items

\* A rejected answer keeps the invariant: its entry is closed only when no
\* object stands under the name and no request can create one.
LEMMA RejectedInv == ASSUME OwnedInv, Rejected PROVE OwnedInv'
<1> DEFINE i == wire.item
           j == [mem EXCEPT ![i].state = "removed"]
<1>0. Len(plan) \in Nat /\ Items = 1 .. Len(plan) /\ i \in Items /\ proc = "run"
  BY Numbered DEF OwnedInv, OwnedTypes, Stationed, Rejected
<1>1. /\ \/ mem' = mem /\ disk' = disk
         \/ mem' = j /\ Gone(i) /\ disk' \in {disk, mem'}
      /\ wire' = Quiet /\ pc' = "lookup" /\ at' = Len(plan) /\ wire.op = "rejected"
      /\ UNCHANGED <<plan, obj, tail, admins, proc, lock, campaign, proof, meddled>>
  BY DEF Rejected, Persist, Teardown
<1>2. mem \in Journals /\ disk \in Journals /\ Covers(mem) /\ Covers(disk)
  BY <1>0 DEF OwnedInv, OwnedTypes, Covered
<1>3. j \in Journals
  BY <1>0, <1>2, StateTyped
<1>4. Gone(i) => Covers(j)
  <2>1. Gone(i) => obj[i].uid # "run" /\ ~Creatable(i)
    BY <1>1 DEF Gone, Creatable
  <2> QED
    BY <1>0, <1>2, <2>1, StateCovers
<1> HIDE DEF i, j
<1>5. mem' \in Journals /\ disk' \in Journals /\ Covers(mem') /\ Covers(disk')
  BY <1>1, <1>2, <1>3, <1>4
<1>6. OwnedTypes'
  <2>1. wire' \in Wires /\ wire'.op = "none"
    BY <1>1, OwnedValues DEF Quiet, Wires, Items
  <2>2. at' \in 0 .. Len(plan) + 1
    BY <1>0, <1>1, SMT
  <2> QED
    BY <1>1, <1>5, <2>1, <2>2 DEF OwnedInv, OwnedTypes, Steps, Journals, Wires, Items
<1>7. Stationed'
  BY <1>0, <1>1, SMT DEF OwnedInv, Stationed
<1>8. NoneCreated
  BY <1>1 DEF NoneCreated, Creatable, Quiet
<1>9. Covered'
  BY <1>0, <1>1, <1>5, <1>8, CoveredStep
<1>10. Attested'
  BY <1>0, <1>1 DEF OwnedInv, Attested
<1>11. Ceded'
  BY <1>1, CededBefore DEF Rejected
<1> QED
  BY <1>11, <1>1, <1>6, <1>7, <1>9, <1>10 DEF OwnedInv, GenerationsBounded, ForeignKept, Items

\* A request that is given up keeps the invariant: it may still be served.
LEMMA TimeoutInv == ASSUME OwnedInv, Timeout PROVE OwnedInv'
<1> USE DEF Timeout, Teardown, evidence, Fault
<1>0. Len(plan) \in Nat /\ Items = 1 .. Len(plan) /\ proc = "run"
  BY Numbered DEF OwnedInv, OwnedTypes, Stationed
<1>1. wire' = wire \/ wire' = Quiet
  OBVIOUS
<1>2. OwnedTypes'
  <2>1. wire' \in Wires /\ (wire'.op # "none" => wire'.item \in Items)
    BY <1>1, OwnedValues DEF OwnedInv, OwnedTypes, Quiet
  <2>2. at' \in 0 .. Len(plan) + 1
    BY <1>0, SMT
  <2> QED
    BY <2>1, <2>2 DEF OwnedInv, OwnedTypes, Steps, Journals, Wires, Items
<1>3. Stationed'
  BY <1>0, SMT DEF OwnedInv, Stationed
<1>4. NoneCreated
  BY <1>1 DEF NoneCreated, Creatable, Quiet
<1>5. Covered'
  BY <1>0, <1>4, CoveredStep DEF OwnedInv, Covered
<1>6. Attested'
  BY <1>0 DEF OwnedInv, Attested
<1>7. Ceded'
  BY CededBefore
<1> QED
  BY <1>7, <1>2, <1>3, <1>5, <1>6 DEF OwnedInv, GenerationsBounded, ForeignKept, Items

\* Serving a request keeps the invariant: what it creates was recorded.
LEMMA ServeInv == ASSUME OwnedInv, Serve PROVE OwnedInv'
<1> USE DEF evidence, process
<1>0. Len(plan) \in Nat /\ Items = 1 .. Len(plan)
  BY Numbered DEF OwnedInv, OwnedTypes
<1> DEFINE i == wire.item
<1>1. /\ wire.op \in {"create", "edit"} /\ i \in Items
      /\ UNCHANGED <<plan, admins, mem, evidence, process, lock, campaign, meddled>>
  BY DEF Serve, OwnedInv, OwnedTypes
<1>2. wire'.op \in {"created", "edited", "rejected"} /\ wire' \in Wires /\ wire'.item = i
  BY <1>1, SMT DEF Serve, OwnedInv, OwnedTypes, Wires
<1>3. \/ UNCHANGED <<obj, tail>>
      \/ /\ wire.op = "create" /\ Gone(i)
         /\ obj' = [obj EXCEPT ![i] = [uid |-> "run", gen |-> 1]]
         /\ tail' \in {tail, tail \union {i}}
      \/ /\ wire.op = "edit" /\ obj[i] = [uid |-> "run", gen |-> wire.gen]
         /\ obj' = [obj EXCEPT ![i].gen = @ + 1] /\ tail' = tail
  BY DEF Serve
<1> HIDE DEF i
<1>4. /\ obj' \in [Items -> Objects] /\ tail' \subseteq Items
      /\ \A n \in Items : obj'[n].gen <= MaxGen + meddled
      /\ \A n \in Items : obj[n].uid = "other" => obj'[n].uid = "other"
      /\ \A n \in Items : obj'[n].uid = "run" => obj[n].uid = "run" \/ Creatable(n)
      /\ \A n \in tail' : n \in tail \/ Creatable(n)
  <2>1. CASE UNCHANGED <<obj, tail>>
    BY <2>1 DEF OwnedInv, OwnedTypes, GenerationsBounded
  <2>2. CASE /\ wire.op = "create" /\ Gone(i)
             /\ obj' = [obj EXCEPT ![i] = [uid |-> "run", gen |-> 1]]
             /\ tail' \in {tail, tail \union {i}}
    <3>1. Creatable(i)
      BY <2>2 DEF Creatable, i
    <3>2. obj' \in [Items -> Objects]
      BY <1>1, <2>2, OwnedValues, SMT DEF OwnedInv, OwnedTypes
    <3>3. obj'[i] = [uid |-> "run", gen |-> 1] /\ \A n \in Items \ {i} : obj'[n] = obj[n]
      BY <1>1, <2>2, SMT DEF OwnedInv, OwnedTypes
    <3>4. \A n \in Items : obj'[n].gen <= MaxGen + meddled
      BY <3>3, OwnedAssumption, SMT DEF OwnedInv, OwnedTypes, GenerationsBounded
    <3>5. \A n \in Items : obj[n].uid = "other" => obj'[n].uid = "other"
      BY <2>2, <3>3 DEF Gone
    <3>6. \A n \in Items : obj'[n].uid = "run" => obj[n].uid = "run" \/ Creatable(n)
      BY <3>1, <3>3
    <3>7. tail' \subseteq Items /\ \A n \in tail' : n \in tail \/ Creatable(n)
      BY <1>1, <2>2, <3>1 DEF OwnedInv, OwnedTypes
    <3> QED
      BY <3>2, <3>4, <3>5, <3>6, <3>7
  <2>3. CASE /\ wire.op = "edit" /\ obj[i] = [uid |-> "run", gen |-> wire.gen]
             /\ obj' = [obj EXCEPT ![i].gen = @ + 1] /\ tail' = tail
    <3>1. wire.gen \in 0 .. MaxGen - 1
      BY DEF OwnedInv, OwnedTypes, Wires
    <3>2. obj'[i] = [uid |-> "run", gen |-> wire.gen + 1] /\ \A n \in Items \ {i} : obj'[n] = obj[n]
      BY <1>1, <2>3, SMT DEF OwnedInv, OwnedTypes
    <3>3. [uid |-> "run", gen |-> wire.gen + 1] \in Objects
      BY <3>1, OwnedAssumption, SMT DEF Objects
    <3>4. obj' \in [Items -> Objects]
      BY <1>1, <2>3, <3>2, <3>3, SMT DEF OwnedInv, OwnedTypes
    <3>5. \A n \in Items : obj'[n].gen <= MaxGen + meddled
      BY <3>1, <3>2, OwnedAssumption, SMT DEF OwnedInv, OwnedTypes, GenerationsBounded
    <3>6. \A n \in Items : (obj'[n].uid = "run" => obj[n].uid = "run")
                           /\ (obj[n].uid = "other" => obj'[n].uid = "other")
      BY <2>3, <3>2, SMT
    <3> QED
      BY <2>3, <3>4, <3>5, <3>6 DEF OwnedInv, OwnedTypes
  <2> QED
    BY <1>3, <2>1, <2>2, <2>3
<1>5. OwnedTypes'
  BY <1>1, <1>2, <1>4 DEF OwnedInv, OwnedTypes, Steps, Journals, Wires, Items
<1>6. Stationed'
  BY <1>1 DEF OwnedInv, Stationed
<1>7. GenerationsBounded' /\ ForeignKept'
  BY <1>1, <1>4 DEF OwnedInv, OwnedTypes, GenerationsBounded, ForeignKept, Items
<1>8. Covered'
  <2>1. \A n \in Items : ~Creatable(n)'
    BY <1>2 DEF Creatable
  <2> QED
    BY <1>1, <1>2, <1>4, <2>1 DEF OwnedInv, Covered, Covers, RecoveryPlan, Drained, Items
<1>9. RecoveryPlan(disk) = {} /\ tail = {} => tail' = {}
  BY <1>4 DEF OwnedInv, OwnedTypes, Covered, Covers
<1>10. Attested'
  BY <1>1, <1>9 DEF OwnedInv, Attested, Untouched, RecoveryPlan, Items
<1>11. Ceded'
  BY <1>1, <1>9 DEF OwnedInv, Ceded, RecoveryPlan, Items
<1> QED
  BY <1>5, <1>6, <1>7, <1>8, <1>10, <1>11 DEF OwnedInv

-----------------------------------------------------------------------------
(* The cleanup.                                                            *)

\* Where a cleanup is at an entry.
AtEntry ==
  /\ pc \in {"lookup", "remove", "verify"} /\ at > 0
  /\ CleanUnchanged /\ tail' = tail

\* The object of the entry, and no other, may go away.
MayRemove == obj' = obj \/ (Deletable(at, mem[at]) /\ obj' = [obj EXCEPT ![at] = NoObject])

\* A cleanup stands at an entry of the journal, with no attestation yet.
LEMMA AtEntryFacts ==
  ASSUME OwnedInv, AtEntry
  PROVE  /\ Len(plan) \in Nat /\ Items = 1 .. Len(plan) /\ at \in Items /\ at - 1 \in 0 .. Len(plan)
         /\ proc # "none" /\ Covers(mem) /\ Covers(disk)
         /\ UNCHANGED <<plan, wire, admins, proc, lock, campaign, proof, meddled>>
         /\ at \in RecoveryPlan(mem) => proof = NoProof
<1>1. Len(plan) \in Nat /\ Items = 1 .. Len(plan) /\ at \in 0 .. Len(plan) + 1
  BY Numbered DEF OwnedInv, OwnedTypes
<1>2. at # Len(plan) + 1 /\ proc # "none"
  BY DEF AtEntry, OwnedInv, Stationed
<1>3. at \in Items /\ at - 1 \in 0 .. Len(plan)
  BY <1>1, <1>2, SMT DEF AtEntry
<1>4. at \in RecoveryPlan(mem) => proof = NoProof
  BY <1>2 DEF OwnedInv, OwnedTypes, Attested
<1> QED
  BY <1>1, <1>2, <1>3, <1>4 DEF AtEntry, CleanUnchanged, OwnedInv, Covered

\* Removing the object of an entry touches no object of an administrator.
LEMMA RemovalHarmless ==
  ASSUME OwnedInv, AtEntry, MayRemove
  PROVE  /\ obj' \in [Items -> Objects] /\ GenerationsBounded' /\ ForeignKept' /\ NoneCreated
<1>1. at \in Items /\ plan' = plan /\ admins' = admins /\ meddled' = meddled /\ wire' = wire
  BY AtEntryFacts
<1>2. CASE obj' = obj
  BY <1>1, <1>2 DEF OwnedInv, OwnedTypes, GenerationsBounded, ForeignKept, NoneCreated,
     Creatable, AtEntry, Items
<1>3. CASE Deletable(at, mem[at]) /\ obj' = [obj EXCEPT ![at] = NoObject]
  <2>1. obj[at].uid # "other"
    BY <1>1, <1>3, SMT DEF Deletable, Recognised, OwnedInv, OwnedTypes, Journals, Entries
  <2>2. obj' \in [Items -> Objects]
    BY <1>1, <1>3, OwnedValues, SMT DEF OwnedInv, OwnedTypes
  <2>3. /\ obj'[at].uid = "none" /\ obj'[at].gen = 0
        /\ \A n \in Items \ {at} : obj'[n] = obj[n]
    BY <1>1, <1>3, SMT DEF OwnedInv, OwnedTypes, NoObject
  <2>4. GenerationsBounded'
    BY <1>1, <2>3, OwnedAssumption, SMT DEF OwnedInv, OwnedTypes, GenerationsBounded, Items
  <2>5. ForeignKept'
    BY <1>1, <2>1, <2>3 DEF OwnedInv, OwnedTypes, ForeignKept
  <2>6. NoneCreated
    BY <1>1, <2>3 DEF NoneCreated, Creatable, AtEntry
  <2> QED
    BY <2>2, <2>4, <2>5, <2>6
<1> QED
  BY <1>2, <1>3 DEF MayRemove

\* A step of the cleanup that leaves the journals alone.
LEMMA EntryKept ==
  ASSUME OwnedInv, AtEntry, MayRemove, UNCHANGED <<mem, disk>>,
         \/ pc' = "lookup" /\ at' = at - 1 /\ at \notin RecoveryPlan(mem)
         \/ pc' \in {"remove", "verify"} /\ at' = at /\ mem[at].uid = "run"
            /\ mem[at].state \in {"owned", "blocked"}
  PROVE  OwnedInv'
<1>1. /\ Len(plan) \in Nat /\ Items = 1 .. Len(plan) /\ at \in Items /\ at - 1 \in 0 .. Len(plan)
      /\ proc # "none" /\ Covers(mem) /\ Covers(disk)
      /\ UNCHANGED <<plan, wire, admins, proc, lock, campaign, proof, meddled>>
      /\ at \in RecoveryPlan(mem) => proof = NoProof
  BY AtEntryFacts
<1>2. obj' \in [Items -> Objects] /\ GenerationsBounded' /\ ForeignKept' /\ NoneCreated
  BY RemovalHarmless
<1>3. OwnedTypes'
  BY <1>1, <1>2, SMT DEF OwnedInv, OwnedTypes, AtEntry, Steps, Journals, Wires, Items
<1>4. Stationed'
  BY <1>1, SMT DEF OwnedInv, Stationed
<1>5. Covered'
  BY <1>1, <1>2, CoveredStep DEF OwnedInv, Covered, Drained
<1>6. Attested'
  BY <1>1 DEF OwnedInv, Attested, Untouched, AtEntry, RecoveryPlan, Items
<1>7. Ceded'
  BY <1>1, CededBefore DEF AtEntry
<1> QED
  BY <1>7, <1>2, <1>3, <1>4, <1>5, <1>6 DEF OwnedInv

\* A step of the cleanup that closes or blocks an open entry and goes on.
LEMMA EntryClosed ==
  ASSUME OwnedInv, AtEntry, MayRemove, NextEntry, NEW s \in {"blocked", "removed"},
         mem' = [mem EXCEPT ![at].state = s], disk' \in {disk, mem'},
         at \in RecoveryPlan(mem),
         s = "removed" => Gone(at) /\ pc = "verify"
  PROVE  OwnedInv'
<1>1. /\ Len(plan) \in Nat /\ Items = 1 .. Len(plan) /\ at \in Items /\ at - 1 \in 0 .. Len(plan)
      /\ proc # "none" /\ Covers(mem) /\ Covers(disk)
      /\ UNCHANGED <<plan, wire, admins, proc, lock, campaign, proof, meddled>>
      /\ at \in RecoveryPlan(mem) => proof = NoProof
  BY AtEntryFacts
<1>2. obj' \in [Items -> Objects] /\ GenerationsBounded' /\ ForeignKept' /\ NoneCreated
  BY RemovalHarmless
<1>3. mem \in Journals /\ disk \in Journals
  BY DEF OwnedInv, OwnedTypes
<1>5. mem' \in Journals /\ disk' \in Journals
  <2>1. [mem EXCEPT ![at].state = s] \in Journals
    BY <1>1, <1>3, StateTyped
  <2> QED
    BY <1>3, <2>1
<1>6. s = "removed" => obj[at].uid # "run" /\ ~Creatable(at)
  BY <1>1 DEF Gone, OwnedInv, Stationed, Covers
<1>7. Covers([mem EXCEPT ![at].state = s])
  BY <1>1, <1>3, <1>6, StateCovers
<1>8. Covers(mem') /\ Covers(disk')
  BY <1>1, <1>7
<1>9. OwnedTypes'
  BY <1>1, <1>2, <1>5, SMT DEF OwnedInv, OwnedTypes, AtEntry, NextEntry, Steps, Journals,
     Wires, Items
<1>10. Stationed'
  BY <1>1, SMT DEF NextEntry, OwnedInv, Stationed
<1>11. Covered'
  BY <1>1, <1>2, <1>8, CoveredStep DEF OwnedInv, Covered, Drained
<1>12. Attested'
  BY <1>1 DEF NextEntry, Attested
<1>13. Ceded'
  BY <1>1, CededBefore DEF AtEntry, NextEntry
<1> QED
  BY <1>13, <1>2, <1>9, <1>10, <1>11, <1>12 DEF OwnedInv

\* Lookup keeps the invariant.
LEMMA LookupInv == ASSUME OwnedInv, Lookup PROVE OwnedInv'
<1>1. AtEntry /\ MayRemove
  BY DEF Lookup, AtEntry, MayRemove
<1>2. at \in Items /\ mem \in Journals
  BY <1>1, AtEntryFacts DEF OwnedInv, OwnedTypes
<1>3. CASE mem[at].state \in {"absent", "removed"}
  <2>1. at \notin RecoveryPlan(mem) /\ NextEntry /\ UNCHANGED <<mem, disk>>
    BY <1>3 DEF Lookup, RecoveryPlan
  <2> QED
    BY <1>1, <2>1, EntryKept DEF NextEntry
<1>4. CASE mem[at].state \in {"requested", "owned", "blocked"} /\ Block
  <2>1. at \in RecoveryPlan(mem)
    BY <1>2, <1>4 DEF RecoveryPlan
  <2> QED
    BY <1>1, <1>4, <2>1, EntryClosed DEF Block, Blocked, Persist
<1>5. CASE /\ mem[at].state \in {"owned", "blocked"} /\ mem[at].uid # "none"
           /\ pc' = (IF Gone(at) THEN "verify" ELSE "remove") /\ UNCHANGED <<mem, disk, at>>
  <2>1. at \in RecoveryPlan(mem) /\ mem[at].uid = "run"
    BY <1>2, <1>5, SMT DEF RecoveryPlan, Journals, Entries
  <2> QED
    BY <1>1, <1>5, <2>1, EntryKept
<1> QED
  BY <1>3, <1>4, <1>5 DEF Lookup


\* Where something is removed or verified, the entry is open.
LEMMA EntryOpen ==
  ASSUME OwnedInv, AtEntry, pc \in {"remove", "verify"}
  PROVE  /\ mem[at].uid = "run" /\ mem[at].state \in {"owned", "blocked"}
         /\ at \in RecoveryPlan(mem)
<1>1. at \in Items
  BY AtEntryFacts
<1> QED
  BY <1>1 DEF OwnedInv, Stationed, RecoveryPlan

\* Remove keeps the invariant.
LEMMA RemoveInv == ASSUME OwnedInv, Remove PROVE OwnedInv'
<1>1. AtEntry /\ MayRemove
  <2>1. at > 0
    BY Numbered, SMT DEF Remove, OwnedInv, OwnedTypes, Stationed
  <2>2. MayRemove
    BY DEF Remove, MayRemove, Block
  <2> QED
    BY <2>1, <2>2 DEF Remove, AtEntry
<1>2. /\ mem[at].uid = "run" /\ mem[at].state \in {"owned", "blocked"}
      /\ at \in RecoveryPlan(mem)
  BY <1>1, EntryOpen DEF Remove
<1>3. CASE pc' = "verify" /\ UNCHANGED <<mem, disk, at>>
  BY <1>1, <1>2, <1>3, EntryKept
<1>4. CASE Blocked /\ disk' \in {disk, mem'}
  BY <1>1, <1>2, <1>4, EntryClosed DEF Blocked
<1> QED
  BY <1>3, <1>4 DEF Remove, Block, Persist

\* Verify keeps the invariant: it closes an entry only when its object is gone.
LEMMA VerifyInv == ASSUME OwnedInv, Verify PROVE OwnedInv'
<1>1. AtEntry /\ MayRemove
  <2>1. at > 0
    BY Numbered, SMT DEF Verify, OwnedInv, OwnedTypes, Stationed
  <2> QED
    BY <2>1 DEF Verify, AtEntry, MayRemove
<1>2. at \in RecoveryPlan(mem)
  BY <1>1, EntryOpen DEF Verify
<1>3. CASE /\ VerifyRemoved(at) /\ NextEntry
           /\ mem' = [mem EXCEPT ![at].state = "removed"] /\ disk' = mem'
  BY <1>1, <1>2, <1>3, EntryClosed DEF VerifyRemoved, Verify
<1>4. CASE Blocked /\ disk' \in {disk, mem'}
  BY <1>1, <1>2, <1>4, EntryClosed DEF Blocked
<1> QED
  BY <1>3, <1>4 DEF Verify, Block, Persist

-----------------------------------------------------------------------------
(* The end of a cleanup, and recovery.                                     *)

\* A process that stops keeps the invariant when it leaves the appliance alone.
LEMMA StopInv ==
  ASSUME OwnedInv, Stop("ended"), UNCHANGED <<plan, obj, tail, admins, disk, meddled>>,
         wire' = wire \/ wire' = Quiet, UNCHANGED <<lock, campaign>>, pc # "idle",
         \/ proof' = proof
         \/ RecoveryPlan(disk) = {} /\ tail = {}
  PROVE  OwnedInv'
<1>1. Items' = Items
  BY DEF Items
<1>2. OwnedTypes'
  <2>1. mem' \in Journals
    BY EmptyJournal DEF Stop
  <2>2. wire' \in Wires /\ (wire'.op # "none" => wire'.item \in Items)
    BY OwnedValues DEF OwnedInv, OwnedTypes, Quiet
  <2>3. at' \in 0 .. Len(plan) + 1
    BY Numbered, SMT DEF Stop, OwnedInv, OwnedTypes
  <2> QED
    BY <1>1, <2>1, <2>2, <2>3 DEF Stop, OwnedInv, OwnedTypes, Steps, Journals, Wires
<1>3. Stationed'
  BY SMT DEF Stop, Stationed
<1>4. Covered'
  <2>1. NoneCreated
    BY DEF NoneCreated, Creatable, Quiet
  <2> QED
    BY <2>1, CoveredStep DEF Stop, OwnedInv, Covered
<1>5. Attested'
  BY <1>1 DEF Stop, OwnedInv, Attested, RecoveryPlan
<1>6. Ceded'
  BY CededBehind DEF Stop
<1> QED
  BY <1>6, <1>1, <1>2, <1>3, <1>4, <1>5 DEF OwnedInv, GenerationsBounded, ForeignKept

\* Finish keeps the invariant: behind the final checks nothing is left.
LEMMA FinishInv == ASSUME OwnedInv, Finish PROVE OwnedInv'
<1> USE DEF appliance
<1>1. CASE Stop("ended") /\ UNCHANGED lock
  BY <1>1, StopInv DEF Finish, OwnedInv, OwnedTypes
<1>2. CASE /\ Clean /\ (\A i \in Items : mem[i] # NoEntry => VerifyRemoved(i))
           /\ pc' = "released" /\ lock' = [lock EXCEPT !.holder = "free"]
           /\ UNCHANGED <<mem, proc, at>>
  <2>1. proc # "none" /\ RecoveryPlan(disk) = {} /\ RecoveryPlan(mem) = {}
    BY <1>2 DEF Finish, Clean, RecoveryInventoryOpen, OwnedInv, Stationed
  <2>2. tail = {}
    <3>1. ASSUME NEW i \in tail PROVE FALSE
      <4>1. mem[i].state # "absent" /\ i \in Items
        BY <2>1, <3>1 DEF OwnedInv, OwnedTypes, Covered, Covers
      <4>2. VerifyRemoved(i)
        BY <1>2, <4>1 DEF NoEntry
      <4> QED
        BY <4>2 DEF VerifyRemoved
    <3> QED
      BY <3>1
  <2>3. OwnedTypes'
    <3>1. lock' \in Locks
      BY <1>2, SMT DEF OwnedInv, OwnedTypes, Locks
    <3> QED
      BY <1>2, <3>1 DEF Finish, OwnedInv, OwnedTypes, Steps, Journals, Wires, Items
  <2>4. Stationed'
    BY <1>2, <2>1 DEF Stationed
  <2>5. Covered'
    BY <1>2, CoveredUntouched DEF Finish, OwnedInv
  <2>6. Attested'
    BY <1>2, <2>1, <2>2 DEF Finish, OwnedInv, Attested, RecoveryPlan, Items
  <2>7. lock.run # "other" /\ lock'.run = lock.run
    BY <1>2 DEF Finish, OwnedInv, OwnedTypes, Locks, Ceded
  <2>8. Ceded'
    BY <1>2, <2>1, <2>2, <2>7 DEF Finish, Ceded, RecoveryPlan, Items
  <2> QED
    BY <1>2, <2>3, <2>4, <2>5, <2>6, <2>8 DEF Finish, OwnedInv, GenerationsBounded, ForeignKept, Items
<1> QED
  BY <1>1, <1>2 DEF Finish

\* CompleteReceipt keeps the invariant.
LEMMA CompleteReceiptInv == ASSUME OwnedInv, CompleteReceipt PROVE OwnedInv'
<1> USE DEF appliance
<1>1. CASE Stop("ended")
  BY <1>1, StopInv DEF CompleteReceipt, OwnedInv, OwnedTypes
<1>2. CASE pc' = "attest" /\ UNCHANGED <<mem, proc, at>>
  <2>1. OwnedTypes'
    BY <1>2 DEF CompleteReceipt, OwnedInv, OwnedTypes, Steps, Journals, Wires, Items
  <2>2. Stationed'
    BY <1>2 DEF CompleteReceipt, OwnedInv, Stationed
  <2>3. Covered'
    BY <1>2, CoveredUntouched DEF CompleteReceipt, OwnedInv
  <2>4. Attested'
    BY <1>2 DEF CompleteReceipt, OwnedInv, Attested, RecoveryPlan, Items
  <2>5. Ceded'
    BY <1>2, CededBehind DEF CompleteReceipt
  <2> QED
    BY <1>2, <2>1, <2>2, <2>3, <2>4, <2>5
    DEF CompleteReceipt, OwnedInv, GenerationsBounded, ForeignKept, Items
<1> QED
  BY <1>1, <1>2 DEF CompleteReceipt

\* AttestCleanup keeps the invariant.
LEMMA AttestCleanupInv == ASSUME OwnedInv, AttestCleanup PROVE OwnedInv'
<1>1. RecoveryPlan(disk) = {} /\ tail = {}
  BY DEF AttestCleanup, OwnedInv, Attested
<1> QED
  BY <1>1, StopInv DEF AttestCleanup, appliance, OwnedInv, OwnedTypes

\* A crash keeps the invariant.
LEMMA CrashInv == ASSUME OwnedInv, Crash PROVE OwnedInv'
  BY StopInv DEF Crash, OwnedInv, OwnedTypes, Stationed

\* Claim keeps the invariant: the recovery works on what is on disk.
LEMMA ClaimInv == ASSUME OwnedInv, Claim PROVE OwnedInv'
<1> USE DEF Claim, evidence
<1>0. Len(plan) \in Nat
  BY Numbered DEF OwnedInv, OwnedTypes
<1>1. OwnedTypes'
  <2>1. wire' \in Wires /\ wire'.op = "none"
    BY OwnedValues DEF Quiet
  <2>2. at' \in 0 .. Len(plan) + 1
    BY <1>0, SMT
  <2>3. lock' \in Locks /\ campaign' \in BOOLEAN
    BY DEF HeldBy, Locks, OwnedInv, OwnedTypes
  <2> QED
    BY <2>1, <2>2, <2>3 DEF OwnedInv, OwnedTypes, Steps, Journals, Wires, Items
<1>2. Stationed'
  BY <1>0, SMT DEF Stationed
<1>3. Covered'
  <2>1. NoneCreated /\ Drained'
    BY DEF NoneCreated, Creatable, Quiet, Drained
  <2> QED
    BY <2>1, CoveredStep DEF OwnedInv, Covered
<1>4. Attested'
  BY DEF OwnedInv, Attested, RecoveryPlan, Items
<1>5. Ceded'
  BY DEF Ceded, HeldBy
<1> QED
  BY <1>5, <1>1, <1>2, <1>3, <1>4 DEF OwnedInv, GenerationsBounded, ForeignKept, Items

\* ClaimFree keeps the invariant: it verifies everything recorded.
LEMMA ClaimFreeInv ==
  ASSUME OwnedInv, ClaimFree, campaign' \in BOOLEAN PROVE OwnedInv'
<1> USE DEF ClaimFree, FreeIsClosed, evidence
<1>0. Len(plan) \in Nat
  BY Numbered DEF OwnedInv, OwnedTypes
<1>1. OwnedTypes'
  <2>1. wire' \in Wires /\ wire'.op = "none"
    BY OwnedValues DEF Quiet
  <2>2. at' \in 0 .. Len(plan) + 1
    BY <1>0, SMT
  <2> QED
    BY <2>1, <2>2 DEF OwnedInv, OwnedTypes, Steps, Journals, Wires, Items
<1>2. Stationed'
  BY SMT DEF Stationed
<1>3. Covered'
  <2>1. NoneCreated /\ Drained'
    BY DEF NoneCreated, Creatable, Quiet, Drained
  <2> QED
    BY <2>1, CoveredStep DEF OwnedInv, Covered
<1>4. tail = {}
  <2>1. ASSUME NEW i \in tail PROVE FALSE
    <3>1. disk[i].state # "absent" /\ i \in Items
      BY <2>1 DEF OwnedInv, OwnedTypes, Covered, Covers
    <3>2. VerifyRemoved(i)
      BY <3>1 DEF NoEntry
    <3> QED
      BY <3>2 DEF VerifyRemoved
  <2> QED
    BY <2>1
<1>5. Attested'
  BY <1>4 DEF OwnedInv, Attested, RecoveryPlan, Items
<1>6. Ceded'
  BY CededBehind DEF Recoverable
<1> QED
  BY <1>6, <1>1, <1>2, <1>3, <1>5 DEF OwnedInv, GenerationsBounded, ForeignKept, Items

\* So does a recovery that an administrator asks for.
LEMMA RequestedRecoveryInv == ASSUME OwnedInv, RequestedRecovery PROVE OwnedInv'
  BY ClaimFreeInv DEF RequestedRecovery, OwnedInv, OwnedTypes

\* The one attempt of a campaign keeps the invariant, whatever comes of it.
LEMMA AttemptInv ==
  ASSUME OwnedInv, CampaignRecovery \/ CampaignStops PROVE OwnedInv'
<1>1. CASE ClaimFree
  BY <1>1, ClaimFreeInv DEF CampaignRecovery, CampaignStops
<1>2. CASE UNCHANGED <<plan, appliance, mem, evidence, process, lock, faults, meddled>>
  <2> USE <1>2 DEF appliance, evidence, process
  <2>1. OwnedTypes'
    BY DEF CampaignRecovery, CampaignStops, OwnedInv, OwnedTypes, Journals, Steps, Wires, Items
  <2>2. Covered' /\ Ceded'
    BY CoveredUntouched, CededBehind DEF OwnedInv
  <2> QED
    BY <2>1, <2>2 DEF OwnedInv, Stationed, GenerationsBounded, ForeignKept, Attested,
       Untouched, RecoveryPlan, Items
<1> QED
  BY <1>1, <1>2 DEF CampaignRecovery, CampaignStops

\* RecoverAbsent keeps the invariant: no request is left to create anything.
LEMMA RecoverAbsentInv == ASSUME OwnedInv, RecoverAbsent PROVE OwnedInv'
<1> USE DEF appliance
<1>0. Len(plan) \in Nat /\ pc = "absent" /\ proc = "recovery" /\ mem \in Journals /\ disk \in Journals
      /\ UNCHANGED <<plan, obj, tail, admins, wire, lock, campaign, proof, meddled>>
  BY Numbered DEF RecoverAbsent, OwnedInv, OwnedTypes, Stationed
<1>1. CASE Stop("ended") /\ UNCHANGED disk
  BY <1>0, <1>1, StopInv DEF OwnedInv, OwnedTypes
<1>2. CASE Teardown /\ UNCHANGED <<mem, disk, proc>>
  <2>1. at' \in 0 .. Len(plan) + 1 /\ at' # Len(plan) + 1
    BY <1>0, <1>2, SMT DEF Teardown
  <2>2. OwnedTypes'
    BY <1>0, <1>2, <2>1 DEF Teardown, OwnedInv, OwnedTypes, Steps, Journals, Wires, Items
  <2>3. Stationed'
    BY <1>0, <1>2, <2>1 DEF Teardown, Stationed
  <2>4. Covered'
    BY <1>0, <1>2, CoveredUntouched DEF OwnedInv
  <2>5. Attested'
    BY <1>0, <1>2 DEF Teardown, OwnedInv, Attested, RecoveryPlan, Items
  <2>6. Ceded'
    BY <1>0, <1>2, CededBefore DEF Teardown, RecoverAbsent
  <2> QED
    BY <1>0, <2>6, <2>2, <2>3, <2>4, <2>5 DEF OwnedInv, GenerationsBounded, ForeignKept, Items
<1>3. CASE \E i \in RecoveryPlan(mem) :
             /\ VerifyRemoved(i) /\ mem' = [mem EXCEPT ![i].state = "removed"]
             /\ disk' = mem' /\ UNCHANGED <<proc, pc, at>>
  <2>1. PICK i \in RecoveryPlan(mem) :
             /\ VerifyRemoved(i) /\ mem' = [mem EXCEPT ![i].state = "removed"]
             /\ disk' = mem' /\ UNCHANGED <<proc, pc, at>>
    BY <1>3
  <2>2. i \in Items /\ pc = "absent"
    BY <2>1 DEF RecoveryPlan, RecoverAbsent
  <2>3. proof = NoProof
    BY <1>0, <2>1 DEF OwnedInv, Attested
  <2>4. mem' \in Journals
    <3>1. [mem EXCEPT ![i].state = "removed"] \in Journals
      BY <1>0, <2>2, StateTyped
    <3> QED
      BY <2>1, <3>1
  <2>5. obj[i].uid # "run" /\ ~Creatable(i)
    BY <1>0, <2>1 DEF VerifyRemoved, Gone, OwnedInv, Covered, Creatable, Drained
  <2>6. Covers(mem')
    <3>1. Covers([mem EXCEPT ![i].state = "removed"])
      BY <1>0, <2>2, <2>5, StateCovers DEF OwnedInv, Covered
    <3> QED
      BY <2>1, <3>1
  <2>7. OwnedTypes'
    BY <1>0, <2>1, <2>4 DEF OwnedInv, OwnedTypes, Steps, Journals, Wires, Items
  <2>8. Stationed'
    BY <1>0, <2>1, <2>2 DEF OwnedInv, Stationed
  <2>9. Covered'
    <3>1. NoneCreated /\ Drained'
      BY <1>0 DEF NoneCreated, Creatable, OwnedInv, Covered, Drained
    <3> QED
      BY <2>1, <2>6, <3>1, CoveredStep
  <2>10. Attested'
    BY <1>0, <2>1, <2>2, <2>3 DEF Attested
  <2>11. Ceded'
    BY <1>0, <2>1, <2>2, CededBefore
  <2> QED
    BY <1>0, <2>11, <2>7, <2>8, <2>9, <2>10 DEF OwnedInv, GenerationsBounded, ForeignKept, Items
<1> QED
  BY <1>1, <1>2, <1>3 DEF RecoverAbsent

-----------------------------------------------------------------------------
(* The environment.                                                        *)

\* A lost Lease keeps the invariant.
LEMMA LoseLeaseInv == ASSUME OwnedInv, LoseLease PROVE OwnedInv'
<1> USE DEF LoseLease, appliance, evidence
<1>1. OwnedTypes'
  BY DEF OwnedInv, OwnedTypes, Journals, Steps, Wires, Items
<1>2. Covered' /\ Ceded'
  BY CoveredUntouched, CededBehind DEF OwnedInv
<1> QED
  BY <1>1, <1>2 DEF OwnedInv, Stationed, GenerationsBounded, ForeignKept, Attested, Untouched,
     RecoveryPlan, Items

\* Another run on the free appliance keeps the invariant: it finds it clean.
LEMMA OtherRunInv == ASSUME OwnedInv, OtherRun PROVE OwnedInv'
<1> USE DEF OtherRun, appliance, evidence, process
<1>1. OwnedTypes'
  <2>1. lock' \in Locks
    BY SMT DEF HeldBy, OwnedInv, OwnedTypes, Locks
  <2> QED
    BY <2>1 DEF OwnedInv, OwnedTypes, Journals, Steps, Wires, Items
<1>2. Covered'
  BY CoveredUntouched DEF OwnedInv
<1>3. Ceded'
  <2>1. lock.holder \in {"free", "other"} /\ lock'.holder \in {"free", "other"}
    BY DEF HeldBy, OwnedInv, OwnedTypes, Locks
  <2> QED
    BY <2>1 DEF OwnedInv, Ceded, RecoveryPlan, Items
<1> QED
  BY <1>1, <1>2, <1>3 DEF OwnedInv, Stationed, GenerationsBounded, ForeignKept, Attested,
     Untouched, RecoveryPlan, Items

\* The operator's collection keeps the invariant.
LEMMA CollectInv == ASSUME OwnedInv, Collect PROVE OwnedInv'
<1> USE DEF Collect, evidence, process
<1>1. OwnedTypes'
  BY DEF OwnedInv, OwnedTypes, Journals, Steps, Wires, Items
<1>2. NoneCreated
  BY DEF NoneCreated, Creatable
<1>3. Covered'
  BY <1>2, CoveredStep DEF OwnedInv, Covered, Drained
<1>4. Attested'
  BY DEF OwnedInv, Attested, Untouched, RecoveryPlan, Items
<1>5. Ceded'
  BY CededBehind
<1> QED
  BY <1>5, <1>1, <1>3, <1>4 DEF OwnedInv, Stationed, GenerationsBounded, ForeignKept, Items

\* An administrator keeps the invariant: he creates no object of the run.
LEMMA MeddleInv == ASSUME OwnedInv, NEW i \in Items, Meddle(i) PROVE OwnedInv'
<1> USE DEF evidence, process
<1>1. /\ UNCHANGED <<plan, tail, wire, mem, disk, proc, pc, at, lock, campaign, proof>> /\ pc # "idle"
      /\ meddled' = meddled + 1 /\ meddled' \in 0 .. Meddling /\ meddled \in 0 .. Meddling
      /\ obj \in [Items -> Objects] /\ Items' = Items
  BY OwnedAssumption, SMT DEF Meddle, OwnedInv, OwnedTypes, Items
<1>2. \/ /\ obj[i].uid = "run" /\ obj' = [obj EXCEPT ![i] = NoObject] /\ admins' = admins
      \/ /\ obj[i].uid = "run" /\ obj' = [obj EXCEPT ![i].gen = @ + 1] /\ admins' = admins
      \/ /\ obj' = [obj EXCEPT ![i] = [uid |-> "other", gen |-> 1]]
         /\ admins' = admins \union {i}
  BY DEF Meddle
<1>3. /\ obj'[i].gen <= MaxGen + meddled' /\ obj'[i] \in Objects
      /\ obj'[i].uid = "run" => obj[i].uid = "run"
      /\ i \in admins' => obj'[i].uid = "other"
      /\ admins' \subseteq Items /\ admins' \subseteq admins \union {i}
      /\ obj' \in [Items -> Objects]
      /\ \A n \in Items \ {i} : obj'[n] = obj[n]
  <2>0. obj[i].gen <= MaxGen + meddled /\ admins \subseteq Items /\ i \in Items
    BY DEF OwnedInv, GenerationsBounded, OwnedTypes
  <2>1. CASE obj[i].uid = "run" /\ obj' = [obj EXCEPT ![i] = NoObject] /\ admins' = admins
    <3>1. obj'[i] = NoObject /\ NoObject \in Objects
      BY <1>1, <2>1, OwnedValues
    <3>2. i \notin admins
      BY <2>1 DEF OwnedInv, ForeignKept
    <3>3. NoObject.gen <= MaxGen + meddled' /\ NoObject.uid = "none"
      BY <1>1, OwnedAssumption, SMT DEF NoObject
    <3> QED
      BY <1>1, <2>0, <2>1, <3>1, <3>2, <3>3
  <2>2. CASE obj[i].uid = "run" /\ obj' = [obj EXCEPT ![i].gen = @ + 1] /\ admins' = admins
    <3>1. i \notin admins
      BY <2>2 DEF OwnedInv, ForeignKept
    <3>2. obj'[i] = [uid |-> "run", gen |-> obj[i].gen + 1]
      BY <1>1, <2>2, SMT DEF Objects
    <3>3. obj[i].gen + 1 \in 0 .. MaxGen + Meddling /\ obj[i].gen + 1 <= MaxGen + meddled'
      BY <1>1, <2>0, OwnedAssumption, SMT DEF Objects
    <3>4. obj'[i] \in Objects /\ obj'[i].gen <= MaxGen + meddled'
      BY <3>2, <3>3, SMT DEF Objects
    <3> QED
      BY <1>1, <2>0, <2>2, <3>1, <3>4
  <2>3. CASE /\ obj' = [obj EXCEPT ![i] = [uid |-> "other", gen |-> 1]]
             /\ admins' = admins \union {i}
    <3>1. obj'[i] = [uid |-> "other", gen |-> 1] /\ obj'[i] \in Objects
      BY <1>1, <2>3, OwnedValues
    <3>2. 1 <= MaxGen + meddled'
      BY <1>1, OwnedAssumption, SMT
    <3> QED
      BY <1>1, <2>0, <2>3, <3>1, <3>2
  <2> QED
    BY <1>2, <2>1, <2>2, <2>3
<1>4. OwnedTypes'
  BY <1>1, <1>3 DEF OwnedInv, OwnedTypes, Steps, Journals, Wires
<1>5. Stationed'
  BY <1>1 DEF OwnedInv, Stationed
<1>6. GenerationsBounded'
  BY <1>1, <1>3, OwnedAssumption, SMT DEF OwnedInv, GenerationsBounded, Objects
<1>7. ForeignKept'
  BY <1>1, <1>3 DEF OwnedInv, OwnedTypes, ForeignKept
<1>8. Covered'
  <2>1. NoneCreated
    BY <1>1, <1>3 DEF NoneCreated, Creatable
  <2> QED
    BY <1>1, <2>1, CoveredStep DEF OwnedInv, Covered, Drained
<1>9. Attested'
  BY <1>1 DEF OwnedInv, Attested, RecoveryPlan
<1>10. Ceded'
  BY <1>1, CededBehind
<1> QED
  BY <1>10, <1>4, <1>5, <1>6, <1>7, <1>8, <1>9 DEF OwnedInv

-----------------------------------------------------------------------------
(* Theorems.                                                               *)

\* Every step keeps the invariant.
LEMMA OwnedNextInv == ASSUME OwnedInv, [OwnedNext]_ownedVars PROVE OwnedInv'
<1>1. CASE RunStep
  BY <1>1, OpenInv, CreateKeyInv, CreateModelInv, SubmitCreateInv, CreateIdentityInv,
     ScenarioEndsInv, AcknowledgedInv, RejectedInv DEF RunStep
<1>2. CASE CleanStep
  BY <1>2, LookupInv, RemoveInv, VerifyInv, FinishInv, CompleteReceiptInv, AttestCleanupInv,
     RecoverAbsentInv DEF CleanStep
<1>3. CASE Claim \/ RequestedRecovery \/ CampaignRecovery \/ CampaignStops
           \/ Serve \/ Collect \/ Timeout
  BY <1>3, ClaimInv, RequestedRecoveryInv, AttemptInv, ServeInv, CollectInv, TimeoutInv
<1>4. CASE Crash \/ LoseLease \/ OtherRun
  BY <1>4, CrashInv, LoseLeaseInv, OtherRunInv
<1>5. CASE \E i \in Items : Edit(i) \/ Meddle(i)
  BY <1>5, EditInv, MeddleInv
<1>6. CASE UNCHANGED ownedVars
  <2>1. Covered' /\ Ceded'
    BY <1>6, CoveredUntouched, CededBehind DEF ownedVars, OwnedInv
  <2> QED
    BY <1>6, <2>1 DEF ownedVars, OwnedInv, OwnedTypes, Journals, Steps, Wires, Items,
       Stationed, GenerationsBounded, ForeignKept, Attested, Untouched, RecoveryPlan
<1> QED
  BY <1>1, <1>2, <1>3, <1>4, <1>5, <1>6 DEF OwnedNext

\* The invariant holds for every scenario and every bound.
LEMMA OwnedInvariance == OwnedSpec => []OwnedInv
<1>1. OwnedInit => OwnedInv
  BY OwnedInitInv
<1>2. OwnedInv /\ [OwnedNext]_ownedVars => OwnedInv'
  BY OwnedNextInv
<1> QED
  BY <1>1, <1>2, PTL DEF OwnedSpec

\* With every entry closed and no remains nothing of the run is left, and no
\* request of it can create anything: each would have an open entry.
LEMMA ClosedClean ==
  ASSUME OwnedInv, RecoveryPlan(disk) = {}, tail = {}
  PROVE  NothingLeft
<1>1. \A i \in Items : obj[i].uid # "run" /\ ~Creatable(i)
  BY DEF OwnedInv, Covered, Covers
<1>2. wire.op # "create"
  BY <1>1 DEF Creatable, OwnedInv, OwnedTypes
<1> QED
  BY <1>1, <1>2 DEF NothingLeft

\* A verdict of "clean" is true: the journal that was attested had no open
\* entry, or nothing was ever requested (assessCleanup).
LEMMA VerdictClean == OwnedInv => VerifiedClean
<1> SUFFICES ASSUME OwnedInv, AssessCleanup = "verified" PROVE NothingLeft
  BY DEF VerifiedClean
<1>1. RecoveryPlan(disk) = {} /\ (Matches \/ \A i \in Items : disk[i] = NoEntry)
  BY DEF AssessCleanup, RecoveryInventoryOpen
<1>2. tail = {}
  <2>1. CASE Matches
    BY <2>1 DEF Matches, OwnedInv, Attested
  <2>2. CASE \A i \in Items : disk[i] = NoEntry
    BY <2>2 DEF NoEntry, OwnedInv, OwnedTypes, Covered, Covers
  <2> QED
    BY <1>1, <2>1, <2>2
<1> QED
  BY <1>1, <1>2, ClosedClean

\* Another run that is named in the Lease has found the appliance clean.
LEMMA CededClean == OwnedInv => LaterRunFindsClean
  BY ClosedClean DEF LaterRunFindsClean, OwnedInv, Ceded

\* The cleanup of a run is safe, whatever is lost, fails or dies and whoever
\* meddles: its records have their form, nobody else's object is removed, what
\* the run has created is open in the journal on disk, and a run is reported
\* clean, and another run gets the appliance, only when nothing of it is left
\* or can still appear.
THEOREM CleanupIsSafe == OwnedSpec => []CleanupSafe
<1>1. OwnedInv => OwnedTypeOK
  BY DEF OwnedInv, OwnedTypes, OwnedTypeOK, Objects, Journals, Entries, Locks
<1>2. OwnedInv => DurableIntent
  BY DEF OwnedInv, Covered, Covers, DurableIntent
<1>3. OwnedInv => CleanupSafe
  BY <1>1, <1>2, VerdictClean, CededClean DEF CleanupSafe, OwnedInv
<1> QED
  BY <1>3, OwnedInvariance, PTL

=============================================================================

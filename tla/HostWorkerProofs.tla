-------------------------- MODULE HostWorkerProofs --------------------------
(***************************************************************************)
(* Proofs about HostWorker for every set of requests and actions and every *)
(* bound, and about the mixes of requests its run goes through.            *)
(***************************************************************************)
EXTENDS MCWorkerMixes, TLAPS

USE DEF TERMINAL, Phases, Commands, Pcs

\* state.json keeps at most HistoryLimit requests in its history (Worker.update).
LEMMA RememberType ==
  ASSUME completed \in Seq(Requests), NEW r \in Requests
  PROVE  Remember(r) \in Seq(Requests) /\ Len(Remember(r)) <= HistoryLimit
<1> DEFINE all == Append(completed, r)
<1>1. all \in Seq(Requests) /\ Len(all) \in Nat
  OBVIOUS
<1>2. CASE Len(all) > HistoryLimit
  <2>1. Len(all) - HistoryLimit + 1 \in 1 .. Len(all) + 1
    BY <1>1, <1>2, BoundsAssumption
  <2>2. SubSeq(all, Len(all) - HistoryLimit + 1, Len(all)) \in Seq(Requests)
    BY <1>1, <2>1, BoundsAssumption
  <2>3. Len(SubSeq(all, Len(all) - HistoryLimit + 1, Len(all))) = HistoryLimit
    BY <1>1, <2>1, <1>2, BoundsAssumption
  <2> QED
    BY <1>2, <2>2, <2>3, BoundsAssumption DEF Remember
<1>3. CASE ~(Len(all) > HistoryLimit)
  BY <1>1, <1>3, BoundsAssumption DEF Remember
<1> QED
  BY <1>2, <1>3

FileTypes == current \in Currents /\ completed \in Seq(Requests)
             /\ Len(completed) <= HistoryLimit /\ w \in Workers

\* Worker.update writes a well-typed state.json and leads to a known point.
LEMMA UpdateType ==
  ASSUME completed \in Seq(Requests), Len(completed) <= HistoryLimit,
         NEW cur \in Currents, posted[cur.uid] \in Specs,
         NEW next \in Pcs \cup {"end"}, NEW caught \in BOOLEAN,
         Update(cur, next, caught)
  PROVE  FileTypes'
<1>1. posted[cur.uid].req \in Requests
  BY DEF Specs
<1>2. completed' \in Seq(Requests) /\ Len(completed') <= HistoryLimit
  BY <1>1, RememberType DEF Update
<1>3. w' \in Workers
  BY DEF Update, Workers
<1> QED
  BY <1>2, <1>3 DEF Update, FileTypes

\* The tick's exception handler leaves well-typed files.
LEMMA RaiseType ==
  ASSUME FileTypes, posted[current.uid] \in Specs, Raise
  PROVE  FileTypes'
<1>1. To("Failed") \in Currents /\ To("Failed").uid = current.uid
  BY DEF FileTypes, To, Currents
<1>2. CASE w.caught
  BY <1>1, <1>2, UpdateType DEF Raise, Fail, FileTypes
<1>3. CASE ~w.caught
  <2>1. w' = Idle /\ current' = current /\ completed' = completed
    BY <1>3 DEF Raise
  <2> QED
    BY <2>1 DEF FileTypes, Workers, Idle
<1> QED
  BY <1>2, <1>3

\* schedule_power leaves well-typed files.
LEMMA SchedulePowerType ==
  ASSUME FileTypes, posted[current.uid] \in Specs,
         NEW cur \in Currents, cur.uid = current.uid, SchedulePower(cur)
  PROVE  FileTypes' /\ (late' = late \/ late' = FALSE)
<1> DEFINE new == [cur EXCEPT !.phase = ScheduledPhase]
<1>1. new \in Currents /\ new.uid = current.uid
  BY DEF Currents, ScheduledPhase
<1>2. To("Failed") \in Currents /\ To("Failed").uid = current.uid
  BY DEF FileTypes, To, Currents
<1>3. CASE shutdown # "none"
  BY <1>2, <1>3, UpdateType DEF SchedulePower, Fail, FileTypes
<1>4. CASE shutdown = "none"
  BY <1>1, <1>4, UpdateType DEF SchedulePower, FileTypes
<1> QED
  BY <1>3, <1>4

\* Recording the boot identity and a phase keeps the type of state.json.
LEMMA BootType ==
  ASSUME NEW c \in Currents, NEW b \in 0 .. MaxBoots, NEW phase \in Phases
  PROVE  /\ [c EXCEPT !.phase = phase, !.boot = b] \in Currents
         /\ [c EXCEPT !.phase = phase, !.boot = b].uid = c.uid
  BY DEF Currents

\* Counting a memory restart keeps the type of state.json.
LEMMA RestartType ==
  ASSUME NEW c \in Currents, NEW b \in 0 .. MaxBoots, NEW n \in 0 .. 2
  PROVE  /\ [c EXCEPT !.boot = b, !.reboots = n] \in Currents
         /\ [c EXCEPT !.boot = b, !.reboots = n].uid = c.uid
  BY DEF Currents

\* Recording an effect keeps the type of the record of effects.
LEMMA RanType ==
  ASSUME ran \in [Uids -> [Effects -> Nat]], NEW u \in Uids, NEW e \in Effects, Ran(u, e)
  PROVE  ran' \in [Uids -> [Effects -> Nat]]
  BY DEF Ran

\* Every step of the system keeps the type invariant.
LEMMA TypeStep ==
  ASSUME TypeOK, Identity, Serial, Next
  PROVE  TypeOK'
<1> USE BoundsAssumption, ActionsAssumption
<1>a. FileTypes
  BY DEF TypeOK, FileTypes
<1>b. current.uid # 0 => current.uid \in 1 .. newest /\ posted[current.uid] \in Specs
  BY <1>a DEF TypeOK, Identity, FileTypes, Currents
<1>c. (w.pc # "idle" => current.uid # 0) /\ op.uid \in {0, newest} /\ newest \in Nat
      /\ boot \in 0 .. MaxBoots
  BY DEF Serial, Identity, TypeOK
<1>1. ASSUME NEW r \in Requests, NEW a \in Actions, DashGet(r, a) PROVE TypeOK'
  BY <1>1 DEF TypeOK, FileTypes, kubeVars, fileVars, hostVars, DashGet, Specs, Calls
<1>2. ASSUME NEW r \in Requests, DashDelete(r) PROVE TypeOK'
  <2>1. dash' \in [Requests -> Calls]
    <3>1. dash[r] \in Calls /\ NoDash \in Calls
      BY DEF TypeOK, NoDash, Calls
    <3>2. [dash[r] EXCEPT !.pc = "post"] \in Calls
      BY <3>1 DEF Calls
    <3> QED
      BY <1>2, <3>1, <3>2 DEF TypeOK, DashDelete
  <2>2. op' \in [uid : 0 .. MaxOps, phase : Phases \cup {"Pending"}]
    BY <1>2 DEF TypeOK, DashDelete, NoOp
  <2> QED
    BY <1>2, <2>1, <2>2 DEF TypeOK, FileTypes, kubeVars, fileVars, hostVars, DashDelete
<1>3. ASSUME NEW r \in Requests, DashPost(r) PROVE TypeOK'
  <2>1. dash[r].spec \in Specs
    BY <1>3 DEF Identity, DashPost
  <2>2. dash' \in [Requests -> Calls]
    BY <1>3 DEF TypeOK, DashPost, NoDash, NoSpec, Calls
  <2>3. newest \in 0 .. MaxOps /\ newest < MaxOps
    BY <1>3 DEF TypeOK, DashPost
  <2>4. posted' \in [Uids -> Specs \cup {NoSpec}]
    BY <1>3, <2>1, <2>3 DEF TypeOK, DashPost, Uids
  <2>5. /\ newest' \in 0 .. MaxOps
        /\ op' \in [uid : 0 .. MaxOps, phase : Phases \cup {"Pending"}]
    BY <1>3, <2>3 DEF TypeOK, DashPost
  <2> QED
    BY <1>3, <2>2, <2>4, <2>5 DEF TypeOK, FileTypes, kubeVars, fileVars, hostVars, DashPost
<1>4. ASSUME NEW r \in Requests, DashAbort(r) PROVE TypeOK'
  BY <1>4 DEF TypeOK, FileTypes, kubeVars, fileVars, hostVars, DashAbort, Calls, NoDash, NoSpec
<1>5. ASSUME NEW valid \in BOOLEAN, Accept(valid) PROVE TypeOK'
  BY <1>5 DEF TypeOK, FileTypes, kubeVars, fileVars, hostVars, Accept, CanTick, Currents, Workers
<1>6. CASE Reacknowledge
  <2>1. FileTypes'
    BY <1>6, <1>a, <1>b, <1>c, UpdateType DEF FileTypes, Reacknowledge, CanTick, Currents
  <2> QED
    BY <1>6, <2>1 DEF TypeOK, FileTypes, kubeVars, fileVars, hostVars, Reacknowledge
<1>7. CASE InterruptUnfinished
  <2>1. FileTypes'
    BY <1>7, <1>a, <1>b, <1>c, UpdateType DEF FileTypes, InterruptUnfinished, Resume, CanTick, To, Currents
  <2> QED
    BY <1>7, <2>1 DEF TypeOK, FileTypes, kubeVars, fileVars, hostVars, InterruptUnfinished
<1>8. CASE NoBoot
  <2>1. FileTypes'
    BY <1>8, <1>a, <1>b, <1>c, UpdateType DEF FileTypes, NoBoot, Resume, CanTick, Fail, To, Currents
  <2> QED
    BY <1>8, <2>1 DEF TypeOK, FileTypes, kubeVars, fileVars, hostVars, NoBoot
<1>9. CASE VerifyMemory
  <2>1. FileTypes'
    BY <1>9, <1>a, <1>b, <1>c, UpdateType DEF FileTypes, VerifyMemory, Resume, CanTick, Fail, To, Currents, ApplyDynamicMemory
  <2> QED
    BY <1>9, <2>1 DEF TypeOK, FileTypes, kubeVars, fileVars, hostVars, VerifyMemory
<1>10. CASE Reject
  <2>1. FileTypes'
    BY <1>10, <1>a, <1>b, <1>c, UpdateType DEF FileTypes, Reject, To, Currents
  <2> QED
    BY <1>10, <2>1 DEF TypeOK, FileTypes, kubeVars, fileVars, hostVars, Reject
<1>11. CASE BeginRefused
  <2>1. FileTypes'
    BY <1>11, <1>a, <1>b, <1>c, UpdateType DEF FileTypes, BeginRefused, Fail, To, Currents
  <2> QED
    BY <1>11, <2>1 DEF TypeOK, FileTypes, kubeVars, fileVars, hostVars, BeginRefused
<1>12. CASE BeginLocal
  <2>1. FileTypes'
    BY <1>12, <1>a, <1>b, <1>c, UpdateType DEF FileTypes, BeginLocal, Begin, To, Currents
  <2> QED
    BY <1>12, <2>1 DEF TypeOK, FileTypes, kubeVars, fileVars, hostVars, BeginLocal
<1>13. CASE QueueService
  <2>1. FileTypes'
    BY <1>13, <1>a, <1>b, <1>c, UpdateType DEF FileTypes, QueueService, To, Currents
  <2> QED
    BY <1>13, <2>1 DEF TypeOK, FileTypes, kubeVars, fileVars, hostVars, QueueService
<1>14. CASE BeginMemory
  <2>1. FileTypes'
    BY <1>14, <1>a, <1>b, <1>c, UpdateType DEF FileTypes, BeginMemory, Begin, ApplyDynamicMemory, To, Currents
  <2> QED
    BY <1>14, <2>1 DEF TypeOK, FileTypes, kubeVars, fileVars, hostVars, BeginMemory
<1>15. CASE BeginPrepare
  <2>1. FileTypes'
    BY <1>15, <1>a, <1>b, <1>c, UpdateType DEF FileTypes, BeginPrepare, Begin, To, Currents
  <2> QED
    BY <1>15, <2>1 DEF TypeOK, FileTypes, kubeVars, fileVars, hostVars, BeginPrepare
<1>16. CASE FinishLocal
  <2>1. FileTypes'
    BY <1>16, <1>a, <1>b, <1>c, UpdateType DEF FileTypes, FinishLocal, To, Currents
  <2> QED
    BY <1>16, <2>1 DEF TypeOK, FileTypes, kubeVars, fileVars, hostVars, FinishLocal
<1>17. CASE Register
  <2> DEFINE new == [current EXCEPT !.phase = "Registering", !.boot = boot]
  <2>0. w.caught \in BOOLEAN
    BY <1>a DEF FileTypes, Workers
  <2>1. new \in Currents /\ new.uid = current.uid
    BY <1>a, <1>c, BootType DEF FileTypes
  <2>2. Update(new, "end", w.caught) /\ posted[new.uid] \in Specs
    BY <1>17, <1>b, <1>c, <2>1 DEF Register
  <2> HIDE DEF new
  <2>3. FileTypes'
    BY <1>a, <2>0, <2>1, <2>2, UpdateType DEF FileTypes
  <2> QED
    BY <1>17, <2>3 DEF TypeOK, FileTypes, kubeVars, fileVars, hostVars, Register
<1>18. CASE BeginPower
  <2>1. FileTypes' /\ (late' = late \/ late' = FALSE)
    BY <1>18, <1>a, <1>b, <1>c, SchedulePowerType DEF BeginPower, Begin, FileTypes
  <2> QED
    BY <1>18, <2>1 DEF TypeOK, FileTypes, kubeVars, fileVars, hostVars, BeginPower
<1>19. CASE MemoryReboot
  <2> DEFINE again == [current EXCEPT !.boot = boot, !.reboots = @ + 1]
  <2>0. current.uid # 0 /\ posted[current.uid] \in Specs
    BY <1>19, <1>b, <1>c DEF MemoryReboot
  <2>1. ASSUME current.reboots >= 2 PROVE FileTypes' /\ late' = late
    BY <1>19, <1>a, <2>0, <2>1, UpdateType DEF MemoryReboot, Fail, To, FileTypes, Currents
  <2>2. ASSUME ~(current.reboots >= 2) PROVE FileTypes' /\ (late' = late \/ late' = FALSE)
    <3>0. current.reboots + 1 \in 0 .. 2
      BY <1>a, <2>2 DEF FileTypes, Currents
    <3>1. again \in Currents /\ again.uid = current.uid
      BY <1>a, <1>c, <3>0, RestartType DEF FileTypes
    <3>2. SchedulePower(again)
      BY <1>19, <2>2 DEF MemoryReboot
    <3> HIDE DEF again
    <3> QED
      BY <1>a, <2>0, <3>1, <3>2, SchedulePowerType
  <2>3. FileTypes' /\ (late' = late \/ late' = FALSE)
    BY <2>1, <2>2
  <2> QED
    BY <1>19, <2>3 DEF TypeOK, FileTypes, kubeVars, fileVars, hostVars, MemoryReboot
<1>20. CASE BeginService
  <2>1. w' \in Workers /\ FileTypes'
    BY <1>20, <1>a DEF BeginService, Goto, FileTypes, Workers
  <2>2. approved' \in [ServiceActions -> 0 .. MaxOps]
    BY <1>20, <1>a DEF BeginService, TypeOK, Begin, Currents
  <2> QED
    BY <1>20, <2>1, <2>2 DEF TypeOK, FileTypes, kubeVars, fileVars, hostVars, BeginService
<1>21. CASE CaptureActivation
  <2>1. FileTypes'
    <3>1. CASE Raise
      BY <1>21, <3>1, <1>a, <1>b, <1>c, RaiseType DEF CaptureActivation
    <3>2. CASE ~Raise
      BY <1>21, <3>2, <1>a DEF CaptureActivation, Goto, FileTypes, Workers
    <3> QED
      BY <3>1, <3>2
  <2> QED
    BY <1>21, <2>1 DEF TypeOK, FileTypes, kubeVars, fileVars, hostVars, CaptureActivation
<1>22. CASE PackagesInstalled
  <2>0. posted[current.uid] \in Specs
    BY <1>22, <1>b, <1>c DEF PackagesInstalled
  <2>1. ASSUME SchedulePower(current) PROVE FileTypes' /\ (late' = late \/ late' = FALSE)
    BY <2>0, <2>1, <1>a, SchedulePowerType DEF FileTypes
  <2>2. ASSUME Fail PROVE FileTypes'
    BY <2>0, <2>2, <1>a, UpdateType DEF Fail, To, FileTypes, Currents
  <2>3. ASSUME w' = Goto("profile"), UNCHANGED <<current, completed, late>> PROVE FileTypes'
    BY <2>3, <1>a DEF Goto, FileTypes, Workers
  <2>4. FileTypes' /\ (late' = late \/ late' = FALSE)
    BY <1>22, <2>1, <2>2, <2>3 DEF PackagesInstalled
  <2> QED
    BY <1>22, <2>4 DEF TypeOK, FileTypes, kubeVars, fileVars, hostVars, PackagesInstalled
<1>23. CASE PatchOk
  <2>1. FileTypes'
    BY <1>23, <1>a DEF PatchOk, FileTypes, fileVars, Workers, Idle
  <2>2. current.phase \in Phases
    BY <1>23, <1>a, <1>c DEF PatchOk, FileTypes, Currents, Identity
  <2>3. op' \in [uid : 0 .. MaxOps, phase : Phases \cup {"Pending"}]
    BY <1>23, <2>2 DEF PatchOk, TypeOK
  <2> QED
    BY <1>23, <2>1, <2>3 DEF TypeOK, FileTypes, kubeVars, fileVars, hostVars, PatchOk
<1>24. ASSUME NEW stored \in BOOLEAN, PatchError(stored) PROVE TypeOK'
  <2>1. FileTypes'
    BY <1>24, <1>a, <1>b, <1>c, RaiseType DEF PatchError
  <2>2. current.phase \in Phases
    BY <1>24, <1>a, <1>c DEF PatchError, FileTypes, Currents, Identity
  <2>3. op' \in [uid : 0 .. MaxOps, phase : Phases \cup {"Pending"}]
    BY <1>24, <2>2 DEF PatchError, TypeOK
  <2> QED
    BY <1>24, <2>1, <2>3 DEF TypeOK, FileTypes, kubeVars, fileVars, hostVars, PatchError
<1>d. w.pc # "idle" => current.uid \in Uids
  BY <1>b, <1>c DEF TypeOK, Uids
<1>e. Idle \in Workers
  BY DEF Idle, Workers
<1>25. ASSUME NEW error \in BOOLEAN, NEW done \in BOOLEAN, Shutdown(error, done) PROVE TypeOK'
  <2>1. FileTypes'
    BY <1>25, <1>a, <1>b, <1>c, <1>e, RaiseType DEF Shutdown, FileTypes
  <2>2. ran' \in [Uids -> [Effects -> Nat]]
    BY <1>25, <1>d, RanType DEF Shutdown, Effects, TypeOK
  <2> QED
    BY <1>25, <2>1, <2>2 DEF TypeOK, FileTypes, kubeVars, fileVars, hostVars, Shutdown
<1>26. ASSUME NEW error \in BOOLEAN, NEW done \in BOOLEAN, EnableGpuProfile(error, done)
       PROVE  TypeOK'
  <2>0. /\ To("PreparedUnverified") \in Currents /\ To("Interrupted") \in Currents
        /\ To("PreparedUnverified").uid = current.uid /\ To("Interrupted").uid = current.uid
        /\ w.caught \in BOOLEAN /\ Goto("register") \in Workers
    BY <1>a DEF FileTypes, To, Currents, Workers, Goto
  <2>0a. posted[current.uid] \in Specs
    BY <1>26, <1>b, <1>c DEF EnableGpuProfile
  <2>1. ASSUME NEW phase \in {"PreparedUnverified", "Interrupted"},
               Update(To(phase), "end", w.caught)
        PROVE  FileTypes'
    BY <2>0, <2>0a, <2>1, <1>a, UpdateType DEF FileTypes
  <2>2. ASSUME Raise PROVE FileTypes'
    BY <2>0a, <2>2, <1>a, RaiseType
  <2>3. FileTypes'
    BY <1>26, <1>a, <2>0, <2>1, <2>2 DEF EnableGpuProfile, FileTypes
  <2>4. ran' \in [Uids -> [Effects -> Nat]] /\ activation' \in {"before", "ours", "other"}
    BY <1>26, <1>d, RanType DEF EnableGpuProfile, Effects, TypeOK
  <2> QED
    BY <1>26, <2>3, <2>4 DEF TypeOK, FileTypes, kubeVars, fileVars, hostVars, EnableGpuProfile
<1>27. ASSUME NEW error \in BOOLEAN, NEW done \in BOOLEAN, StartJob(error, done) PROVE TypeOK'
  <2>1. FileTypes'
    BY <1>27, <1>a, <1>b, <1>c, <1>e, RaiseType DEF StartJob, FileTypes
  <2>2. ran' \in [Uids -> [Effects -> Nat]] /\ queued' \in [ServiceActions -> BOOLEAN]
    BY <1>27, <1>d, RanType DEF StartJob, Effects, TypeOK
  <2> QED
    BY <1>27, <2>1, <2>2 DEF TypeOK, FileTypes, kubeVars, fileVars, hostVars, StartJob
<1>28. ASSUME NEW error \in BOOLEAN, NEW done \in BOOLEAN, NEW e \in Commands,
              RunCommand(e, error, done)
       PROVE  TypeOK'
  <2>0. Goto(After(e)) \in Workers
    BY <1>a DEF FileTypes, Workers, Goto, After
  <2>1. FileTypes'
    BY <1>28, <1>a, <1>b, <1>c, <2>0, RaiseType DEF RunCommand, FileTypes
  <2>2. ran' \in [Uids -> [Effects -> Nat]]
    BY <1>28, <1>d, RanType DEF RunCommand, Effects, TypeOK
  <2> QED
    BY <1>28, <2>1, <2>2 DEF TypeOK, FileTypes, kubeVars, fileVars, hostVars, RunCommand
<1>f. \A phase \in Phases : To(phase) \in Currents /\ To(phase).uid = current.uid
  BY <1>a DEF FileTypes, To, Currents
<1>29. ASSUME NEW kernel \in BOOLEAN, ObserveBoot(kernel) PROVE TypeOK'
  <2> DEFINE next == [current EXCEPT !.phase = "Verifying", !.boot = boot]
  <2>0. posted[current.uid] \in Specs
    BY <1>29, <1>b, <1>c DEF ObserveBoot, Resume, CanTick
  <2>1. next \in Currents /\ next.uid = current.uid
    BY <1>a, <1>c, BootType DEF FileTypes
  <2>2. \/ Update(next, "end", FALSE)
        \/ \E phase \in Phases : Update(To(phase), "end", FALSE)
    BY <1>29 DEF ObserveBoot
  <2> HIDE DEF next
  <2>3. FileTypes'
    BY <1>a, <1>f, <2>0, <2>1, <2>2, UpdateType DEF FileTypes
  <2> QED
    BY <1>29, <2>3 DEF TypeOK, FileTypes, kubeVars, fileVars, hostVars, ObserveBoot
<1>30. ASSUME NEW ready \in BOOLEAN, VerifyPrepare(ready) PROVE TypeOK'
  <2>1. CASE ready
    <3>0. w' = [pc |-> "profile", next |-> "end", caught |-> FALSE]
      BY <1>30, <2>1 DEF VerifyPrepare
    <3>1. w' \in Workers
      BY <3>0 DEF Workers
    <3> QED
      BY <1>30, <2>1, <3>1 DEF TypeOK, kubeVars, hostVars, VerifyPrepare
  <2>2. CASE ~ready
    <3>1. FileTypes'
      BY <1>30, <2>2, <1>a, <1>b, <1>c, <1>f, UpdateType
      DEF FileTypes, VerifyPrepare, Resume, CanTick, Fail
    <3> QED
      BY <1>30, <3>1 DEF TypeOK, FileTypes, kubeVars, hostVars, VerifyPrepare
  <2> QED
    BY <2>1, <2>2
<1>31. ASSUME NEW evidence \in BOOLEAN, VerifyRegistration(evidence) PROVE TypeOK'
  <2>1. FileTypes'
    BY <1>31, <1>a, <1>b, <1>c, <1>f, UpdateType
    DEF FileTypes, VerifyRegistration, Resume, CanTick, Fail
  <2> QED
    BY <1>31, <2>1 DEF TypeOK, FileTypes, kubeVars, fileVars, hostVars, VerifyRegistration
<1>32. CASE ReconcileService
  <2>1. \E phase \in Phases : Update(To(phase), "end", FALSE)
    BY <1>32 DEF ReconcileService
  <2>2. FileTypes'
    BY <1>32, <2>1, <1>a, <1>b, <1>c, <1>f, UpdateType
    DEF FileTypes, ReconcileService, Resume, CanTick
  <2> QED
    BY <1>32, <2>2 DEF TypeOK, FileTypes, kubeVars, fileVars, hostVars, ReconcileService
<1>33. ASSUME NEW a \in ServiceActions, StartService(a) PROVE TypeOK'
  <2>1. approved[a] \in Uids /\ posted[approved[a]] \in Specs
    BY <1>33 DEF StartService, MayRun, Identity, TypeOK, Uids
  <2>2. ran' \in [Uids -> [Effects -> Nat]]
    BY <1>33, <2>1, RanType DEF StartService, Effects, TypeOK
  <2>3. result' \in [ServiceActions -> [req : Requests \cup {NoRequest},
                                        phase : TERMINAL \cup {"none", "Running"}]]
    BY <1>33, <2>1 DEF StartService, TypeOK, Specs
  <2> QED
    BY <1>33, <2>2, <2>3 DEF TypeOK, FileTypes, kubeVars, fileVars, hostVars, StartService
<1>34. ASSUME NEW a \in ServiceActions, RefuseService(a) PROVE TypeOK'
  BY <1>34 DEF TypeOK, kubeVars, RefuseService
<1>35. ASSUME NEW a \in ServiceActions, NEW published \in BOOLEAN,
              NEW phase \in {"Succeeded", "Failed", "Interrupted", "RolledBack"},
              FinishService(a, phase, published)
       PROVE  TypeOK'
  <2>1. [result[a] EXCEPT !.phase = phase] \in
          [req : Requests \cup {NoRequest}, phase : TERMINAL \cup {"none", "Running"}]
    <3>1. result[a] \in
            [req : Requests \cup {NoRequest}, phase : TERMINAL \cup {"none", "Running"}]
      BY DEF TypeOK
    <3>2. phase \in TERMINAL \cup {"none", "Running"}
      OBVIOUS
    <3> QED
      BY ONLY <3>1, <3>2
  <2>2. result' \in [ServiceActions -> [req : Requests \cup {NoRequest},
                                        phase : TERMINAL \cup {"none", "Running"}]]
    BY <1>35, <2>1 DEF FinishService, TypeOK
  <2>3. op' \in [uid : 0 .. MaxOps, phase : Phases \cup {"Pending"}]
    BY <1>35 DEF FinishService, TypeOK
  <2>4. approved' \in [ServiceActions -> 0 .. MaxOps]
    <3>1. 0 \in 0 .. MaxOps /\ approved \in [ServiceActions -> 0 .. MaxOps]
      BY DEF TypeOK
    <3> QED
      BY <1>35, <3>1 DEF FinishService
  <2> QED
    BY <1>35, <2>2, <2>3, <2>4 DEF TypeOK, FinishService
<1>36. CASE Reboot
  <2>1. \A a \in ServiceActions : Interrupted(a, result[a]) \in
          [req : Requests \cup {NoRequest}, phase : TERMINAL \cup {"none", "Running"}]
    <3>1. \A a \in ServiceActions :
            result[a] \in [req : Requests \cup {NoRequest}, phase : TERMINAL \cup {"none", "Running"}]
      BY DEF TypeOK
    <3>2. {"RolledBack", "Interrupted"} \subseteq TERMINAL
      BY DEF TERMINAL
    <3> QED
      BY <3>1, <3>2 DEF Interrupted
  <2>2. result' \in [ServiceActions -> [req : Requests \cup {NoRequest},
                                        phase : TERMINAL \cup {"none", "Running"}]]
    BY <1>36, <2>1 DEF Reboot
  <2>3. boot' \in 1 .. MaxBoots /\ w' \in Workers
    BY <1>36, <1>e DEF Reboot, TypeOK
  <2>4. approved' \in [ServiceActions -> 0 .. MaxOps]
    <3>1. 0 \in 0 .. MaxOps /\ approved \in [ServiceActions -> 0 .. MaxOps]
      BY DEF TypeOK
    <3> QED
      BY <1>36, <3>1 DEF Reboot
  <2> QED
    BY <1>36, <2>2, <2>3, <2>4 DEF TypeOK, kubeVars, Reboot
<1>37. CASE KubeletPublishes
  BY <1>37 DEF TypeOK, fileVars, hostVars, KubeletPublishes
<1>38. CASE CrashWorker
  BY <1>38, <1>e DEF TypeOK, kubeVars, fileVars, hostVars, CrashWorker
<1>39. CASE LoseState
  BY <1>39 DEF TypeOK, kubeVars, hostVars, LoseState, NoCurrent, Currents
<1>40. CASE TimePasses
  BY <1>40 DEF TypeOK, kubeVars, fileVars, TimePasses
<1>41. CASE AdminShutdown
  BY <1>41 DEF TypeOK, kubeVars, fileVars, AdminShutdown
<1>42. CASE AdminActivation
  BY <1>42 DEF TypeOK, fileVars, hostVars, AdminActivation
<1> QED
  BY <1>1, <1>2, <1>3, <1>4, <1>5, <1>6, <1>7, <1>8, <1>9, <1>10, <1>11, <1>12, <1>13, <1>14,
     <1>15, <1>16, <1>17, <1>18, <1>19, <1>20, <1>21, <1>22, <1>23, <1>24, <1>25, <1>26, <1>27,
     <1>28, <1>29, <1>30, <1>31, <1>32, <1>33, <1>34, <1>35, <1>36, <1>37, <1>38, <1>39, <1>40,
     <1>41, <1>42
  DEF Next, Dashboard, Tick, Continue, Services, Environment

-----------------------------------------------------------------------------
(* Identity, Serial and Acknowledged.                                      *)

\* What every step below needs to know of the operation in progress.
LEMMA Known ==
  ASSUME TypeOK, Identity, Serial
  PROVE  /\ current \in Currents /\ w \in Workers /\ newest \in 0 .. MaxOps
         /\ op.uid \in {0, newest} /\ current.uid \in 0 .. newest
         /\ current.uid # 0 => /\ current.uid \in Uids /\ posted[current.uid] \in Specs
                               /\ Action \in AllActions /\ current.phase \in Phases
         /\ w.pc # "idle" => lock = "free" /\ current.uid # 0
         /\ op \in [uid : 0 .. MaxOps, phase : Phases \cup {"Pending"}]
<1>1. /\ current \in Currents /\ w \in Workers /\ newest \in 0 .. MaxOps
      /\ op \in [uid : 0 .. MaxOps, phase : Phases \cup {"Pending"}]
  BY DEF TypeOK
<1>2. op.uid \in {0, newest} /\ current.uid \in 0 .. newest
  BY <1>1, BoundsAssumption DEF Identity, Currents
<1>3. ASSUME current.uid # 0
      PROVE  /\ current.uid \in Uids /\ posted[current.uid] \in Specs
             /\ Action \in AllActions /\ current.phase \in Phases
  <2>1. current.uid \in 1 .. newest /\ current.uid \in Uids
    BY <1>1, <1>2, <1>3, BoundsAssumption DEF Uids
  <2>2. posted[current.uid] \in Specs
    BY <2>1 DEF Identity
  <2>3. Action \in AllActions
    BY <2>2, ActionsAssumption DEF Action, Specs
  <2>4. current.phase \in Phases
    BY <1>1, <1>3 DEF Identity, Currents
  <2> QED
    BY <2>1, <2>2, <2>3, <2>4
<1>4. w.pc # "idle" => lock = "free" /\ current.uid # 0
  BY DEF Serial
<1> QED
  BY <1>1, <1>2, <1>3, <1>4

\* The effects of the operation in state.json are counted by naturals.
LEMMA CountType ==
  ASSUME TypeOK, current.uid \in Uids
  PROVE  \A e \in Effects : Count(e) \in Nat
  BY DEF TypeOK, Count

\* The tick moves to a point that fits, with a phase that fits.
LEMMA SerialMove ==
  ASSUME posted' = posted, current'.uid = current.uid,
         w'.pc # "idle" => lock' = "free" /\ current.uid # 0,
         w'.pc = "patch" => w'.next \in AckedPcs \cup {"end"},
         current.uid # 0 => current'.phase \in TERMINAL \cup {"Accepted"} \cup PhasesOf(Action),
         Fits(Point')
  PROVE  Serial'
<1>1. Action' = Action
  BY DEF Action
<1>2. Fits(Point)'
  BY <1>1 DEF Fits
<1> QED
  BY <1>1, <1>2 DEF Serial

\* Points that belong to no particular action fit every action.
LEMMA NoPointFits == Fits("end") /\ Fits("idle") /\ Fits("begin") /\ Fits("reject")
  BY DEF Fits, MemoryPcs, PreparePcs

\* The tick writes a terminal phase and ends with its acknowledgement.
LEMMA CloseStep ==
  ASSUME TypeOK, Identity, Serial, Acknowledged,
         UNCHANGED <<posted, newest, op, dash, lock>>, lock = "free", current.uid # 0,
         current'.uid = current.uid, current'.phase \in TERMINAL,
         w'.pc = "patch", w'.next = "end"
  PROVE  Serial' /\ Acknowledged'
<1>1. Point' = "end"
  BY DEF Point
<1>2. Serial'
  BY <1>1, SerialMove, NoPointFits
<1>3. Acknowledged'
  BY <1>1 DEF Acknowledged, AckedPcs, BegunPcs
<1> QED
  BY <1>2, <1>3

\* The tick ends without another write.
LEMMA IdleStep ==
  ASSUME Serial, Acknowledged, UNCHANGED <<posted, newest, op, dash, current>>, w'.pc = "idle"
  PROVE  Serial' /\ Acknowledged'
<1>1. Point' = "idle" /\ Action' = Action
  BY DEF Point, Action
<1>2. Serial'
  BY <1>1, SerialMove, NoPointFits DEF Serial
<1>3. Acknowledged'
  BY <1>1 DEF Acknowledged, AckedPcs, BegunPcs
<1> QED
  BY <1>2, <1>3

\* What a write does to the worker's own state.
LEMMA UpdateEffect ==
  ASSUME current \in Currents, NEW phase, NEW next, NEW caught,
         Update(To(phase), next, caught)
  PROVE  /\ current'.uid = current.uid /\ current'.phase = phase
         /\ current'.stage = current.stage /\ current'.reboots = current.reboots
         /\ w'.pc = "patch" /\ w'.next = next /\ Point' = next
  BY DEF Update, To, Currents, Point

\* What an exception does to state.json and to the tick.
LEMMA RaiseEffect ==
  ASSUME current \in Currents, Raise
  PROVE  /\ current'.uid = current.uid
         /\ \/ w'.pc = "idle" /\ current' = current
            \/ w'.pc = "patch" /\ w'.next = "end" /\ current'.phase = "Failed"
<1>1. CASE w.caught
  BY <1>1, UpdateEffect DEF Raise, Fail
<1>2. CASE ~w.caught
  BY <1>2 DEF Raise, Idle
<1> QED
  BY <1>1, <1>2

\* An exception ends the tick or reports Failed.
LEMMA RaiseStep ==
  ASSUME TypeOK, Identity, Serial, Acknowledged, w.pc # "idle", Raise,
         UNCHANGED <<posted, newest, op, dash, lock>>
  PROVE  Serial' /\ Acknowledged'
<1>1. current \in Currents /\ lock = "free" /\ current.uid # 0
  BY Known
<1>2. CASE w'.pc = "idle" /\ current' = current
  BY <1>2, IdleStep
<1>3. CASE w'.pc = "patch" /\ w'.next = "end" /\ current'.phase = "Failed"
  BY <1>1, <1>3, RaiseEffect, CloseStep
<1> QED
  BY <1>1, <1>2, <1>3, RaiseEffect

\* Counts when the tick comes to rest and nothing has happened.
LEMMA RestCounts ==
  ASSUME Counts, UNCHANGED <<posted, newest, op, ran>>, current'.uid = current.uid,
         Point' \in {"end", "idle"},
         current'.phase \in Stages => /\ current.phase \in Stages
                                      /\ current'.stage = current.stage
                                      /\ current'.reboots = current.reboots
                                      /\ activation' = activation
  PROVE  Counts'
<1>1. Action' = Action /\ \A e \in Effects : Count(e)' = Count(e)
  BY DEF Action, Count
<1> QED
  BY <1>1 DEF Counts, Effects

\* Counts when the tick moves on and nothing has happened.
LEMMA MoveCounts ==
  ASSUME Counts, UNCHANGED <<posted, newest, op, ran, current, activation>>,
         \/ w'.pc \in {"queue", "finish", "memreboot", "profile", "register"}
         \/ w'.pc = "packages" /\ w.pc = "capture"
         \/ w'.pc = "prepared" /\ w.pc = "packages"
  PROVE  Counts'
<1>1. Action' = Action /\ \A e \in Effects : Count(e)' = Count(e)
  BY DEF Action, Count
<1>2. Point' = w'.pc /\ (w.pc \in {"capture", "packages"} => Point = w.pc)
  BY DEF Point
<1>3. CASE w'.pc = "prepared"
  BY <1>1, <1>2, <1>3 DEF Counts, Effects
<1>4. CASE w'.pc # "prepared"
  BY <1>1, <1>2, <1>4 DEF Counts, Effects
<1> QED
  BY <1>3, <1>4

\* The first phase of an operation is written while its status is Pending,
\* so nothing has happened yet.
LEMMA AnnounceStep ==
  ASSUME TypeOK, Identity, Serial, Acknowledged, Counts,
         UNCHANGED <<posted, newest, op, dash, lock, ran>>, w.pc \in BegunPcs,
         current' \in Currents, current'.uid = current.uid, w'.pc = "patch",
         NEW p \in AckedPcs \cup {"end"}, w'.next = p, Fits(p),
         current'.phase \in PhasesOf(Action) \ TERMINAL,
         Action \notin PowerActions => current'.phase \in {"Preparing", "Applying"} /\ p # "shutdown",
         p = "ttm" => current'.stage = "ttm"
  PROVE  Serial' /\ Acknowledged' /\ Counts'
<1>1. /\ Action' = Action /\ Point' = p
      /\ op.uid = current.uid /\ op.phase = "Pending" /\ op.uid # 0
      /\ lock = "free" /\ current.uid # 0
  <2>1. w.pc # "idle"
    BY DEF BegunPcs
  <2> QED
    BY <2>1, Known DEF Action, Point, Acknowledged
<1>2. Serial'
  BY <1>1, SerialMove
<1>3. Acknowledged'
  <2>1. current'.phase \notin {"none", "Accepted"}
    BY DEF PhasesOf, PowerActions
  <2>2. (current'.phase \in {"RebootScheduled", "Verifying", "Registering"}) => Action \in PowerActions
    OBVIOUS
  <2> QED
    BY <1>1, <2>1, <2>2 DEF Acknowledged, AckedPcs, BegunPcs, PowerActions
<1>4. Counts'
  <2>1. \A e \in Effects \ {"service"} : Count(e)' = 0
    BY <1>1 DEF Counts, Count
  <2>2. current'.reboots >= 0
    BY DEF Currents
  <2>3. Action = "configure-gpu-memory" => p # "shutdown"
    BY DEF PowerActions
  <2> QED
    BY <1>1, <2>1, <2>2, <2>3 DEF Counts, Effects, Stages
<1> QED
  BY <1>2, <1>3, <1>4

\* A tick that starts: the resource is the one in state.json, or a new one.
LEMMA TickStep ==
  ASSUME TypeOK, Identity, Serial, Acknowledged, Counts, TypeOK', Tick
  PROVE  Serial' /\ Acknowledged' /\ Counts'
<1>0. current \in Currents /\ current' \in Currents
  BY DEF TypeOK
\* A terminal write that ends the tick, whatever it was looking at.
<1>a. ASSUME NEW phase \in TERMINAL, NEW caught, Update(To(phase), "end", caught),
             CanTick, op.uid = current.uid, UNCHANGED <<kubeVars, lock, ran>>
      PROVE  Serial' /\ Acknowledged' /\ Counts'
  <2>1. /\ current'.uid = current.uid /\ current'.phase = phase /\ w'.pc = "patch"
        /\ w'.next = "end" /\ Point' = "end"
    BY <1>0, <1>a, UpdateEffect
  <2>2. Serial' /\ Acknowledged'
    BY <1>a, <2>1, CloseStep DEF CanTick, kubeVars
  <2>3. Counts'
    BY <1>a, <2>1, RestCounts DEF kubeVars, Stages
  <2> QED
    BY <2>2, <2>3
\* While a reboot or a verification is pending, the status shows it.
<1>b. ASSUME CanTick, op.uid = current.uid, Action \in {"prepare-gpu", "configure-gpu-memory"},
             current.phase \in {"RebootScheduled", "PoweroffScheduled", "Verifying"}
      PROVE  /\ op.phase \notin TERMINAL \cup {"Pending"} /\ current.phase # "PoweroffScheduled"
             /\ current.phase \in Stages /\ current.uid # 0 /\ lock = "free"
  <2>1. current.uid # 0 /\ op.uid # 0 /\ lock = "free"
    BY <1>b DEF CanTick
  <2>2. current.phase # "PoweroffScheduled"
    BY <1>b, <2>1 DEF Serial, PhasesOf, PowerActions, LocalActions, ServiceActions
  <2> QED
    BY <1>b, <2>1, <2>2 DEF Acknowledged, Stages
<1>1. ASSUME NEW valid \in BOOLEAN, Accept(valid) PROVE Serial' /\ Acknowledged' /\ Counts'
  <2>1. /\ current'.uid = op.uid /\ current'.phase = "Accepted" /\ op.uid # 0
        /\ w'.pc \in {"begin", "reject"} /\ Point' = w'.pc
        /\ w'.pc = "begin" => op.phase = "Pending"
        /\ UNCHANGED <<posted, newest, op, dash, lock, ran>> /\ lock = "free"
    BY <1>1 DEF Accept, CanTick, Point, kubeVars, hostVars
  <2>2. Serial'
    BY <2>1 DEF Serial, Fits, MemoryPcs, PreparePcs
  <2>3. Acknowledged'
    BY <2>1 DEF Acknowledged, AckedPcs, BegunPcs
  <2>4. Counts'
    BY <2>1 DEF Counts, Effects, Stages
  <2> QED
    BY <2>2, <2>3, <2>4
<1>2. CASE Reacknowledge
  <2>1. /\ current'.uid = current.uid /\ current'.phase \in TERMINAL /\ w'.pc = "patch"
        /\ w'.next = "end" /\ Point' = "end" /\ lock = "free" /\ current.uid # 0
        /\ UNCHANGED <<posted, newest, op, dash, lock, ran>>
    BY <1>2 DEF Reacknowledge, Update, Point, CanTick, kubeVars, hostVars
  <2>2. Serial' /\ Acknowledged'
    BY <2>1, CloseStep
  <2>3. Counts'
    BY <2>1, RestCounts DEF Stages
  <2> QED
    BY <2>2, <2>3
<1>3. CASE InterruptUnfinished
  BY <1>3, <1>a DEF InterruptUnfinished, Resume, hostVars
<1>4. CASE NoBoot
  BY <1>4, <1>a DEF NoBoot, Resume, Fail, hostVars
<1>5. CASE VerifyMemory
  <2>0. CanTick /\ op.uid = current.uid /\ UNCHANGED <<kubeVars, lock, ran>>
    BY <1>5 DEF VerifyMemory, Resume, hostVars
  <2>1. ASSUME NEW phase \in TERMINAL, NEW caught, Update(To(phase), "end", caught)
        PROVE  Serial' /\ Acknowledged' /\ Counts'
    BY <2>0, <2>1, <1>a
  <2>2. /\ op.phase \notin TERMINAL \cup {"Pending"} /\ current.phase \in Stages
        /\ current.uid # 0 /\ lock = "free" /\ Action = "configure-gpu-memory"
        /\ current.phase = "Verifying"
    BY <1>5, <1>b DEF VerifyMemory, Resume
  <2>3. CASE Update(current, "end", TRUE)
    <3>1. /\ current' = current /\ w'.pc = "patch" /\ w'.next = "end" /\ Point' = "end"
      BY <2>3 DEF Update, Point
    <3>2. Serial'
      BY <2>0, <2>2, <3>1, SerialMove, NoPointFits DEF Serial, kubeVars
    <3>3. Acknowledged'
      BY <2>0, <2>2, <3>1 DEF Acknowledged, AckedPcs, BegunPcs, kubeVars
    <3>4. Counts'
      BY <2>0, <3>1, RestCounts DEF kubeVars
    <3> QED
      BY <3>2, <3>3, <3>4
  <2>4. CASE /\ current.stage = "uma"
             /\ Update([current EXCEPT !.phase = "Preparing", !.stage = "ttm"], "ttm", TRUE)
    <3>1. /\ current'.uid = current.uid /\ current'.phase = "Preparing" /\ current'.stage = "ttm"
          /\ current'.reboots = current.reboots
          /\ w'.pc = "patch" /\ w'.next = "ttm" /\ Point' = "ttm"
      BY <1>0, <2>4 DEF Update, Point, Currents
    <3>2. Serial'
      <4>1. Fits("ttm") /\ "Preparing" \in PhasesOf(Action) /\ "ttm" \in AckedPcs
        BY <2>2 DEF Fits, MemoryPcs, PreparePcs, PhasesOf, PowerActions, LocalActions,
                    ServiceActions, AckedPcs, BegunPcs
      <4> QED
        BY <2>0, <2>2, <3>1, <4>1, SerialMove DEF kubeVars
    <3>3. Acknowledged'
      BY <2>0, <2>2, <3>1 DEF Acknowledged, AckedPcs, BegunPcs, kubeVars
    <3>4. Counts'
      <4>1. Action' = Action /\ \A e \in Effects : Count(e)' = Count(e)
        BY <2>0, <3>1 DEF Action, Count, kubeVars
      <4>2. Count("ttm") \in Nat
        BY <2>2, Known, CountType DEF Effects
      <4>3. Count("ttm") = 0
        BY <2>2, <2>4, <4>2 DEF Counts
      <4> QED
        BY <2>0, <2>2, <3>1, <4>1, <4>3 DEF Counts, Effects, Stages, kubeVars
    <3> QED
      BY <3>2, <3>3, <3>4
  <2> QED
    BY <1>5, <2>1, <2>3, <2>4 DEF VerifyMemory, Fail, ApplyDynamicMemory
<1>6. CASE ReconcileService
  BY <1>6, <1>a DEF ReconcileService, Resume, hostVars
<1>7. ASSUME NEW kernel \in BOOLEAN, ObserveBoot(kernel) PROVE Serial' /\ Acknowledged' /\ Counts'
  <2>0. /\ CanTick /\ op.uid = current.uid /\ UNCHANGED <<kubeVars, lock, ran>>
        /\ current.phase \in {"RebootScheduled", "PoweroffScheduled"}
    BY <1>7 DEF ObserveBoot, Resume
  <2>1. ASSUME NEW phase \in TERMINAL, Update(To(phase), "end", FALSE)
        PROVE  Serial' /\ Acknowledged' /\ Counts'
    BY <2>0, <2>1, <1>a
  <2>2. ASSUME Action \in {"prepare-gpu", "configure-gpu-memory"},
               \/ Update(To("Verifying"), "end", FALSE)
               \/ Update([current EXCEPT !.phase = "Verifying", !.boot = boot], "end", FALSE)
        PROVE  Serial' /\ Acknowledged' /\ Counts'
    <3>1. /\ current'.uid = current.uid /\ current'.phase = "Verifying"
          /\ current'.stage = current.stage /\ current'.reboots = current.reboots
          /\ w'.pc = "patch" /\ w'.next = "end" /\ Point' = "end"
      <4>1. CASE Update(To("Verifying"), "end", FALSE)
        BY <1>0, <4>1, UpdateEffect
      <4>2. CASE Update([current EXCEPT !.phase = "Verifying", !.boot = boot], "end", FALSE)
        <5>1. current' = [current EXCEPT !.phase = "Verifying", !.boot = boot]
          BY <4>2 DEF Update
        <5>2. /\ current'.uid = current.uid /\ current'.phase = "Verifying"
              /\ current'.stage = current.stage /\ current'.reboots = current.reboots
          BY <1>0, <5>1 DEF Currents
        <5> QED
          BY <4>2, <5>2 DEF Update, Point
      <4> QED
        BY <2>2, <4>1, <4>2
    <3>2. /\ op.phase \notin TERMINAL \cup {"Pending"} /\ current.phase \in Stages
          /\ current.uid # 0 /\ lock = "free" /\ op.uid = current.uid
      BY <2>0, <2>2, <1>b
    <3>3. Serial'
      <4>1. "Verifying" \in PhasesOf(Action)
        BY <2>2 DEF PhasesOf, PowerActions, LocalActions, ServiceActions
      <4> QED
        BY <2>0, <3>1, <3>2, <4>1, SerialMove, NoPointFits DEF kubeVars
    <3>4. Acknowledged'
      BY <2>0, <3>1, <3>2 DEF Acknowledged, AckedPcs, BegunPcs, kubeVars
    <3>5. Counts'
      BY <2>0, <3>1, <3>2, RestCounts DEF kubeVars
    <3> QED
      BY <3>3, <3>4, <3>5
  <2>3. Action \in PowerActions \cup {"prepare-gpu", "configure-gpu-memory"}
    <3>1. current.uid # 0
      BY <2>0 DEF CanTick
    <3>2. Action \in AllActions
      BY <3>1, Known
    <3> QED
      BY <2>0, <3>1, <3>2 DEF Serial, PhasesOf, PowerActions, LocalActions, ServiceActions, AllActions
  <2> QED
    BY <1>7, <2>1, <2>2, <2>3 DEF ObserveBoot, PowerActions
<1>8. ASSUME NEW ready \in BOOLEAN, VerifyPrepare(ready) PROVE Serial' /\ Acknowledged' /\ Counts'
  <2>1. CASE ~ready
    BY <1>8, <2>1, <1>a DEF VerifyPrepare, Resume, Fail, hostVars
  <2>2. CASE ready
    <3>1. /\ current' = current /\ w'.pc = "profile" /\ Point' = "profile"
          /\ UNCHANGED <<posted, newest, op, dash, lock, ran, activation>> /\ op.uid = current.uid
          /\ Action = "prepare-gpu" /\ CanTick /\ current.phase = "Verifying"
      BY <1>8, <2>2 DEF VerifyPrepare, Resume, Point, kubeVars, hostVars
    <3>2. /\ op.phase \notin TERMINAL \cup {"Pending"} /\ current.phase \in Stages
          /\ current.uid # 0 /\ lock = "free"
      BY <3>1, <1>b
    <3>3. Serial'
      <4>1. Fits("profile")
        BY <3>1 DEF Fits, MemoryPcs, PreparePcs
      <4> QED
        BY <3>1, <3>2, <4>1, SerialMove DEF Serial
    <3>4. Acknowledged'
      BY <3>1, <3>2 DEF Acknowledged, AckedPcs, BegunPcs
    <3>5. Counts'
      BY <3>1, MoveCounts
    <3> QED
      BY <3>3, <3>4, <3>5
  <2> QED
    BY <2>1, <2>2
<1>9. ASSUME NEW evidence \in BOOLEAN, VerifyRegistration(evidence)
      PROVE  Serial' /\ Acknowledged' /\ Counts'
  BY <1>9, <1>a DEF VerifyRegistration, Resume, Fail, hostVars
<1> QED
  BY <1>1, <1>2, <1>3, <1>4, <1>5, <1>6, <1>7, <1>8, <1>9 DEF Tick

\* What a step that lets something happen may change in Counts.
LEMMA EffectCounts ==
  ASSUME TypeOK, Serial, Acknowledged, Counts, w.pc \in AckedPcs,
         NEW e \in Effects, current.uid \in Uids, Ran(current.uid, e), current.uid <= newest
  PROVE  /\ \A f \in Effects : ran'[current.uid][f] = IF f = e THEN Count(f) + 1 ELSE Count(f)
         /\ \A u \in Uids : \A f \in Effects : u > newest => ran'[u][f] = 0
         /\ op.phase # "Pending" /\ Point = w.pc /\ \A f \in Effects : Count(f) \in Nat
         /\ current.phase \in Phases \ (TERMINAL \cup {"Accepted"})
<1>1. ran \in [Uids -> [Effects -> Nat]] /\ newest \in Nat /\ current \in Currents
  BY BoundsAssumption DEF TypeOK
<1>2. \A u \in Uids : \A f \in Effects :
        ran'[u][f] = IF u = current.uid /\ f = e THEN ran[u][f] + 1 ELSE ran[u][f]
  BY <1>1 DEF Ran
<1>3. \A u \in Uids : \A f \in Effects : u > newest => ran'[u][f] = 0
  <2>1. \A u \in Uids : u \in Nat
    BY BoundsAssumption DEF Uids
  <2> QED
    BY <1>1, <1>2, <2>1 DEF Counts
<1>4. op.phase # "Pending" /\ Point = w.pc
  BY DEF Acknowledged, Point, AckedPcs
<1>5. current.phase \in Phases \ (TERMINAL \cup {"Accepted"})
  BY <1>1, <1>4 DEF Acknowledged, Currents
<1> QED
  BY <1>1, <1>2, <1>3, <1>4, <1>5 DEF Count

\* The phases of power and local actions, one case of PhasesOf each.
LEMMA PhasesOfAction ==
  /\ \A a \in PowerActions : PhasesOf(a) = {"RebootScheduled", "PoweroffScheduled"}
  /\ \A a \in LocalActions : PhasesOf(a) = {"Preparing", "Applying"} /\ a \notin PowerActions
<1> USE DEF PhasesOf, PowerActions, LocalActions, ServiceActions
<1>1. /\ PhasesOf("reboot") = {"RebootScheduled", "PoweroffScheduled"}
      /\ PhasesOf("poweroff") = {"RebootScheduled", "PoweroffScheduled"}
  OBVIOUS
<1>2. /\ PhasesOf("clear-model-cache") = {"Preparing", "Applying"}
      /\ PhasesOf("scan-wifi") = {"Preparing", "Applying"}
      /\ PhasesOf("configure-updates") = {"Preparing", "Applying"}
  OBVIOUS
<1> HIDE DEF PhasesOf
<1> QED
  BY <1>1, <1>2

\* The first steps of a tick that accepted a new operation.
LEMMA BeginStep ==
  ASSUME TypeOK, Identity, Serial, Acknowledged, Counts, TypeOK',
         \/ Reject \/ BeginRefused \/ BeginPower \/ BeginLocal \/ BeginService
         \/ QueueService \/ BeginMemory \/ BeginPrepare
  PROVE  Serial' /\ Acknowledged' /\ Counts'
<1>0. current \in Currents /\ current' \in Currents
  BY DEF TypeOK
<1>a. ASSUME NEW phase \in TERMINAL, NEW caught, Update(To(phase), "end", caught),
             w.pc # "idle", UNCHANGED <<kubeVars, lock, ran>>
      PROVE  Serial' /\ Acknowledged' /\ Counts'
  <2>1. /\ current'.uid = current.uid /\ current'.phase = phase /\ w'.pc = "patch"
        /\ w'.next = "end" /\ Point' = "end"
    BY <1>0, <1>a, UpdateEffect
  <2>2. Serial' /\ Acknowledged'
    BY <1>a, <2>1, CloseStep, Known DEF kubeVars
  <2>3. Counts'
    BY <1>a, <2>1, RestCounts DEF kubeVars, Stages
  <2> QED
    BY <2>2, <2>3
<1>b. w.pc \in BegunPcs => w.pc # "idle" /\ current.uid # 0 /\ lock = "free"
  BY Known DEF BegunPcs
<1>1. CASE Reject
  BY <1>1, <1>a DEF Reject, hostVars
<1>2. CASE BeginRefused
  BY <1>2, <1>a DEF BeginRefused, Fail, hostVars
<1>3. CASE BeginPower
  <2>1. CASE shutdown # "none"
    BY <1>3, <2>1, <1>a DEF BeginPower, Begin
  <2>2. CASE shutdown = "none"
    <3>1. /\ w.pc \in BegunPcs /\ Action \in PowerActions
          /\ Update([current EXCEPT !.phase = ScheduledPhase], "shutdown", TRUE)
      BY <1>3, <2>2 DEF BeginPower, Begin, SchedulePower, BegunPcs
    <3>2. /\ current'.uid = current.uid /\ w'.pc = "patch" /\ w'.next = "shutdown"
          /\ current'.phase = ScheduledPhase
      BY <1>0, <3>1 DEF Update, Currents
    <3>3. Fits("shutdown") /\ "shutdown" \in AckedPcs
      BY <3>1 DEF Fits, MemoryPcs, PreparePcs, AckedPcs, BegunPcs
    <3>4. ScheduledPhase \in PhasesOf(Action) \ TERMINAL
      BY <3>1, PhasesOfAction DEF ScheduledPhase
    <3> QED
      BY <1>0, <1>3, <3>1, <3>2, <3>3, <3>4, AnnounceStep DEF BeginPower, kubeVars
  <2> QED
    BY <2>1, <2>2
<1>4. CASE BeginLocal
  <2>1. PICK phase \in {"Preparing", "Applying"} :
          w.pc \in BegunPcs /\ Action \in LocalActions /\ Update(To(phase), "local", TRUE)
    BY <1>4 DEF BeginLocal, Begin, BegunPcs
  <2>2. Fits("local") /\ "local" \in AckedPcs
    BY <2>1 DEF Fits, MemoryPcs, PreparePcs, AckedPcs, BegunPcs
  <2>3. phase \in PhasesOf(Action) \ TERMINAL /\ Action \notin PowerActions
    BY <2>1, PhasesOfAction
  <2> QED
    BY <1>0, <1>4, <2>1, <2>2, <2>3, UpdateEffect, AnnounceStep DEF BeginLocal, kubeVars, hostVars
<1>5. CASE BeginService
  <2>1. /\ w.pc = "begin" /\ Action \in ServiceActions /\ w'.pc = "queue" /\ current' = current
        /\ UNCHANGED <<posted, newest, op, dash, lock, ran, activation>> /\ Point' = "queue"
    BY <1>5, Known DEF BeginService, Begin, Goto, kubeVars, hostVars, Workers, Point
  <2>2. Serial'
    <3>1. Fits("queue")
      BY <2>1 DEF Fits, MemoryPcs, PreparePcs
    <3> QED
      BY <1>b, <2>1, <3>1, SerialMove DEF Serial, BegunPcs
  <2>3. Acknowledged'
    BY <2>1 DEF Acknowledged, AckedPcs, BegunPcs
  <2>4. Counts'
    BY <2>1, MoveCounts
  <2> QED
    BY <2>2, <2>3, <2>4
<1>6. CASE QueueService
  <2>1. w.pc \in BegunPcs /\ Action \in ServiceActions
    BY <1>6 DEF QueueService, Serial, Fits, Point, BegunPcs
  <2>2. /\ Fits("start") /\ "Applying" \in PhasesOf(Action) \ TERMINAL /\ "start" \in AckedPcs
        /\ Action \notin PowerActions
    BY <2>1 DEF Fits, MemoryPcs, PreparePcs, PhasesOf, AckedPcs, BegunPcs, LocalActions,
                PowerActions, ServiceActions
  <2> QED
    BY <1>0, <1>6, <2>1, <2>2, UpdateEffect, AnnounceStep DEF QueueService, kubeVars
<1>7. CASE BeginMemory
  <2>1. w.pc \in BegunPcs /\ Action = "configure-gpu-memory"
    BY <1>7 DEF BeginMemory, Begin, BegunPcs
  <2>2. ASSUME NEW p \in {"carveout", "ttm"}, NEW stage, p = "ttm" => stage = "ttm",
               Update([current EXCEPT !.phase = "Preparing", !.stage = stage], p, TRUE)
        PROVE  Serial' /\ Acknowledged' /\ Counts'
    <3>1. /\ Fits(p) /\ "Preparing" \in PhasesOf(Action) \ TERMINAL /\ p \in AckedPcs
          /\ Action \notin PowerActions /\ p # "shutdown"
      BY <2>1, <2>2 DEF Fits, MemoryPcs, PreparePcs, PhasesOf, AckedPcs, BegunPcs,
                        LocalActions, PowerActions, ServiceActions
    <3>2. /\ current'.uid = current.uid /\ w'.pc = "patch" /\ w'.next = p
          /\ current'.phase = "Preparing" /\ (p = "ttm" => current'.stage = "ttm")
      BY <1>0, <2>2 DEF Update, Currents
    <3> QED
      BY <1>0, <1>7, <2>1, <3>1, <3>2, AnnounceStep DEF BeginMemory, kubeVars, hostVars
  <2>3. CASE Update(To("Succeeded"), "end", TRUE)
    BY <1>7, <2>1, <2>3, <1>a, <1>b DEF BeginMemory, hostVars
  <2> QED
    BY <1>7, <2>2, <2>3 DEF BeginMemory, ApplyDynamicMemory
<1>8. CASE BeginPrepare
  <2>1. PICK stage : Update([current EXCEPT !.phase = "Preparing", !.stage = stage], "capture", TRUE)
    BY <1>8 DEF BeginPrepare
  <2>2. w.pc \in BegunPcs /\ Action = "prepare-gpu"
    BY <1>8 DEF BeginPrepare, Begin, BegunPcs
  <2>3. /\ Fits("capture") /\ "Preparing" \in PhasesOf(Action) \ TERMINAL
        /\ "capture" \in AckedPcs /\ Action \notin PowerActions
    BY <2>2 DEF Fits, MemoryPcs, PreparePcs, PhasesOf, AckedPcs, BegunPcs,
                LocalActions, PowerActions, ServiceActions
  <2>4. /\ current'.uid = current.uid /\ w'.pc = "patch" /\ w'.next = "capture"
        /\ current'.phase = "Preparing"
    BY <1>0, <2>1 DEF Update, Currents
  <2> QED
    BY <1>0, <1>8, <2>2, <2>3, <2>4, AnnounceStep DEF BeginPrepare, kubeVars, hostVars
<1> QED
  BY <1>1, <1>2, <1>3, <1>4, <1>5, <1>6, <1>7, <1>8

\* A reboot is announced by an operation that has begun: its counter or its
\* record of side effects leaves room for one.
LEMMA ScheduleStep ==
  ASSUME TypeOK, Identity, Serial, Acknowledged, Counts, w.pc \in AckedPcs,
         UNCHANGED <<posted, newest, op, dash, lock, ran, activation>>,
         Action \in {"prepare-gpu", "configure-gpu-memory"},
         current'.uid = current.uid, current'.phase = "RebootScheduled",
         current'.stage = current.stage, w'.pc = "patch", w'.next = "shutdown",
         Action = "prepare-gpu" => Count("shutdown") = 0,
         Action = "configure-gpu-memory" =>
           /\ current'.reboots \in Nat /\ Count("shutdown") < current'.reboots
           /\ Count("ttm") > 0 => current.stage = "ttm",
         current.phase \in Stages
  PROVE  Serial' /\ Acknowledged' /\ Counts'
<1>1. /\ Action' = Action /\ Point' = "shutdown" /\ current.uid # 0 /\ lock = "free"
      /\ op.uid = current.uid /\ op.phase \notin TERMINAL \cup {"Pending"}
  BY Known DEF Action, Point, Acknowledged, AckedPcs
<1>2. Serial'
  <2>1. Fits("shutdown") /\ "shutdown" \in AckedPcs /\ "RebootScheduled" \in PhasesOf(Action)
    BY DEF Fits, MemoryPcs, PreparePcs, AckedPcs, BegunPcs, PhasesOf, LocalActions,
           PowerActions, ServiceActions
  <2> QED
    BY <1>1, <2>1, SerialMove
<1>3. Acknowledged'
  BY <1>1 DEF Acknowledged, AckedPcs, BegunPcs
<1>4. Counts'
  <2>1. \A e \in Effects : Count(e)' = Count(e)
    BY DEF Count
  <2>2. Count("shutdown") \in Nat
    <3>1. current.uid \in Uids
      BY <1>1, Known
    <3>2. ran \in [Uids -> [Effects -> Nat]] /\ "shutdown" \in Effects
      BY DEF TypeOK, Effects
    <3> QED
      BY <3>1, <3>2 DEF Count
  <2> QED
    BY <1>1, <2>1, <2>2 DEF Counts, Effects, Stages
<1> QED
  BY <1>2, <1>3, <1>4

\* Something happens and the tick comes to rest.
LEMMA EffectRest ==
  ASSUME TypeOK, Identity, Serial, Acknowledged, Counts, w.pc \in AckedPcs,
         UNCHANGED <<posted, newest, op>>, current'.uid = current.uid,
         NEW e \in Effects, Ran(current.uid, e), Point' \in {"end", "idle"},
         current'.phase \in Stages =>
           /\ current' = current /\ (e # "activate" => activation' = activation)
           /\ e = "activate" => activation' # "before"
           /\ e = "shutdown" /\ Action = "configure-gpu-memory" => Count("shutdown") < current.reboots
           /\ e = "ttm" => current.stage = "ttm"
  PROVE  Counts'
<1>1. /\ current.uid # 0 /\ current.uid \in Uids /\ current.uid <= newest
      /\ current.reboots \in Nat
  BY Known DEF AckedPcs, Currents
<1>2. /\ \A f \in Effects : ran'[current.uid][f] = IF f = e THEN Count(f) + 1 ELSE Count(f)
      /\ \A u \in Uids : \A f \in Effects : u > newest => ran'[u][f] = 0
      /\ op.phase # "Pending" /\ \A f \in Effects : Count(f) \in Nat
  BY <1>1, EffectCounts
<1>3. Action' = Action /\ \A f \in Effects : Count(f)' = IF f = e THEN Count(f) + 1 ELSE Count(f)
  BY <1>2 DEF Action, Count
<1>4. current'.phase \in Stages /\ Action = "configure-gpu-memory" =>
        /\ Count("shutdown")' <= current'.reboots
        /\ Count("ttm")' > 0 => current'.stage = "ttm"
  BY <1>1, <1>2, <1>3 DEF Counts, Effects
<1>5. current'.phase \in Stages /\ Action = "prepare-gpu" =>
        (Count("activate")' > 0 => activation' # "before")
  BY <1>1, <1>2, <1>3 DEF Counts, Effects
<1> QED
  BY <1>2, <1>3, <1>4, <1>5 DEF Counts, Effects

\* Points behind an acknowledged phase.
LEMMA AckedFacts ==
  ASSUME TypeOK, Identity, Serial, Acknowledged, w.pc \in AckedPcs
  PROVE  /\ w.pc # "idle" /\ w.pc # "patch" /\ Point = w.pc
         /\ current.uid # 0 /\ current.uid \in Uids /\ current.uid <= newest /\ lock = "free"
         /\ current \in Currents /\ w \in Workers /\ Fits(w.pc)
         /\ op.uid = current.uid /\ op.phase \notin TERMINAL \cup {"Pending"}
         /\ current.phase \in TERMINAL \cup {"Accepted"} \cup PhasesOf(Action)
         /\ current.phase \notin TERMINAL \cup {"none", "Accepted"}
         /\ Action \in {"prepare-gpu", "configure-gpu-memory"} => current.phase \in Stages
<1>1. /\ w.pc # "idle" /\ w.pc # "patch" /\ Point = w.pc
  BY DEF AckedPcs, Point
<1>2. /\ current.uid # 0 /\ current.uid \in Uids /\ current.uid <= newest /\ lock = "free"
      /\ current \in Currents /\ w \in Workers
  BY <1>1, Known
<1>3. /\ Fits(w.pc) /\ op.uid = current.uid /\ op.phase \notin TERMINAL \cup {"Pending"}
      /\ current.phase \in TERMINAL \cup {"Accepted"} \cup PhasesOf(Action)
      /\ current.phase \notin TERMINAL \cup {"none", "Accepted"}
  BY <1>1, <1>2 DEF Serial, Acknowledged
<1>4. Action \in {"prepare-gpu", "configure-gpu-memory"} => current.phase \in Stages
  BY <1>3 DEF PhasesOf, Stages, PowerActions, LocalActions, ServiceActions
<1> QED
  BY <1>1, <1>2, <1>3, <1>4

\* A tick goes on to another acknowledged point.
LEMMA GotoStep ==
  ASSUME TypeOK, Identity, Serial, Acknowledged, w.pc \in AckedPcs,
         UNCHANGED <<posted, newest, op, dash, lock, current>>,
         NEW p \in AckedPcs, w' = Goto(p), Fits(p)
  PROVE  Serial' /\ Acknowledged' /\ Point' = p /\ w'.pc = p
<1>1. w'.pc = p /\ p # "patch" /\ Point' = p
  BY AckedFacts DEF Goto, Workers, Point, AckedPcs
<1>2. Serial'
  BY <1>1, AckedFacts, SerialMove
<1>3. Acknowledged'
  BY <1>1, AckedFacts DEF Acknowledged, AckedPcs, BegunPcs, Action
<1> QED
  BY <1>1, <1>2, <1>3

\* An exception changes nothing that Counts speaks of.
LEMMA RaiseCounts ==
  ASSUME TypeOK, Counts, Raise, UNCHANGED <<posted, newest, op, ran, activation>>
  PROVE  Counts'
<1>1. current \in Currents
  BY DEF TypeOK
<1>2. current'.uid = current.uid /\ Point' \in {"end", "idle"}
  BY <1>1, RaiseEffect DEF Point
<1>3. current'.phase \in Stages => current' = current
  BY <1>1, RaiseEffect DEF Stages
<1> QED
  BY <1>2, <1>3, RestCounts

\* The acknowledgement itself.
LEMMA PatchStep ==
  ASSUME TypeOK, Identity, Serial, Acknowledged, Counts, TypeOK',
         PatchOk \/ \E stored \in BOOLEAN : PatchError(stored)
  PROVE  Serial' /\ Acknowledged' /\ Counts'
<1>1. /\ w.pc = "patch" /\ lock = "free" /\ current.uid # 0 /\ current \in Currents
      /\ current.phase \in Phases /\ w.next \in AckedPcs \cup {"end"}
      /\ op \in [uid : 0 .. MaxOps, phase : Phases \cup {"Pending"}]
      /\ Point = w.next
  BY Known DEF PatchOk, PatchError, Serial, Point
<1>2. ASSUME PatchOk PROVE Serial' /\ Acknowledged' /\ Counts'
  <2>1. /\ op'.uid = op.uid /\ op.uid = current.uid /\ op'.phase = current.phase
        /\ UNCHANGED <<posted, newest, dash, lock, current, ran, activation>>
    BY <1>1, <1>2 DEF PatchOk, fileVars, hostVars
  <2>2. \/ w.next = "end" /\ w'.pc = "idle" /\ Point' = "idle"
        \/ w.next # "end" /\ w'.pc = w.next /\ Point' = w.next
    BY <1>1, <1>2 DEF PatchOk, Idle, Point, AckedPcs
  <2>3. Serial'
    BY <1>1, <2>1, <2>2, SerialMove, NoPointFits DEF Serial, AckedPcs
  <2>4. Acknowledged'
    <3>1. ASSUME NEW r \in Requests, dash[r].pc = "delete", dash[r].seen = op.uid
          PROVE  current.phase \in TERMINAL
      BY <1>1, <2>1, <3>1 DEF Acknowledged, Identity
    <3>2. w'.pc \in AckedPcs => current.phase \notin TERMINAL \cup {"none", "Accepted"}
      BY <1>1, <2>2 DEF Acknowledged, AckedPcs
    <3>3. Action' = Action /\ w'.pc # "patch" /\ w'.pc \notin BegunPcs \cup {"reject"}
      BY <1>1, <2>1, <2>2 DEF Action, AckedPcs, BegunPcs
    <3> QED
      BY <1>1, <2>1, <2>2, <3>1, <3>2, <3>3 DEF Acknowledged, AckedPcs
  <2>5. Counts'
    <3>1. Action' = Action /\ \A e \in Effects : Count(e)' = Count(e)
      BY <2>1 DEF Action, Count
    <3>2. CASE w.next = "end"
      BY <1>1, <2>1, <2>2, <3>1, <3>2 DEF Counts, Effects
    <3>3. CASE w.next # "end"
      BY <1>1, <2>1, <2>2, <3>1, <3>3 DEF Counts, Effects
    <3> QED
      BY <3>2, <3>3
  <2> QED
    BY <2>3, <2>4, <2>5
<1>3. ASSUME NEW stored \in BOOLEAN, PatchError(stored) PROVE Serial' /\ Acknowledged' /\ Counts'
  <2>1. /\ UNCHANGED <<posted, newest, dash, lock, ran, activation>> /\ Raise
        /\ \/ op' = op
           \/ op'.uid = op.uid /\ op.uid = current.uid /\ op'.phase = current.phase
    BY <1>1, <1>3 DEF PatchError, hostVars
  <2>2. CASE op' = op
    <3>1. Serial' /\ Acknowledged'
      BY <1>1, <2>1, <2>2, RaiseStep
    <3>2. Counts'
      BY <2>1, <2>2, RaiseCounts
    <3> QED
      BY <3>1, <3>2
  <2>3. CASE op'.uid = op.uid /\ op.uid = current.uid /\ op'.phase = current.phase
    <3>1. /\ current'.uid = current.uid /\ Point' \in {"end", "idle"}
          /\ \/ w'.pc = "idle" /\ current' = current
             \/ w'.pc = "patch" /\ w'.next = "end" /\ current'.phase = "Failed"
      BY <1>1, <2>1, RaiseEffect DEF Point
    <3>2. Serial'
      <4>1. Fits(Point')
        BY <3>1, NoPointFits
      <4>2. current'.phase \in TERMINAL \cup {"Accepted"} \cup PhasesOf(Action)
        BY <1>1, <3>1 DEF Serial
      <4> QED
        BY <1>1, <2>1, <3>1, <4>1, <4>2, SerialMove
    <3>3. Acknowledged'
      <4>1. ASSUME NEW r \in Requests, dash[r].pc = "delete", dash[r].seen = op.uid
            PROVE  current.phase \in TERMINAL
        BY <1>1, <2>3, <4>1 DEF Acknowledged, Identity
      <4>2. Point' \notin AckedPcs /\ w'.pc \notin AckedPcs \cup BegunPcs \cup {"reject"}
        BY <3>1 DEF AckedPcs, BegunPcs
      <4> QED
        BY <1>1, <2>1, <2>3, <3>1, <4>1, <4>2 DEF Acknowledged
    <3>4. Counts'
      <4>1. Action' = Action /\ \A e \in Effects : Count(e)' = Count(e)
        BY <2>1, <3>1 DEF Action, Count
      <4>2. current'.phase \in Stages => current' = current
        BY <3>1 DEF Stages
      <4> QED
        BY <1>1, <2>1, <2>3, <3>1, <4>1, <4>2 DEF Counts, Effects
    <3> QED
      BY <3>2, <3>3, <3>4
  <2> QED
    BY <2>1, <2>2, <2>3
<1> QED
  BY <1>2, <1>3

\* Steps between acknowledged points that have no effect on the host.
LEMMA BetweenStep ==
  ASSUME TypeOK, Identity, Serial, Acknowledged, Counts, TypeOK',
         FinishLocal \/ MemoryReboot \/ CaptureActivation \/ PackagesInstalled \/ Register
  PROVE  Serial' /\ Acknowledged' /\ Counts'
<1>0. w.pc \in AckedPcs
  BY DEF FinishLocal, MemoryReboot, CaptureActivation, PackagesInstalled, Register, AckedPcs, BegunPcs
<1>a. ASSUME NEW phase \in TERMINAL, NEW caught, Update(To(phase), "end", caught),
             UNCHANGED <<kubeVars, lock, ran>>
      PROVE  Serial' /\ Acknowledged' /\ Counts'
  <2>1. /\ current'.uid = current.uid /\ current'.phase = phase /\ w'.pc = "patch"
        /\ w'.next = "end" /\ Point' = "end"
    BY <1>0, <1>a, UpdateEffect, AckedFacts
  <2>2. Serial' /\ Acknowledged'
    BY <1>0, <1>a, <2>1, CloseStep, AckedFacts DEF kubeVars
  <2>3. Counts'
    BY <1>a, <2>1, RestCounts DEF kubeVars, Stages
  <2> QED
    BY <2>2, <2>3
<1>1. CASE FinishLocal
  BY <1>1, <1>a DEF FinishLocal, hostVars
<1>2. CASE MemoryReboot
  <2>0. Action = "configure-gpu-memory" /\ UNCHANGED <<kubeVars, lock, ran>>
    BY <1>0, <1>2, AckedFacts DEF MemoryReboot, Fits, MemoryPcs
  <2>1. CASE Fail
    BY <2>0, <2>1, <1>a DEF Fail
  <2>2. CASE ~Fail
    <3> DEFINE again == [current EXCEPT !.boot = boot, !.reboots = @ + 1]
    <3>1. Update([again EXCEPT !.phase = "RebootScheduled"], "shutdown", TRUE)
      BY <1>2, <2>0, <2>2 DEF MemoryReboot, SchedulePower, ScheduledPhase
    <3>2. current \in Currents
      BY <1>0, AckedFacts
    <3>3. again.uid = current.uid /\ again.stage = current.stage
          /\ again.reboots = current.reboots + 1 /\ DOMAIN again = DOMAIN current
      BY <3>2 DEF Currents
    <3>4. /\ current'.uid = current.uid /\ current'.phase = "RebootScheduled"
          /\ current'.stage = current.stage /\ current'.reboots = current.reboots + 1
          /\ w'.pc = "patch" /\ w'.next = "shutdown"
      <4>1. current' = [current EXCEPT !.boot = boot, !.reboots = @ + 1, !.phase = "RebootScheduled"]
        BY <3>1, <3>2 DEF Update, Currents
      <4> QED
        BY <3>1, <3>2, <4>1 DEF Update, Currents
    <3>5. /\ current.phase \in Stages /\ Count("shutdown") \in Nat /\ current.reboots \in Nat
          /\ "shutdown" \in Effects
      BY <1>0, <2>0, AckedFacts, CountType DEF Effects, Currents
    <3>6. Count("shutdown") <= current.reboots /\ (Count("ttm") > 0 => current.stage = "ttm")
      BY <2>0, <3>5 DEF Counts
    <3> QED
      BY <1>0, <2>0, <3>4, <3>5, <3>6, ScheduleStep DEF kubeVars
  <2> QED
    BY <2>1, <2>2
<1>3. CASE CaptureActivation
  <2>0. Action = "prepare-gpu" /\ UNCHANGED <<posted, newest, op, dash, lock, ran>>
    BY <1>0, <1>3, AckedFacts DEF CaptureActivation, Fits, PreparePcs, hostVars
  <2>1. CASE Raise /\ UNCHANGED activation
    BY <1>0, <1>3, <2>0, <2>1, AckedFacts, RaiseStep, RaiseCounts
  <2>2. CASE activation' = "before" /\ w' = Goto("packages") /\ UNCHANGED current
    <3>1. Fits("packages") /\ "packages" \in AckedPcs
      BY <2>0 DEF Fits, MemoryPcs, PreparePcs, AckedPcs, BegunPcs
    <3>2. Serial' /\ Acknowledged' /\ Point' = "packages"
      BY <1>0, <2>0, <2>2, <3>1, GotoStep
    <3>3. Counts'
      <4>1. Action' = Action /\ (\A e \in Effects : Count(e)' = Count(e)) /\ Point = "capture"
        BY <1>0, <1>3, <2>0, <2>2, AckedFacts DEF Action, Count, CaptureActivation
      <4> QED
        BY <2>0, <2>2, <3>2, <4>1 DEF Counts, Effects
    <3> QED
      BY <3>2, <3>3
  <2> QED
    BY <1>3, <2>1, <2>2 DEF CaptureActivation
<1>4. CASE PackagesInstalled
  <2>0. /\ Action = "prepare-gpu" /\ UNCHANGED <<kubeVars, lock, ran>>
        /\ Count("shutdown") = 0
    BY <1>0, <1>4, AckedFacts DEF PackagesInstalled, Fits, PreparePcs, Counts
  <2>1. CASE Fail
    BY <2>0, <2>1, <1>a DEF Fail
  <2>2. CASE SchedulePower(current) /\ ~Fail
    <3>1. Update(To("RebootScheduled"), "shutdown", TRUE)
      BY <2>0, <2>2 DEF SchedulePower, ScheduledPhase, To
    <3> QED
      BY <1>0, <2>0, <3>1, AckedFacts, UpdateEffect, ScheduleStep DEF kubeVars
  <2>3. CASE w' = Goto("profile") /\ UNCHANGED current
    <3>1. Fits("profile") /\ "profile" \in AckedPcs
      BY <2>0 DEF Fits, MemoryPcs, PreparePcs, AckedPcs, BegunPcs
    <3>2. Serial' /\ Acknowledged' /\ w'.pc = "profile"
      BY <1>0, <2>0, <2>3, <3>1, GotoStep DEF kubeVars
    <3>3. Counts'
      BY <2>0, <2>3, <3>2, MoveCounts DEF kubeVars
    <3> QED
      BY <3>2, <3>3
  <2> QED
    BY <1>4, <2>1, <2>2, <2>3 DEF PackagesInstalled
<1>5. CASE Register
  <2>0. Action = "prepare-gpu" /\ UNCHANGED <<kubeVars, lock, ran>>
    BY <1>0, <1>5, AckedFacts DEF Register, Fits, PreparePcs
  <2>1. /\ current'.uid = current.uid /\ current'.phase = "Registering"
        /\ current'.stage = current.stage /\ current'.reboots = current.reboots
        /\ w'.pc = "patch" /\ w'.next = "end" /\ Point' = "end"
    <3>1. current' = [current EXCEPT !.phase = "Registering", !.boot = boot] /\ current \in Currents
      BY <1>0, <1>5, AckedFacts DEF Register, Update
    <3>2. /\ current'.uid = current.uid /\ current'.phase = "Registering"
          /\ current'.stage = current.stage /\ current'.reboots = current.reboots
      BY <3>1 DEF Currents
    <3> QED
      BY <1>5, <3>2 DEF Register, Update, Point
  <2>2. Serial'
    <3>1. "Registering" \in PhasesOf(Action)
      BY <2>0 DEF PhasesOf, PowerActions, LocalActions, ServiceActions
    <3> QED
      BY <1>0, <2>0, <2>1, <3>1, AckedFacts, NoPointFits, SerialMove DEF kubeVars
  <2>3. Acknowledged'
    BY <1>0, <2>0, <2>1, AckedFacts DEF Acknowledged, AckedPcs, BegunPcs, kubeVars
  <2>4. Counts'
    BY <1>0, <2>0, <2>1, AckedFacts, RestCounts DEF kubeVars
  <2> QED
    BY <2>2, <2>3, <2>4
<1> QED
  BY <1>1, <1>2, <1>3, <1>4, <1>5

\* A command that fails, before or after its effect.
LEMMA EffectRaise ==
  ASSUME TypeOK, Identity, Serial, Acknowledged, Counts, w.pc \in AckedPcs, Raise,
         UNCHANGED <<posted, newest, op, dash, lock>>,
         \/ UNCHANGED <<ran, activation>>
         \/ \E e \in Effects :
              /\ Ran(current.uid, e)
              /\ e # "activate" => activation' = activation
              /\ e = "activate" => activation' # "before"
              /\ e = "shutdown" /\ Action = "configure-gpu-memory" => Count("shutdown") < current.reboots
              /\ e = "ttm" => current.stage = "ttm"
  PROVE  Serial' /\ Acknowledged' /\ Counts'
<1>1. Serial' /\ Acknowledged'
  BY AckedFacts, RaiseStep
<1>2. /\ current'.uid = current.uid /\ Point' \in {"end", "idle"}
      /\ current'.phase \in Stages => current' = current
  BY AckedFacts, RaiseEffect DEF Point, Stages
<1>3. CASE UNCHANGED <<ran, activation>>
  BY <1>1, <1>3, RaiseCounts
<1>4. CASE ~UNCHANGED <<ran, activation>>
  BY <1>1, <1>2, <1>4, EffectRest
<1> QED
  BY <1>3, <1>4

\* A command that had its effect and whose tick is over.
LEMMA EffectIdle ==
  ASSUME TypeOK, Identity, Serial, Acknowledged, Counts, w.pc \in AckedPcs, w' = Idle,
         UNCHANGED <<posted, newest, op, dash, lock, current, activation>>,
         NEW e \in {"shutdown", "start"}, Ran(current.uid, e),
         e = "shutdown" /\ Action = "configure-gpu-memory" => Count("shutdown") < current.reboots
  PROVE  Serial' /\ Acknowledged' /\ Counts'
<1>1. w'.pc = "idle" /\ Point' = "idle" /\ e \in Effects
  BY DEF Idle, Point, Effects
<1>2. Serial' /\ Acknowledged'
  BY <1>1, IdleStep
<1>3. Counts'
  BY <1>1, EffectRest
<1> QED
  BY <1>2, <1>3

\* The commands of Worker.reconcile, whether they fail or not, keep the
\* invariants of the tick.
LEMMA EffectStep ==
  ASSUME TypeOK, Identity, Serial, Acknowledged, Counts, TypeOK',
         \E error, done \in BOOLEAN :
           \/ Shutdown(error, done) \/ EnableGpuProfile(error, done) \/ StartJob(error, done)
           \/ \E e \in Commands : RunCommand(e, error, done)
  PROVE  Serial' /\ Acknowledged' /\ Counts'
<1>0. w.pc \in AckedPcs
  BY DEF Shutdown, EnableGpuProfile, StartJob, RunCommand, AckedPcs, BegunPcs
<1>1. ASSUME NEW error \in BOOLEAN, NEW done \in BOOLEAN, Shutdown(error, done)
      PROVE  Serial' /\ Acknowledged' /\ Counts'
  <2>1. /\ UNCHANGED <<posted, newest, op, dash, lock, activation>> /\ "shutdown" \in Effects
        /\ w.pc = "shutdown"
    BY <1>1 DEF Shutdown, kubeVars, Effects
  <2>2. Action = "configure-gpu-memory" => Count("shutdown") < current.reboots
    BY <1>0, <2>1, AckedFacts DEF Counts
  <2>3. CASE error
    <3>1. Raise /\ (Ran(current.uid, "shutdown") \/ UNCHANGED ran)
      BY <1>1, <2>3 DEF Shutdown
    <3> QED
      BY <1>0, <2>1, <2>2, <3>1, EffectRaise
  <2>4. CASE ~error
    <3>1. w' = Idle /\ UNCHANGED current /\ Ran(current.uid, "shutdown")
      BY <1>1, <2>4 DEF Shutdown
    <3> QED
      BY <1>0, <2>1, <2>2, <3>1, EffectIdle
  <2> QED
    BY <2>3, <2>4
<1>2. ASSUME NEW error \in BOOLEAN, NEW done \in BOOLEAN, EnableGpuProfile(error, done)
      PROVE  Serial' /\ Acknowledged' /\ Counts'
  <2>1. /\ UNCHANGED <<posted, newest, op, dash, lock>> /\ "activate" \in Effects
        /\ w.pc = "profile" /\ Action = "prepare-gpu" /\ current.phase \in Stages
    BY <1>0, <1>2, AckedFacts DEF EnableGpuProfile, hostVars, Effects, Fits, PreparePcs
  <2>2. ASSUME NEW phase \in TERMINAL, NEW caught, Update(To(phase), "end", caught), UNCHANGED ran
        PROVE  Serial' /\ Acknowledged' /\ Counts'
    <3>1. /\ current'.uid = current.uid /\ current'.phase = phase /\ w'.pc = "patch"
          /\ w'.next = "end" /\ Point' = "end"
      BY <1>0, <2>2, UpdateEffect, AckedFacts
    <3>2. Serial' /\ Acknowledged'
      BY <1>0, <2>1, <3>1, CloseStep, AckedFacts
    <3>3. Counts'
      BY <2>1, <2>2, <3>1, RestCounts DEF Stages
    <3> QED
      BY <3>2, <3>3
  <2>3. CASE current.stage = "unverified" \/ activation # "before"
    BY <1>2, <2>2, <2>3 DEF EnableGpuProfile
  <2>4. CASE ~(current.stage = "unverified" \/ activation # "before")
    <3>1. \/ Ran(current.uid, "activate") /\ activation' = "ours" /\ done
          \/ UNCHANGED <<ran, activation>> /\ error
      BY <1>2, <2>4 DEF EnableGpuProfile
    <3>2. CASE error
      <4>1. Raise
        BY <1>2, <2>4, <3>2 DEF EnableGpuProfile
      <4> QED
        BY <1>0, <2>1, <3>1, <4>1, EffectRaise
    <3>3. CASE ~error
      <4>1. w' = Goto("register") /\ UNCHANGED current /\ activation' = "ours"
            /\ Ran(current.uid, "activate")
        BY <1>2, <2>4, <3>1, <3>3 DEF EnableGpuProfile
      <4>2. Fits("register") /\ "register" \in AckedPcs
        BY <2>1 DEF Fits, MemoryPcs, PreparePcs, AckedPcs, BegunPcs
      <4>3. Serial' /\ Acknowledged' /\ Point' = "register"
        BY <1>0, <2>1, <4>1, <4>2, GotoStep
      <4>4. Counts'
        <5>1. /\ \A f \in Effects : ran'[current.uid][f] = IF f = "activate" THEN Count(f) + 1 ELSE Count(f)
              /\ \A u \in Uids : \A f \in Effects : u > newest => ran'[u][f] = 0
              /\ op.phase # "Pending" /\ Action' = Action
          BY <1>0, <2>1, <4>1, AckedFacts, EffectCounts DEF Action
        <5> QED
          BY <2>1, <4>1, <4>3, <5>1 DEF Counts, Effects, Stages
      <4> QED
        BY <4>3, <4>4
    <3> QED
      BY <3>2, <3>3
  <2> QED
    BY <2>3, <2>4
<1>3. ASSUME NEW error \in BOOLEAN, NEW done \in BOOLEAN, StartJob(error, done)
      PROVE  Serial' /\ Acknowledged' /\ Counts'
  <2>1. UNCHANGED <<posted, newest, op, dash, lock, activation>> /\ "start" \in Effects
    BY <1>3 DEF StartJob, kubeVars, Effects
  <2>2. CASE error
    <3>1. Raise /\ (Ran(current.uid, "start") \/ UNCHANGED ran)
      BY <1>3, <2>2 DEF StartJob
    <3> QED
      BY <1>0, <2>1, <3>1, EffectRaise
  <2>3. CASE ~error
    <3>1. w' = Idle /\ UNCHANGED current /\ Ran(current.uid, "start")
      BY <1>3, <2>3 DEF StartJob
    <3> QED
      BY <1>0, <2>1, <3>1, EffectIdle
  <2> QED
    BY <2>2, <2>3
<1>4. ASSUME NEW e \in Commands, NEW error \in BOOLEAN, NEW done \in BOOLEAN,
             RunCommand(e, error, done)
      PROVE  Serial' /\ Acknowledged' /\ Counts'
  <2>1. /\ UNCHANGED <<posted, newest, op, dash, lock, activation>> /\ w.pc = e
        /\ e \in Effects /\ e \notin {"activate", "shutdown"}
    BY <1>4 DEF RunCommand, kubeVars, hostVars, Effects
  <2>2. e = "ttm" => current.stage = "ttm" /\ Action = "configure-gpu-memory"
    BY <1>0, <2>1, AckedFacts DEF Counts, Fits, MemoryPcs
  <2>3. CASE error
    <3>1. Raise /\ (Ran(current.uid, e) \/ UNCHANGED ran)
      BY <1>4, <2>3 DEF RunCommand
    <3> QED
      BY <1>0, <2>1, <2>2, <3>1, EffectRaise
  <2>4. CASE ~error
    <3>1. /\ w' = Goto(After(e)) /\ UNCHANGED current
          /\ Ran(current.uid, e) \/ (UNCHANGED ran /\ e = "packages")
      BY <1>4, <2>4 DEF RunCommand
    <3>2. Fits(After(e)) /\ After(e) \in AckedPcs /\ After(e) \in {"finish", "prepared", "memreboot"}
          /\ (After(e) = "prepared" => e = "packages")
      BY <1>0, <2>1, AckedFacts DEF After, Fits, MemoryPcs, PreparePcs, AckedPcs, BegunPcs
    <3>3. Serial' /\ Acknowledged' /\ Point' = After(e) /\ w'.pc = After(e)
      BY <1>0, <2>1, <3>1, <3>2, GotoStep
    <3>4. CASE UNCHANGED ran
      <4>1. Counts'
        BY <2>1, <3>1, <3>2, <3>3, <3>4, MoveCounts
      <4> QED
        BY <3>3, <4>1
    <3>5. CASE Ran(current.uid, e)
      <4>1. /\ \A f \in Effects : ran'[current.uid][f] = IF f = e THEN Count(f) + 1 ELSE Count(f)
            /\ \A u \in Uids : \A f \in Effects : u > newest => ran'[u][f] = 0
            /\ op.phase # "Pending" /\ Action' = Action /\ Point = e
        BY <1>0, <2>1, <3>1, <3>5, AckedFacts, EffectCounts DEF Action
      <4>2. \A f \in Effects : Count(f)' = IF f = e THEN Count(f) + 1 ELSE Count(f)
        BY <3>1, <4>1 DEF Count
      <4>3. Counts'
        BY <2>1, <2>2, <3>1, <3>2, <3>3, <4>1, <4>2 DEF Counts, Effects
      <4> QED
        BY <3>3, <4>3
    <3> QED
      BY <3>1, <3>4, <3>5
  <2> QED
    BY <2>3, <2>4
<1> QED
  BY <1>1, <1>2, <1>3, <1>4

\* The dashboard can only remove a resource whose operation is over.
LEMMA DashboardStep ==
  ASSUME TypeOK, Identity, Serial, Acknowledged, Counts, Dashboard
  PROVE  Serial' /\ Acknowledged' /\ Counts'
<1>0. /\ UNCHANGED <<current, w, lock, ran, activation>> /\ Point' = Point
      /\ \A e \in Effects : Count(e)' = Count(e)
      /\ newest \in Nat /\ current.uid \in 0 .. newest /\ dash \in [Requests -> Calls]
  BY Known, BoundsAssumption
  DEF Dashboard, DashGet, DashDelete, DashPost, DashAbort, fileVars, hostVars, Point, Count, TypeOK
<1>a. ASSUME posted' = posted \/ (newest < MaxOps /\ newest' = newest + 1 /\
                                  \A u \in 1 .. newest : posted'[u] = posted[u])
      PROVE  Serial' /\ (current.uid # 0 => Action' = Action)
  <2>1. current.uid # 0 => Action' = Action
    BY <1>0, <1>a DEF Action
  <2>2. current.uid = 0 => w.pc = "idle" /\ Point = "idle"
    BY DEF Serial, Point
  <2>3. Fits(Point)'
    <3>1. CASE current.uid = 0
      BY <1>0, <2>2, <3>1 DEF Fits, MemoryPcs, PreparePcs
    <3>2. CASE current.uid # 0
      BY <1>0, <2>1, <3>2 DEF Serial, Fits
    <3> QED
      BY <3>1, <3>2
  <2> QED
    BY <1>0, <2>1, <2>3 DEF Serial
<1>1. ASSUME NEW r \in Requests, NEW a \in Actions, DashGet(r, a)
      PROVE  Serial' /\ Acknowledged' /\ Counts'
  <2>1. UNCHANGED <<posted, newest, op>>
    BY <1>1 DEF DashGet
  <2>2. Serial' /\ Action' = Action
    BY <1>0, <1>a, <2>1 DEF Action
  <2>3. Acknowledged'
    <3>1. \A s \in Requests : dash'[s].pc = "delete" /\ dash'[s].seen = op.uid => op.phase \in TERMINAL
      BY <1>0, <1>1 DEF DashGet, Acknowledged
    <3> QED
      BY <1>0, <2>1, <2>2, <3>1 DEF Acknowledged
  <2>4. Counts'
    BY <1>0, <2>1, <2>2 DEF Counts, Effects
  <2> QED
    BY <2>2, <2>3, <2>4
<1>2. ASSUME NEW r \in Requests, DashDelete(r) PROVE Serial' /\ Acknowledged' /\ Counts'
  <2>1. /\ UNCHANGED <<posted, newest>> /\ op' \in {op, NoOp}
        /\ op' = NoOp => op' = op \/ op.phase \in TERMINAL
        /\ \A s \in Requests : dash'[s].pc = "delete" => dash'[s] = dash[s]
    BY <1>0, <1>2 DEF DashDelete, Acknowledged, Calls, NoDash
  <2>2. Serial' /\ Action' = Action
    BY <1>0, <1>a, <2>1 DEF Action
  <2>3. Acknowledged'
    <3>1. CASE op' = op
      BY <1>0, <2>1, <2>2, <3>1 DEF Acknowledged
    <3>2. CASE op' = NoOp /\ op.phase \in TERMINAL
      <4>1. w.pc \notin AckedPcs \cup BegunPcs /\ op'.uid = 0
        BY <3>2 DEF Acknowledged, NoOp
      <4>2. \A s \in Requests : dash'[s].pc = "delete" => dash'[s].seen # 0
        BY <2>1 DEF Identity
      <4> QED
        BY <1>0, <2>1, <2>2, <3>2, <4>1, <4>2 DEF Acknowledged
    <3> QED
      BY <2>1, <3>1, <3>2
  <2>4. Counts'
    BY <1>0, <2>1, <2>2 DEF Counts, Effects, NoOp
  <2> QED
    BY <2>2, <2>3, <2>4
<1>3. ASSUME NEW r \in Requests, DashPost(r) PROVE Serial' /\ Acknowledged' /\ Counts'
  <2>1. \A s \in Requests : dash'[s].pc = "delete" => dash'[s] = dash[s]
    BY <1>0, <1>3 DEF DashPost, NoDash
  <2>2. CASE op.uid # 0
    <3>1. UNCHANGED <<posted, newest, op>>
      BY <1>3, <2>2 DEF DashPost
    <3>2. Serial' /\ Action' = Action
      BY <1>0, <1>a, <3>1 DEF Action
    <3>3. Acknowledged'
      BY <1>0, <2>1, <3>1, <3>2 DEF Acknowledged
    <3>4. Counts'
      BY <1>0, <3>1, <3>2 DEF Counts, Effects
    <3> QED
      BY <3>2, <3>3, <3>4
  <2>3. CASE op.uid = 0
    <3>1. /\ newest' = newest + 1 /\ newest < MaxOps /\ op'.uid = newest + 1 /\ op'.phase = "Pending"
          /\ \A u \in 1 .. newest : posted'[u] = posted[u]
      <4>1. /\ newest' = newest + 1 /\ newest < MaxOps /\ op'.uid = newest + 1 /\ op'.phase = "Pending"
            /\ posted' = [posted EXCEPT ![newest + 1] = dash[r].spec]
        BY <1>3, <2>3 DEF DashPost
      <4>2. posted \in [Uids -> Specs \cup {NoSpec}] /\ \A u \in 1 .. newest : u \in Uids /\ u # newest + 1
        BY <1>0, <4>1, BoundsAssumption DEF TypeOK, Uids
      <4> QED
        BY <4>1, <4>2
    <3>2. Serial' /\ (current.uid # 0 => Action' = Action)
      BY <1>a, <3>1
    <3>3. Acknowledged'
      <4>1. w.pc \notin AckedPcs \cup BegunPcs
        <5>1. w.pc # "idle" => current.uid # 0
          BY DEF Serial
        <5> QED
          BY <2>3, <5>1 DEF Acknowledged, AckedPcs, BegunPcs
      <4>2. op'.uid # current.uid
        BY <1>0, <3>1
      <4>3. \A s \in Requests : dash'[s].pc = "delete" => dash'[s].seen # op'.uid
        <5>1. \A s \in Requests : dash[s].seen \in Nat /\ dash[s].seen <= newest
          BY <1>0, BoundsAssumption DEF Calls, Identity
        <5> QED
          BY <1>0, <2>1, <3>1, <5>1
      <4> QED
        BY <1>0, <3>1, <3>2, <4>1, <4>2, <4>3 DEF Acknowledged
    <3>4. Counts'
      <4>1. newest + 1 \in Uids /\ newest + 1 > newest
        BY <1>0, <3>1, BoundsAssumption DEF Uids
      <4>2. \A u \in Uids : u > newest + 1 => u > newest
        BY <1>0, BoundsAssumption DEF Uids
      <4>3. current.uid = 0 => Point = "idle" /\ current.phase = "none"
        BY DEF Serial, Point, Identity
      <4> QED
        BY <1>0, <3>1, <3>2, <4>1, <4>2, <4>3 DEF Counts, Effects, Stages
    <3> QED
      BY <3>2, <3>3, <3>4
  <2> QED
    BY <2>2, <2>3
<1>4. ASSUME NEW r \in Requests, DashAbort(r) PROVE Serial' /\ Acknowledged' /\ Counts'
  <2>1. /\ UNCHANGED <<posted, newest, op>>
        /\ \A s \in Requests : dash'[s].pc = "delete" => dash'[s] = dash[s]
    BY <1>0, <1>4 DEF DashAbort, NoDash
  <2>2. Serial' /\ Action' = Action
    BY <1>0, <1>a, <2>1 DEF Action
  <2>3. Acknowledged'
    BY <1>0, <2>1, <2>2 DEF Acknowledged
  <2>4. Counts'
    BY <1>0, <2>1, <2>2 DEF Counts, Effects
  <2> QED
    BY <2>2, <2>3, <2>4
<1> QED
  BY <1>1, <1>2, <1>3, <1>4 DEF Dashboard

\* Services and the environment leave the points of the tick alone.
LEMMA OutsideStep ==
  ASSUME TypeOK, Identity, Serial, Acknowledged, Counts, Services \/ Environment
  PROVE  Serial' /\ Acknowledged' /\ Counts'
<1>0. /\ newest \in Nat /\ UNCHANGED <<posted, newest, dash>>
      /\ ran \in [Uids -> [Effects -> Nat]] /\ approved \in [ServiceActions -> 0 .. MaxOps]
  BY BoundsAssumption
  DEF TypeOK, Services, Environment, StartService, RefuseService, FinishService, Reboot,
      KubeletPublishes, CrashWorker, LoseState, TimePasses, AdminShutdown, AdminActivation,
      kubeVars
\* Nothing the three invariants speak of has changed.
<1>a. ASSUME UNCHANGED <<op, current, w>>, w.pc = "idle" \/ lock' = lock,
             ran' = ran, activation' \in {activation, "other"}
      PROVE  Serial' /\ Acknowledged' /\ Counts'
  <2>1. Action' = Action /\ Point' = Point /\ \A e \in Effects : Count(e)' = Count(e)
    BY <1>0, <1>a DEF Action, Point, Count
  <2>2. Serial'
    BY <1>0, <1>a, <2>1, SerialMove DEF Serial
  <2>3. Acknowledged'
    BY <1>0, <1>a, <2>1 DEF Acknowledged
  <2>4. Counts'
    BY <1>0, <1>a, <2>1 DEF Counts, Effects
  <2> QED
    BY <2>2, <2>3, <2>4
<1>1. ASSUME NEW a \in ServiceActions, StartService(a) PROVE Serial' /\ Acknowledged' /\ Counts'
  <2>1. UNCHANGED <<op, current, w, activation>> /\ w.pc = "idle" /\ Ran(approved[a], "service")
        /\ approved[a] \in Uids /\ approved[a] <= newest
    BY <1>0, <1>1, BoundsAssumption DEF StartService, MayRun, kubeVars, Uids, Identity
  <2>2. /\ \A u \in Uids : \A e \in Effects \ {"service"} : ran'[u][e] = ran[u][e]
        /\ \A u \in Uids : u # approved[a] => ran'[u] = ran[u]
    BY <1>0, <2>1 DEF Ran, Effects
  <2>3. /\ Action' = Action /\ Point' = "idle" /\ Point = "idle"
        /\ current.uid # 0 => \A e \in Effects \ {"service"} : Count(e)' = Count(e)
        /\ op.uid # 0 => op.uid \in Uids
    BY <1>0, <2>1, <2>2, Known, BoundsAssumption DEF Action, Point, Count, Uids
  <2>4. Serial'
    BY <1>0, <2>1, <2>3, SerialMove, NoPointFits DEF Serial
  <2>5. Acknowledged'
    BY <1>0, <2>1, <2>3 DEF Acknowledged
  <2>6. Counts'
    <3>1. \A u \in Uids : \A e \in Effects : u > newest => ran'[u][e] = 0
      <4>1. \A u \in Uids : u > newest => u # approved[a]
        BY <1>0, <2>1, BoundsAssumption DEF Uids
      <4> QED
        BY <2>2, <4>1 DEF Counts
    <3>2. op.uid # 0 /\ op.phase = "Pending" =>
            \A e \in Effects \ {"service"} : ran'[op.uid][e] = 0
      BY <2>2, <2>3 DEF Counts
    <3>3. current.uid = 0 => current.phase = "none"
      BY DEF Identity
    <3> QED
      BY <1>0, <2>1, <2>3, <3>1, <3>2, <3>3 DEF Counts, Effects, Stages
  <2> QED
    BY <2>4, <2>5, <2>6
<1>2. ASSUME NEW a \in ServiceActions, RefuseService(a) PROVE Serial' /\ Acknowledged' /\ Counts'
  BY <1>2, <1>a DEF RefuseService, kubeVars
<1>3. ASSUME NEW a \in ServiceActions, NEW published \in BOOLEAN,
             NEW phase \in {"Succeeded", "Failed", "Interrupted", "RolledBack"},
             FinishService(a, phase, published)
      PROVE  Serial' /\ Acknowledged' /\ Counts'
  <2>0. /\ w.pc = "idle" /\ UNCHANGED <<current, w, activation, ran>>
    BY <1>3 DEF FinishService, Serial, ServiceActions
  <2>1. CASE ~published
    BY <1>3, <2>0, <2>1, <1>a DEF FinishService
  <2>2. CASE published
    <3>1. /\ op'.uid = op.uid /\ op'.phase = phase /\ op.uid = approved[a]
          /\ a = "configure-network" /\ phase \in TERMINAL
      BY <1>3, <2>2 DEF FinishService, TypeOK
    <3>2. Action' = Action /\ Point' = "idle" /\ Point = "idle" /\ \A e \in Effects : Count(e)' = Count(e)
      BY <1>0, <2>0 DEF Action, Point, Count
    <3>3. Serial'
      BY <1>0, <2>0, <3>2, SerialMove, NoPointFits DEF Serial
    <3>4. Acknowledged'
      <4>1. op.uid # 0 /\ op.uid = current.uid => current.phase \in TERMINAL \cup {"Applying", "Accepted"}
        <5>1. op.uid # 0 /\ op.uid = current.uid => Action = "configure-network"
          BY <3>1 DEF Identity, Action
        <5>2. PhasesOf("configure-network") = {"Applying"}
          BY DEF PhasesOf, PowerActions, LocalActions, ServiceActions
        <5> QED
          BY <5>1, <5>2 DEF Serial
      <4>2. w'.pc = "idle" /\ Point' \notin AckedPcs /\ op'.phase # "Pending"
            /\ w'.pc \notin AckedPcs \cup BegunPcs \cup {"reject", "patch"}
        BY <2>0, <3>1, <3>2 DEF AckedPcs, BegunPcs
      <4> QED
        BY <1>0, <2>0, <3>1, <4>1, <4>2 DEF Acknowledged
    <3>5. Counts'
      BY <1>0, <2>0, <3>1, <3>2 DEF Counts, Effects
    <3> QED
      BY <3>3, <3>4, <3>5
  <2> QED
    BY <2>1, <2>2
<1>4. CASE Reboot \/ CrashWorker
  <2>1. w'.pc = "idle" /\ Point' = "idle" /\ UNCHANGED <<op, current, ran, activation>>
    BY <1>4 DEF Reboot, CrashWorker, Idle, Point, kubeVars, fileVars
  <2>2. Serial' /\ Acknowledged'
    BY <1>0, <2>1, IdleStep
  <2>3. Counts'
    BY <1>0, <2>1, RestCounts
  <2> QED
    BY <2>2, <2>3
<1>5. CASE LoseState
  <2>1. /\ w.pc = "idle" /\ UNCHANGED <<op, w, lock, ran, activation>> /\ Point' = "idle"
        /\ current'.uid = 0 /\ current'.phase = "none"
    BY <1>5 DEF LoseState, kubeVars, hostVars, NoCurrent, Point
  <2>2. Serial'
    BY <2>1, NoPointFits DEF Serial, Fits, MemoryPcs, PreparePcs
  <2>3. Acknowledged'
    BY <1>0, <2>1 DEF Acknowledged, AckedPcs, BegunPcs
  <2>4. Counts'
    BY <1>0, <2>1 DEF Counts, Effects, Stages
  <2> QED
    BY <2>2, <2>3, <2>4
<1>6. CASE KubeletPublishes \/ TimePasses \/ AdminShutdown \/ AdminActivation
  BY <1>6, <1>a
  DEF KubeletPublishes, TimePasses, AdminShutdown, AdminActivation, kubeVars, fileVars, hostVars
<1> QED
  BY <1>1, <1>2, <1>3, <1>4, <1>5, <1>6 DEF Services, Environment

\* Uids are given out in order, and everything refers to one that exists.
LEMMA IdentityStep ==
  ASSUME TypeOK, Identity, Serial, TypeOK', Next
  PROVE  Identity'
<1>0. /\ current \in Currents /\ newest \in Nat /\ dash \in [Requests -> Calls]
      /\ posted \in [Uids -> Specs \cup {NoSpec}] /\ approved \in [ServiceActions -> 0 .. MaxOps]
      /\ op.uid \in {0, newest} /\ current.uid \in 0 .. newest /\ newest <= MaxOps
      /\ w.pc # "idle" => current.uid # 0
  BY Known, BoundsAssumption DEF TypeOK
\* A step of the worker that writes a phase of the operation it has.
<1>a. ASSUME UNCHANGED <<posted, newest, op, dash, approved>>, current.uid # 0,
             NEW next, NEW caught,
             \/ \E phase \in Phases : Update(To(phase), next, caught)
             \/ Update(current, next, caught)
             \/ \E phase \in Phases, stage \in {"uma", "ttm", "profile", "unverified"} :
                  Update([current EXCEPT !.phase = phase, !.stage = stage], next, caught)
             \/ \E phase \in Phases :
                  Update([current EXCEPT !.phase = phase, !.boot = boot], next, caught)
      PROVE  Identity'
  <2>1. current'.uid = current.uid
    BY <1>0, <1>a DEF Update, To, Currents
  <2>2. current.phase # "none"
    BY <1>0, <1>a DEF Identity
  <2>3. "none" \notin Phases
    BY DEF Phases
  <2>4. current'.phase # "none"
    <3>1. ASSUME NEW phase \in Phases, current' = To(phase) PROVE current'.phase # "none"
      BY <1>0, <2>3, <3>1 DEF To, Currents
    <3>2. ASSUME NEW phase \in Phases, NEW stage, current' = [current EXCEPT !.phase = phase, !.stage = stage]
          PROVE  current'.phase # "none"
      BY <1>0, <2>3, <3>2 DEF Currents
    <3>3. ASSUME NEW phase \in Phases, current' = [current EXCEPT !.phase = phase, !.boot = boot]
          PROVE  current'.phase # "none"
      BY <1>0, <2>3, <3>3 DEF Currents
    <3> QED
      BY <1>a, <2>2, <3>1, <3>2, <3>3 DEF Update
  <2> QED
    BY <1>0, <1>a, <2>1, <2>2, <2>4 DEF Identity
<1>b. ASSUME UNCHANGED <<posted, newest, dash, approved>>, op'.uid = op.uid, w.pc # "idle", Raise
      PROVE  Identity'
  <2>1. current'.uid = current.uid /\ (current' = current \/ current'.phase = "Failed")
    BY <1>0, <1>b, RaiseEffect
  <2> QED
    BY <1>0, <1>b, <2>1 DEF Identity
<1>c. ASSUME UNCHANGED <<posted, newest, dash, current>>, op'.uid = op.uid,
             \A a \in ServiceActions : approved'[a] \in {0, approved[a]}
      PROVE  Identity'
  BY <1>0, <1>c DEF Identity
<1>1. ASSUME NEW r \in Requests, NEW a \in Actions, DashGet(r, a) PROVE Identity'
  <2>1. [req |-> r, action |-> a, boot |-> nodeBoot] \in Specs
    BY DEF TypeOK, Specs
  <2>2. \A s \in Requests : s # r => dash'[s] = dash[s]
    BY <1>0, <1>1 DEF DashGet
  <2>3. /\ dash'[r].seen = op.uid /\ dash'[r].spec \in Specs
        /\ dash'[r].pc = "delete" => op.uid # 0
    BY <1>0, <1>1, <2>1 DEF DashGet
  <2> QED
    BY <1>0, <1>1, <2>2, <2>3 DEF DashGet, fileVars, Identity
<1>2. ASSUME NEW r \in Requests, DashDelete(r) PROVE Identity'
  <2>1. \A s \in Requests : s # r => dash'[s] = dash[s]
    BY <1>0, <1>2 DEF DashDelete
  <2>2. \/ dash'[r] = NoDash
        \/ dash'[r].pc = "post" /\ dash'[r].seen = dash[r].seen /\ dash'[r].spec = dash[r].spec
    BY <1>0, <1>2 DEF DashDelete, Calls
  <2>3. op'.uid \in {0, newest} /\ UNCHANGED <<posted, newest, current, approved>>
    BY <1>0, <1>2 DEF DashDelete, fileVars, NoOp
  <2>4. \A s \in Requests :
          /\ dash'[s].seen <= newest
          /\ dash'[s].pc # "idle" => dash'[s].spec \in Specs
          /\ dash'[s].pc = "delete" => dash'[s].seen # 0
    BY <1>0, <1>2, <2>1, <2>2 DEF NoDash, Identity, DashDelete
  <2> QED
    BY <1>0, <2>3, <2>4 DEF Identity
<1>3. ASSUME NEW r \in Requests, DashPost(r) PROVE Identity'
  <2>1. \A s \in Requests : dash'[s] = dash[s] \/ dash'[s] = NoDash
    BY <1>0, <1>3 DEF DashPost
  <2>2. /\ UNCHANGED <<current, approved>> /\ dash[r].spec \in Specs
    BY <1>3 DEF DashPost, fileVars, Identity
  <2>3. newest' >= newest /\ newest' \in Nat /\ op'.uid \in {0, newest'}
    BY <1>0, <1>3 DEF DashPost
  <2>4. \A u \in 1 .. newest' : posted'[u] \in Specs /\ (u <= newest => posted'[u] = posted[u])
    <3>1. CASE op.uid # 0
      BY <1>3, <3>1 DEF DashPost, Identity
    <3>2. CASE op.uid = 0
      <4>1. /\ newest' = newest + 1 /\ newest < MaxOps
            /\ posted' = [posted EXCEPT ![newest + 1] = dash[r].spec]
        BY <1>3, <3>2 DEF DashPost
      <4>2. \A u \in 1 .. newest + 1 : u \in Uids /\ (u # newest + 1 => u \in 1 .. newest)
        BY <1>0, <4>1, BoundsAssumption DEF Uids
      <4> QED
        BY <1>0, <2>2, <4>1, <4>2 DEF Identity
    <3> QED
      BY <3>1, <3>2
  <2>5. \A s \in Requests :
          /\ dash'[s].seen <= newest'
          /\ dash'[s].pc # "idle" => dash'[s].spec \in Specs
          /\ dash'[s].pc = "delete" => dash'[s].seen # 0
    <3>1. \A s \in Requests : dash[s].seen \in Nat
      BY <1>0, BoundsAssumption DEF Calls
    <3> QED
      BY <1>0, <2>1, <2>3, <3>1 DEF NoDash, Identity
  <2>6. \A a \in ServiceActions :
          approved[a] <= newest' /\ (approved[a] # 0 => posted'[approved[a]].action = a)
    <3>1. \A a \in ServiceActions : approved[a] \in Nat /\ approved[a] <= newest
      BY <1>0, BoundsAssumption DEF Identity
    <3> QED
      BY <1>0, <2>3, <2>4, <3>1 DEF Identity
  <2>7. current.uid <= newest'
    BY <1>0, <2>3
  <2> QED
    BY <2>2, <2>3, <2>4, <2>5, <2>6, <2>7 DEF Identity
<1>4. ASSUME NEW r \in Requests, DashAbort(r) PROVE Identity'
  BY <1>0, <1>4 DEF Identity, DashAbort, NoDash, fileVars
<1>5. ASSUME NEW valid \in BOOLEAN, Accept(valid) PROVE Identity'
  BY <1>0, <1>5 DEF Identity, Accept, CanTick, kubeVars
<1>6. CASE Reacknowledge
  BY <1>0, <1>6, <1>a DEF Reacknowledge, Resume, CanTick, Fail, ApplyDynamicMemory, kubeVars
<1>7. CASE InterruptUnfinished
  BY <1>0, <1>7, <1>a DEF InterruptUnfinished, Resume, CanTick, Fail, ApplyDynamicMemory, kubeVars
<1>8. CASE NoBoot
  BY <1>0, <1>8, <1>a DEF NoBoot, Resume, CanTick, Fail, ApplyDynamicMemory, kubeVars
<1>9. CASE VerifyMemory
  BY <1>0, <1>9, <1>a DEF VerifyMemory, Resume, CanTick, Fail, ApplyDynamicMemory, kubeVars
<1>10. CASE ReconcileService
  BY <1>0, <1>10, <1>a DEF ReconcileService, Resume, CanTick, Fail, ApplyDynamicMemory, kubeVars
<1>11. ASSUME NEW kernel \in BOOLEAN, ObserveBoot(kernel)
      PROVE  Identity'
  BY <1>0, <1>11, <1>a DEF ObserveBoot, Resume, CanTick, Fail, ApplyDynamicMemory, kubeVars
<1>12. ASSUME NEW evidence \in BOOLEAN, VerifyRegistration(evidence)
      PROVE  Identity'
  BY <1>0, <1>12, <1>a DEF VerifyRegistration, Resume, CanTick, Fail, ApplyDynamicMemory, kubeVars
<1>13. ASSUME NEW ready \in BOOLEAN, VerifyPrepare(ready) PROVE Identity'
  <2>1. CASE ready
    BY <1>0, <1>13, <2>1, <1>c DEF VerifyPrepare, kubeVars
  <2>2. CASE ~ready
    BY <1>0, <1>13, <2>2, <1>a DEF VerifyPrepare, Resume, CanTick, Fail, kubeVars
  <2> QED
    BY <2>1, <2>2
<1>14. CASE Reject
  BY <1>0, <1>14, <1>a DEF Reject, kubeVars
<1>15. CASE BeginRefused
  BY <1>0, <1>15, <1>a DEF BeginRefused, Begin, Fail, ApplyDynamicMemory, kubeVars
<1>16. CASE BeginLocal
  BY <1>0, <1>16, <1>a DEF BeginLocal, Begin, Fail, ApplyDynamicMemory, kubeVars
<1>17. CASE QueueService
  BY <1>0, <1>17, <1>a DEF QueueService, kubeVars
<1>18. CASE BeginMemory
  BY <1>0, <1>18, <1>a DEF BeginMemory, Begin, Fail, ApplyDynamicMemory, kubeVars
<1>19. CASE BeginPrepare
  BY <1>0, <1>19, <1>a DEF BeginPrepare, Begin, Fail, ApplyDynamicMemory, kubeVars
<1>20. CASE FinishLocal
  BY <1>0, <1>20, <1>a DEF FinishLocal, kubeVars
<1>21. CASE Register
  BY <1>0, <1>21, <1>a DEF Register, kubeVars
<1>22. CASE BeginPower
  BY <1>0, <1>22, <1>a DEF BeginPower, SchedulePower, Begin, Fail, ScheduledPhase, To, kubeVars
<1>23. CASE BeginService
  <2>1. /\ UNCHANGED <<posted, newest, op, dash, current>> /\ current.uid # 0
        /\ approved' = [approved EXCEPT ![Action] = current.uid]
    BY <1>0, <1>23 DEF BeginService, Begin, kubeVars
  <2>2. \A a \in ServiceActions :
          approved'[a] <= newest /\ (approved'[a] # 0 => posted[approved'[a]].action = a)
    BY <1>0, <2>1 DEF Identity, Action
  <2> QED
    BY <2>1, <2>2 DEF Identity
<1>24. CASE MemoryReboot
  <2>1. /\ UNCHANGED <<posted, newest, op, dash, approved>> /\ current.uid # 0
        /\ \/ Fail
           \/ current' = [[current EXCEPT !.boot = boot, !.reboots = @ + 1] EXCEPT !.phase = ScheduledPhase]
    BY <1>0, <1>24 DEF MemoryReboot, SchedulePower, Update, kubeVars
  <2>2. current'.uid = current.uid /\ current'.phase # "none"
    BY <1>0, <2>1 DEF Fail, Update, To, Currents, ScheduledPhase
  <2> QED
    BY <1>0, <2>1, <2>2 DEF Identity
<1>25. CASE PackagesInstalled
  BY <1>0, <1>25, <1>a, <1>c DEF PackagesInstalled, SchedulePower, Fail, ScheduledPhase, To, kubeVars
<1>26. CASE CaptureActivation
  BY <1>0, <1>26, <1>b, <1>c DEF CaptureActivation
<1>27. CASE PatchOk
  BY <1>0, <1>27, <1>c DEF PatchOk, fileVars
<1>28. ASSUME NEW stored \in BOOLEAN, PatchError(stored) PROVE Identity'
  <2>1. op'.uid = op.uid
    BY <1>28 DEF PatchError, TypeOK
  <2> QED
    BY <1>28, <2>1, <1>b DEF PatchError
<1>29. ASSUME NEW error \in BOOLEAN, NEW done \in BOOLEAN,
              Shutdown(error, done) \/ StartJob(error, done)
       PROVE  Identity'
  BY <1>29, <1>b, <1>c DEF Shutdown, StartJob, kubeVars
<1>30. ASSUME NEW error \in BOOLEAN, NEW done \in BOOLEAN, NEW e \in Commands,
              RunCommand(e, error, done)
       PROVE  Identity'
  <2>1. w.pc # "idle" /\ UNCHANGED <<posted, newest, op, dash, approved>>
    BY <1>30 DEF RunCommand, kubeVars
  <2> QED
    BY <1>30, <2>1, <1>b, <1>c DEF RunCommand
<1>31. ASSUME NEW error \in BOOLEAN, NEW done \in BOOLEAN, EnableGpuProfile(error, done)
       PROVE  Identity'
  <2>1. w.pc # "idle" /\ UNCHANGED <<posted, newest, op, dash, approved>>
    BY <1>31 DEF EnableGpuProfile
  <2> QED
    BY <1>0, <1>31, <2>1, <1>a, <1>b, <1>c DEF EnableGpuProfile
<1>32. ASSUME NEW a \in ServiceActions, StartService(a)
      PROVE  Identity'
  BY <1>0, <1>32, <1>c DEF StartService, kubeVars, fileVars
<1>33. ASSUME NEW a \in ServiceActions, RefuseService(a)
      PROVE  Identity'
  BY <1>0, <1>33, <1>c DEF RefuseService, kubeVars, fileVars
<1>34. ASSUME NEW a \in ServiceActions, NEW phase \in {"Succeeded", "Failed", "Interrupted", "RolledBack"}, NEW published \in BOOLEAN, FinishService(a, phase, published)
      PROVE  Identity'
  BY <1>0, <1>34, <1>c DEF FinishService, kubeVars, fileVars
<1>35. CASE Reboot
  BY <1>0, <1>35, <1>c DEF Reboot, kubeVars, fileVars
<1>36. CASE KubeletPublishes
  BY <1>0, <1>36, <1>c DEF KubeletPublishes, kubeVars, fileVars
<1>37. CASE CrashWorker
  BY <1>0, <1>37, <1>c DEF CrashWorker, kubeVars, fileVars
<1>38. CASE TimePasses
  BY <1>0, <1>38, <1>c DEF TimePasses, kubeVars, fileVars
<1>39. CASE AdminShutdown
  BY <1>0, <1>39, <1>c DEF AdminShutdown, kubeVars, fileVars
<1>40. CASE AdminActivation
  BY <1>0, <1>40, <1>c DEF AdminActivation, kubeVars, fileVars
<1>41. CASE LoseState
  BY <1>0, <1>41 DEF LoseState, NoCurrent, kubeVars, Identity
<1> QED
  BY <1>1, <1>2, <1>3, <1>4, <1>5, <1>6, <1>7, <1>8, <1>9, <1>10, <1>11, <1>12, <1>13, <1>14,
     <1>15, <1>16, <1>17, <1>18, <1>19, <1>20, <1>21, <1>22, <1>23, <1>24, <1>25, <1>26,
     <1>27, <1>28, <1>29, <1>30, <1>31, <1>32, <1>33, <1>34, <1>35, <1>36, <1>37, <1>38,
     <1>39, <1>40, <1>41
  DEF Next, Dashboard, Tick, Continue, Services, Environment

-----------------------------------------------------------------------------
(* The services.                                                           *)

\* A service never finds an approval that it has already run.
LEMMA ServiceFresh ==
  ASSUME TypeOK, Identity, ServiceOnce, NEW a \in ServiceActions, StartService(a)
  PROVE  /\ approved[a] \in 1 .. newest /\ approved[a] \in Uids
         /\ posted[approved[a]].action = a /\ ran[approved[a]]["service"] = 0
<1>1. /\ approved[a] \in 1 .. newest /\ approved[a] \in Uids /\ posted[approved[a]].action = a
  BY BoundsAssumption DEF TypeOK, Identity, StartService, MayRun, Uids
<1>2. ran[approved[a]]["service"] \in Nat
  BY <1>1 DEF TypeOK, Effects
<1>3. ASSUME ran[approved[a]]["service"] > 0 PROVE FALSE
  <2>1. CASE a = "configure-network"
    BY <1>1, <1>3, <2>1 DEF ServiceOnce, StartService
  <2>2. CASE a # "configure-network"
    <3>1. result[a].req = posted[approved[a]].req
      BY <1>1, <1>3, <2>2 DEF ServiceOnce
    <3>2. a \in {"install-updates", "apply-software-channel"}
      BY <2>2 DEF ServiceActions
    <3> QED
      BY <3>1, <3>2 DEF StartService, MayRun
  <2> QED
    BY <2>1, <2>2
<1> QED
  BY <1>1, <1>2, <1>3

\* Every step keeps ServiceOnce: an approval that was run is not run again
\* (the guards of host_updates, software_channel and network_apply).
LEMMA ServiceStep ==
  ASSUME TypeOK, Identity, Serial, Acknowledged, Counts, ServiceOnce, Next
  PROVE  ServiceOnce'
<1>0. /\ newest \in Nat /\ newest <= MaxOps /\ ran \in [Uids -> [Effects -> Nat]]
      /\ approved \in [ServiceActions -> 0 .. MaxOps] /\ "service" \in Effects
      /\ \A u \in 1 .. newest : u \in Uids
      /\ w.pc # "idle" => current.uid \in Uids
  <2>1. w.pc # "idle" => current.uid \in Uids
    BY Known
  <2>2. newest \in Nat /\ newest <= MaxOps /\ \A u \in 1 .. newest : u \in Uids
    BY BoundsAssumption DEF TypeOK, Uids
  <2> QED
    BY <2>1, <2>2 DEF TypeOK, Effects
\* The worker runs no service, and it never makes a status Pending again.
<1>a. ASSUME UNCHANGED <<posted, newest, approved, result, lock>>,
             op'.uid # op.uid => op'.uid = 0, op'.phase = "Pending" => op'.uid = 0 \/ op.phase = "Pending",
             \/ ran' = ran
             \/ current.uid \in Uids /\ \E e \in Effects \ {"service"} : Ran(current.uid, e)
      PROVE  ServiceOnce'
  <2>1. \A u \in 1 .. newest : ran'[u]["service"] = ran[u]["service"]
    <3>1. CASE ran' = ran
      BY <3>1
    <3>2. ASSUME current.uid \in Uids, NEW e \in Effects \ {"service"}, Ran(current.uid, e)
          PROVE  \A u \in 1 .. newest : ran'[u]["service"] = ran[u]["service"]
      BY <1>0, <3>2 DEF Ran
    <3> QED
      BY <1>a, <3>1, <3>2
  <2> QED
    BY <1>0, <1>a, <2>1 DEF ServiceOnce
<1>1. CASE Dashboard
  <2>1. ASSUME NEW r \in Requests, DashPost(r) PROVE ServiceOnce'
    <3>1. CASE op.uid # 0
      BY <1>a, <2>1, <3>1 DEF DashPost, fileVars, hostVars
    <3>2. CASE op.uid = 0
      <4>1. /\ newest' = newest + 1 /\ newest < MaxOps /\ op'.uid = newest + 1
            /\ posted' = [posted EXCEPT ![newest + 1] = dash[r].spec]
            /\ UNCHANGED <<approved, result, lock, ran>>
        BY <2>1, <3>2 DEF DashPost, fileVars, hostVars
      <4>2. newest + 1 \in Uids /\ newest + 1 > newest
        BY <1>0, <4>1, BoundsAssumption DEF Uids
      <4>3. ran[newest + 1]["service"] = 0
        BY <1>0, <4>2 DEF Counts
      <4>4. \A u \in 1 .. newest' : u # newest + 1 => u \in 1 .. newest /\ posted'[u] = posted[u]
        BY <1>0, <4>1 DEF TypeOK
      <4>5. ASSUME NEW u \in 1 .. newest', ran[u]["service"] > 0
            PROVE  u \in 1 .. newest /\ posted'[u] = posted[u] /\ op'.uid # u
        <5>1. u # newest + 1
          BY <4>3, <4>5
        <5>2. u \in 1 .. newest /\ posted'[u] = posted[u]
          BY <4>4, <4>5, <5>1
        <5> QED
          BY <1>0, <4>1, <5>1, <5>2
      <4> QED
        BY <4>1, <4>5 DEF ServiceOnce
    <3> QED
      BY <3>1, <3>2
  <2>2. ASSUME NEW r \in Requests,
               (\E a \in Actions : DashGet(r, a)) \/ DashDelete(r) \/ DashAbort(r)
        PROVE  ServiceOnce'
    BY <1>a, <2>2 DEF DashGet, DashDelete, DashAbort, NoOp, fileVars, hostVars
  <2> QED
    BY <1>1, <2>1, <2>2 DEF Dashboard
<1>2. CASE Tick
  BY <1>2, <1>a DEF Tick, Accept, Reacknowledge, InterruptUnfinished, NoBoot, VerifyMemory,
    ReconcileService, ObserveBoot, VerifyPrepare, VerifyRegistration, kubeVars, hostVars
<1>3. CASE Reject \/ BeginRefused \/ BeginPower \/ BeginLocal \/ QueueService \/ BeginMemory
           \/ BeginPrepare \/ FinishLocal \/ MemoryReboot \/ CaptureActivation
           \/ PackagesInstalled \/ Register
  BY <1>3, <1>a DEF Reject, BeginRefused, BeginPower, BeginLocal, QueueService, BeginMemory,
    BeginPrepare, FinishLocal, MemoryReboot, CaptureActivation, PackagesInstalled, Register,
    kubeVars, hostVars
<1>4. CASE BeginService
  <2>1. /\ UNCHANGED <<posted, newest, op, result, lock, ran>> /\ w.pc = "begin"
        /\ approved' = [approved EXCEPT ![Action] = current.uid] /\ Action \in ServiceActions
    BY <1>4 DEF BeginService, Begin, kubeVars, hostVars
  <2>2. op.uid = current.uid /\ op.phase = "Pending" /\ current.uid # 0 /\ current.uid = newest
    BY <2>1, Known DEF Acknowledged, BegunPcs
  <2>3. ASSUME NEW u \in 1 .. newest, ran[u]["service"] > 0, posted[u].action = "configure-network"
        PROVE  approved'["configure-network"] = u => lock = "configure-network"
    <3>1. u # newest
      BY <2>2, <2>3 DEF ServiceOnce
    <3>2. approved["configure-network"] = u => lock = "configure-network"
      BY <2>3 DEF ServiceOnce
    <3> QED
      BY <1>0, <2>1, <2>2, <3>1, <3>2 DEF ServiceActions
  <2>4. ASSUME NEW u \in 1 .. newest, ran[u]["service"] > 0, posted[u].action # "configure-network"
        PROVE  LET a == posted[u].action
               IN approved'[a] >= u /\ (approved'[a] = u => result[a].req = posted[u].req)
    <3> DEFINE a == posted[u].action
    <3>1. /\ a \in ServiceActions /\ approved[a] >= u
          /\ approved[a] = u => result[a].req = posted[u].req
      BY <2>4 DEF ServiceOnce
    <3>2. approved[a] <= newest /\ approved[a] \in Nat
      BY <1>0, <3>1 DEF Identity
    <3>3. CASE a = Action
      <4>1. approved'[a] = newest
        BY <1>0, <2>1, <2>2, <3>3
      <4>2. u = newest => approved[a] = u
        <5>1. newest \in Nat /\ approved[a] \in Nat /\ approved[a] >= u /\ approved[a] <= newest
          BY <1>0, <3>1, <3>2
        <5> HIDE DEF a
        <5> QED
          BY <5>1
      <4> QED
        BY <1>0, <3>1, <4>1, <4>2
    <3>4. CASE a # Action
      <4>1. approved'[a] = approved[a]
        BY <1>0, <2>1, <3>1, <3>4
      <4> QED
        BY <3>1, <4>1
    <3> QED
      BY <3>3, <3>4
  <2> QED
    BY <2>1, <2>3, <2>4 DEF ServiceOnce
<1>5. CASE PatchOk
  <2>1. op'.uid = op.uid /\ op'.phase # "Pending"
    BY <1>5, Known DEF PatchOk
  <2> QED
    BY <1>5, <2>1, <1>a DEF PatchOk, fileVars, hostVars
<1>6. ASSUME NEW stored \in BOOLEAN, PatchError(stored) PROVE ServiceOnce'
  <2>1. op'.uid = op.uid /\ (op'.phase = "Pending" => op.phase = "Pending")
    BY <1>6, Known DEF PatchError
  <2> QED
    BY <1>6, <2>1, <1>a DEF PatchError, hostVars
<1>7. ASSUME NEW error \in BOOLEAN, NEW done \in BOOLEAN,
             \/ Shutdown(error, done) \/ EnableGpuProfile(error, done) \/ StartJob(error, done)
             \/ \E e \in Commands : RunCommand(e, error, done)
      PROVE  ServiceOnce'
  <2>1. /\ UNCHANGED <<posted, newest, approved, result, lock, op>> /\ w.pc # "idle"
        /\ ran' = ran \/ \E e \in Effects \ {"service"} : Ran(current.uid, e)
    BY <1>7 DEF Shutdown, EnableGpuProfile, StartJob, RunCommand, Effects, kubeVars, hostVars
  <2> QED
    BY <1>0, <2>1, <1>a
<1>8. ASSUME NEW a \in ServiceActions, StartService(a) PROVE ServiceOnce'
  <2> DEFINE v == approved[a]
  <2>1. v \in 1 .. newest /\ v \in Uids /\ posted[v].action = a
    BY <1>8, ServiceFresh
  <2>2. /\ UNCHANGED <<posted, newest, op, approved>> /\ lock = "free" /\ lock' = a
        /\ \A b \in ServiceActions : b # a => result'[b] = result[b]
        /\ result'[a].req = posted[v].req
    BY <1>8 DEF StartService, kubeVars, TypeOK
  <2>3. \A u \in 1 .. newest : u # v => ran'[u]["service"] = ran[u]["service"]
    BY <1>0, <1>8, <2>1 DEF StartService, Ran
  <2>4. a = "configure-network" /\ op.uid = v => op.phase # "Pending"
    BY <1>8 DEF StartService, MayRun
  <2>5. ASSUME NEW u \in 1 .. newest, u # v, ran[u]["service"] > 0
        PROVE  LET b == posted[u].action
               IN  /\ b \in ServiceActions
                   /\ IF b = "configure-network"
                      THEN approved[b] # u /\ (op.uid = u => op.phase # "Pending")
                      ELSE approved[b] >= u /\ (approved[b] = u => b # a /\ result[b].req = posted[u].req)
    BY <2>2, <2>5 DEF ServiceOnce, ServiceActions
  <2>6. v >= v /\ approved'[a] = v
    BY <2>1, <2>2
  <2> HIDE DEF v
  <2>7. ASSUME NEW u \in 1 .. newest, ran'[u]["service"] > 0
        PROVE  LET b == posted[u].action
               IN  /\ b \in ServiceActions
                   /\ IF b = "configure-network"
                      THEN /\ approved'[b] = u => lock' = b
                           /\ op'.uid = u => op'.phase # "Pending"
                      ELSE /\ approved'[b] >= u
                           /\ approved'[b] = u => result'[b].req = posted[u].req
    <3>1. CASE u = v
      BY <2>1, <2>2, <2>4, <2>6, <3>1
    <3>2. CASE u # v
      BY <2>2, <2>3, <2>5, <2>7, <3>2
    <3> QED
      BY <3>1, <3>2
  <2> QED
    BY <2>2, <2>7 DEF ServiceOnce
<1>9. ASSUME NEW a \in ServiceActions, RefuseService(a) PROVE ServiceOnce'
  <2>1. /\ UNCHANGED <<posted, newest, op, result, lock, ran>>
        /\ \A b \in ServiceActions :
             approved'[b] = approved[b] \/ (b = "configure-network" /\ approved'[b] = 0)
    BY <1>0, <1>9 DEF RefuseService, kubeVars
  <2> QED
    BY <1>0, <2>1 DEF ServiceOnce
<1>10. ASSUME NEW a \in ServiceActions, NEW published \in BOOLEAN,
              NEW phase \in {"Succeeded", "Failed", "Interrupted", "RolledBack"},
              FinishService(a, phase, published)
       PROVE  ServiceOnce'
  <2>1. /\ UNCHANGED <<posted, newest, ran>> /\ lock = a
        /\ \A b \in ServiceActions : result'[b].req = result[b].req
        /\ \A b \in ServiceActions :
             approved'[b] = IF a = "configure-network" /\ b = a THEN 0 ELSE approved[b]
    BY <1>0, <1>10 DEF FinishService, TypeOK
  <2>2. op'.uid = op.uid /\ (op'.phase = "Pending" => op.phase = "Pending")
    BY <1>10 DEF FinishService, TypeOK
  <2> QED
    BY <1>0, <2>1, <2>2 DEF ServiceOnce
<1>11. CASE Reboot
  <2>1. /\ UNCHANGED <<posted, newest, op, ran>>
        /\ \A b \in ServiceActions : result'[b].req = result[b].req
        /\ \A b \in ServiceActions : approved'[b] = IF b = "configure-network" THEN 0 ELSE approved[b]
    BY <1>0, <1>11 DEF Reboot, Interrupted, TypeOK, kubeVars
  <2> QED
    BY <1>0, <2>1 DEF ServiceOnce
<1>12. CASE KubeletPublishes \/ CrashWorker \/ LoseState \/ TimePasses \/ AdminShutdown \/ AdminActivation
  BY <1>12, <1>a DEF KubeletPublishes, CrashWorker, LoseState, TimePasses, AdminShutdown,
    AdminActivation, kubeVars, fileVars, hostVars
<1> QED
  BY <1>1, <1>2, <1>3, <1>4, <1>5, <1>6, <1>7, <1>8, <1>9, <1>10, <1>11, <1>12
  DEF Next, Continue, Services, Environment

-----------------------------------------------------------------------------
(* The theorems.                                                           *)

\* What a step that lets something happen does it for, and what it finds.
LEMMA EffectOnce ==
  ASSUME TypeOK, Identity, Serial, Acknowledged, Counts,
         NEW error \in BOOLEAN, NEW done \in BOOLEAN,
         \/ Shutdown(error, done) \/ EnableGpuProfile(error, done) \/ StartJob(error, done)
         \/ \E e \in Commands : RunCommand(e, error, done)
  PROVE  /\ w.pc \in AckedPcs /\ UNCHANGED <<posted, newest, op>>
         /\ \/ ran' = ran
            \/ \E e \in Effects \ {"service"} :
                 Ran(current.uid, e) /\ Count(e) < Allowed(current.uid, e)
<1>1. w.pc \in AckedPcs /\ UNCHANGED <<posted, newest, op>>
  BY DEF Shutdown, EnableGpuProfile, StartJob, RunCommand, AckedPcs, BegunPcs, kubeVars
<1>2. /\ Point = w.pc /\ Fits(w.pc) /\ current \in Currents
      /\ Action = "prepare-gpu" => current.phase \in Stages
      /\ Action = "configure-gpu-memory" => current.phase \in Stages
      /\ \A e \in Effects : Count(e) \in Nat
  BY <1>1, AckedFacts, CountType
<1>3. CASE Shutdown(error, done)
  <2>1. w.pc = "shutdown" /\ (ran' = ran \/ Ran(current.uid, "shutdown"))
    BY <1>3 DEF Shutdown
  <2>2. Count("shutdown") < Allowed(current.uid, "shutdown")
    <3>1. CASE Action = "configure-gpu-memory"
      <4>1. Count("shutdown") < current.reboots
        BY <1>2, <2>1, <3>1 DEF Counts
      <4>2. current.reboots \in 0 .. 2 /\ Count("shutdown") \in Nat
        BY <1>2 DEF Currents, Effects
      <4> QED
        BY <3>1, <4>1, <4>2 DEF Allowed, Action
    <3>2. CASE Action # "configure-gpu-memory"
      BY <1>2, <2>1, <3>2 DEF Counts, Allowed, Action
    <3> QED
      BY <3>1, <3>2
  <2> QED
    BY <1>1, <2>1, <2>2 DEF Effects
<1>4. CASE EnableGpuProfile(error, done)
  <2>1. /\ w.pc = "profile"
        /\ ran' = ran \/ (Ran(current.uid, "activate") /\ activation = "before")
    BY <1>4 DEF EnableGpuProfile
  <2>2. activation = "before" => Count("activate") = 0
    <3>1. Action = "prepare-gpu"
      BY <1>2, <2>1 DEF Fits, PreparePcs
    <3> QED
      BY <1>2, <3>1 DEF Counts, Effects
  <2> QED
    BY <1>1, <2>1, <2>2 DEF Effects, Allowed
<1>5. CASE StartJob(error, done)
  <2>1. w.pc = "start" /\ (ran' = ran \/ Ran(current.uid, "start"))
    BY <1>5 DEF StartJob
  <2>2. Count("start") = 0
    BY <1>2, <2>1 DEF Counts
  <2> QED
    BY <1>1, <2>1, <2>2 DEF Effects, Allowed
<1>6. ASSUME NEW e \in Commands, RunCommand(e, error, done)
      PROVE  ran' = ran \/ (Ran(current.uid, e) /\ Count(e) < Allowed(current.uid, e))
  <2>1. w.pc = e /\ (ran' = ran \/ Ran(current.uid, e))
    BY <1>6 DEF RunCommand
  <2>2. Count(e) = 0
    BY <1>2, <2>1 DEF Counts
  <2> QED
    BY <2>1, <2>2 DEF Allowed
<1>7. \A e \in Commands : e \in Effects \ {"service"}
  BY DEF Effects
<1> QED
  BY <1>1, <1>3, <1>4, <1>5, <1>6, <1>7

\* Every step keeps AtMostOnce.
LEMMA AtMostOnceStep ==
  ASSUME TypeOK, Identity, Serial, Acknowledged, Counts, ServiceOnce, AtMostOnce, Next
  PROVE  AtMostOnce'
<1>0. /\ newest \in Nat /\ newest <= MaxOps /\ ran \in [Uids -> [Effects -> Nat]]
      /\ \A u \in 1 .. newest : u \in Uids
  <2>1. newest \in Nat /\ newest <= MaxOps /\ \A u \in 1 .. newest : u \in Uids
    BY BoundsAssumption DEF TypeOK, Uids
  <2> QED
    BY <2>1 DEF TypeOK
<1>a. ASSUME UNCHANGED <<posted, newest>>, NEW v \in 1 .. newest, NEW e \in Effects, Ran(v, e),
             ran[v][e] < Allowed(v, e)
      PROVE  AtMostOnce'
  <2>1. \A u \in 1 .. newest : \A f \in Effects :
          ran'[u][f] = IF u = v /\ f = e THEN ran[u][f] + 1 ELSE ran[u][f]
    BY <1>0, <1>a DEF Ran
  <2>2. ran[v][e] \in Nat /\ Allowed(v, e) \in Nat
    BY <1>0 DEF Allowed
  <2>3. ran[v][e] + 1 <= Allowed(v, e)
    BY <1>a, <2>2
  <2>4. \A u \in 1 .. newest : \A f \in Effects : Allowed(u, f)' = Allowed(u, f)
    BY <1>a DEF Allowed
  <2> QED
    BY <1>a, <2>1, <2>3, <2>4 DEF AtMostOnce
<1>b. ASSUME UNCHANGED <<posted, newest, ran>> PROVE AtMostOnce'
  BY <1>b DEF AtMostOnce, Allowed
<1>1. CASE Dashboard
  <2>1. ASSUME NEW r \in Requests, DashPost(r), op.uid = 0 PROVE AtMostOnce'
    <3>1. /\ newest' = newest + 1 /\ newest < MaxOps /\ ran' = ran
          /\ posted' = [posted EXCEPT ![newest + 1] = dash[r].spec]
      BY <2>1 DEF DashPost
    <3>2. newest + 1 \in Uids /\ newest + 1 > newest
      BY <1>0, <3>1, BoundsAssumption DEF Uids
    <3>3. \A e \in Effects : ran[newest + 1][e] = 0
      BY <1>0, <3>2 DEF Counts
    <3>4. \A u \in 1 .. newest' : u # newest + 1 => u \in 1 .. newest /\ posted'[u] = posted[u]
      BY <1>0, <3>1 DEF TypeOK
    <3>5. ASSUME NEW u \in 1 .. newest', NEW e \in Effects
          PROVE  ran'[u][e] <= Allowed(u, e)'
      <4>1. CASE u = newest + 1
        BY <3>1, <3>3, <4>1 DEF Allowed
      <4>2. CASE u # newest + 1
        BY <3>1, <3>4, <4>2 DEF AtMostOnce, Allowed
      <4> QED
        BY <4>1, <4>2
    <3> QED
      BY <3>5 DEF AtMostOnce
  <2>2. ASSUME NEW r \in Requests,
               \/ \E a \in Actions : DashGet(r, a)
               \/ DashDelete(r) \/ DashAbort(r)
               \/ DashPost(r) /\ op.uid # 0
        PROVE  AtMostOnce'
    BY <2>2, <1>b DEF DashGet, DashDelete, DashPost, DashAbort
  <2> QED
    BY <1>1, <2>1, <2>2 DEF Dashboard
<1>2. CASE Tick
  BY <1>2, <1>b DEF Tick, Accept, Reacknowledge, InterruptUnfinished, NoBoot, VerifyMemory,
    ReconcileService, ObserveBoot, VerifyPrepare, VerifyRegistration, kubeVars
<1>3. CASE Reject \/ BeginRefused \/ BeginPower \/ BeginLocal \/ BeginService \/ QueueService
           \/ BeginMemory \/ BeginPrepare \/ FinishLocal \/ MemoryReboot \/ CaptureActivation
           \/ PackagesInstalled \/ Register \/ PatchOk \/ \E stored \in BOOLEAN : PatchError(stored)
  BY <1>3, <1>b DEF Reject, BeginRefused, BeginPower, BeginLocal, BeginService, QueueService,
    BeginMemory, BeginPrepare, FinishLocal, MemoryReboot, CaptureActivation, PackagesInstalled,
    Register, PatchOk, PatchError, kubeVars
<1>4. ASSUME NEW error \in BOOLEAN, NEW done \in BOOLEAN,
             \/ Shutdown(error, done) \/ EnableGpuProfile(error, done) \/ StartJob(error, done)
             \/ \E e \in Commands : RunCommand(e, error, done)
      PROVE  AtMostOnce'
  <2>1. /\ w.pc \in AckedPcs /\ UNCHANGED <<posted, newest, op>>
        /\ \/ ran' = ran
           \/ \E e \in Effects \ {"service"} :
                Ran(current.uid, e) /\ ran[current.uid][e] < Allowed(current.uid, e)
    BY <1>4, EffectOnce DEF Count
  <2>2. current.uid \in 1 .. newest
    <3>1. current.uid # 0 /\ current.uid \in 0 .. newest
      BY <2>1, AckedFacts, Known
    <3> QED
      BY <1>0, <3>1
  <2> QED
    BY <2>1, <2>2, <1>a, <1>b
<1>5. ASSUME NEW a \in ServiceActions, StartService(a) PROVE AtMostOnce'
  <2>1. approved[a] \in 1 .. newest /\ ran[approved[a]]["service"] = 0
    BY <1>5, ServiceFresh
  <2>2. Ran(approved[a], "service") /\ UNCHANGED <<posted, newest>> /\ "service" \in Effects
    BY <1>5 DEF StartService, kubeVars, Effects
  <2>3. ran[approved[a]]["service"] < Allowed(approved[a], "service")
    BY <2>1 DEF Allowed
  <2> QED
    BY <2>1, <2>2, <2>3, <1>a
<1>6. CASE \/ \E a \in ServiceActions : RefuseService(a)
           \/ \E a \in ServiceActions, phase \in {"Succeeded", "Failed", "Interrupted", "RolledBack"},
                 published \in BOOLEAN : FinishService(a, phase, published)
           \/ Environment
  BY <1>6, <1>b DEF RefuseService, FinishService, Environment, Reboot, KubeletPublishes,
    CrashWorker, LoseState, TimePasses, AdminShutdown, AdminActivation, kubeVars
<1> QED
  BY <1>1, <1>2, <1>3, <1>4, <1>5, <1>6 DEF Next, Continue, Services

\* A freshly installed host satisfies the invariant.
LEMMA InitInv == Init => Inv
<1> SUFFICES ASSUME Init PROVE Inv
  OBVIOUS
<1> USE BoundsAssumption DEF Init
<1>1. TypeOK
  <2>1. current \in Currents
    BY DEF NoCurrent, Currents
  <2>2. w \in Workers
    BY DEF Idle, Workers
  <2>3. dash \in [Requests -> Calls]
    BY DEF NoDash, Calls
  <2>4. op \in [uid : 0 .. MaxOps, phase : Phases \cup {"Pending"}]
    BY DEF NoOp
  <2>5. completed \in Seq(Requests) /\ Len(completed) <= HistoryLimit
    OBVIOUS
  <2>6. ran \in [Uids -> [Effects -> Nat]] /\ posted \in [Uids -> Specs \cup {NoSpec}]
    OBVIOUS
  <2>7. /\ newest \in 0 .. MaxOps /\ nodeBoot \in 1 .. MaxBoots /\ boot \in 1 .. MaxBoots
        /\ approved \in [ServiceActions -> 0 .. MaxOps]
        /\ queued \in [ServiceActions -> BOOLEAN]
        /\ result \in [ServiceActions -> [req : Requests \cup {NoRequest},
                                          phase : TERMINAL \cup {"none", "Running"}]]
    OBVIOUS
  <2> QED
    BY <2>1, <2>2, <2>3, <2>4, <2>5, <2>6, <2>7 DEF TypeOK
<1>2. Identity
  BY DEF Identity, NoOp, NoCurrent, NoDash
<1>3. Point = "idle" /\ current.uid = 0 /\ current.phase = "none" /\ w.pc = "idle" /\ op.uid = 0
  BY DEF Point, Idle, NoCurrent, NoOp
<1>4. Serial
  BY <1>3, NoPointFits DEF Serial
<1>5. Acknowledged
  BY <1>3 DEF Acknowledged, AckedPcs, BegunPcs, NoDash
<1>6. Counts
  BY <1>3 DEF Counts, Effects, Stages
<1>7. ServiceOnce /\ AtMostOnce
  BY DEF ServiceOnce, AtMostOnce
<1> QED
  BY <1>1, <1>2, <1>4, <1>5, <1>6, <1>7 DEF Inv

\* A stuttering step changes nothing Inv speaks of.
LEMMA StutterInv ==
  ASSUME Inv, UNCHANGED vars
  PROVE  Inv'
<1> USE DEF vars, kubeVars, fileVars, hostVars
<1>1. TypeOK' /\ Identity'
  BY DEF Inv, TypeOK, Identity
<1>2. Point' = Point /\ Action' = Action /\ \A e \in Effects : Count(e)' = Count(e)
  BY DEF Point, Action, Count
<1>3. Serial' /\ Acknowledged'
  BY <1>2 DEF Inv, Serial, Fits, Acknowledged
<1>4. Counts'
  BY <1>2 DEF Inv, Counts, Effects
<1>5. ServiceOnce' /\ AtMostOnce'
  BY DEF Inv, ServiceOnce, AtMostOnce, Allowed
<1> QED
  BY <1>1, <1>3, <1>4, <1>5 DEF Inv

\* Every step of the system keeps the invariant.
LEMMA NextInv ==
  ASSUME Inv, [Next]_vars
  PROVE  Inv'
<1>1. CASE UNCHANGED vars
  BY <1>1, StutterInv
<1>2. CASE Next
  <2>0. TypeOK /\ Identity /\ Serial /\ Acknowledged /\ Counts /\ ServiceOnce /\ AtMostOnce
    BY DEF Inv
  <2>1. TypeOK'
    BY <1>2, <2>0, TypeStep
  <2>2. Identity'
    BY <1>2, <2>0, <2>1, IdentityStep
  <2>3. Serial' /\ Acknowledged' /\ Counts'
    <3>1. CASE Dashboard
      BY <2>0, <3>1, DashboardStep
    <3>2. CASE Tick
      BY <2>0, <2>1, <3>2, TickStep
    <3>3. CASE Continue
      BY <2>0, <2>1, <3>3, BeginStep, PatchStep, BetweenStep, EffectStep DEF Continue
    <3>4. CASE Services \/ Environment
      BY <2>0, <3>4, OutsideStep
    <3> QED
      BY <1>2, <3>1, <3>2, <3>3, <3>4 DEF Next
  <2>4. ServiceOnce'
    BY <1>2, <2>0, ServiceStep
  <2>5. AtMostOnce'
    BY <1>2, <2>0, AtMostOnceStep
  <2> QED
    BY <2>1, <2>2, <2>3, <2>4, <2>5 DEF Inv
<1> QED
  BY <1>1, <1>2

\* The invariant of the host worker, for any number of requests, operations
\* and boots, with or without loss of state.json.
THEOREM Invariant == Spec => []Inv
<1>1. Init => Inv
  BY InitInv
<1>2. Inv /\ [Next]_vars => Inv'
  BY NextInv
<1> QED
  BY <1>1, <1>2, PTL DEF Spec

\* Every variable keeps its type.
THEOREM TypeCorrect == Spec => []TypeOK
<1>1. Inv => TypeOK
  BY DEF Inv
<1> QED
  BY <1>1, Invariant, PTL

\* No operation has an effect twice, and none restarts the host more often
\* than it may, whatever crashes, is lost or fails (Worker.reconcile never
\* repeats an interrupted execution).
THEOREM EffectsAtMostOnce == Spec => []AtMostOnce
<1>1. Inv => AtMostOnce
  BY DEF Inv
<1> QED
  BY <1>1, Invariant, PTL

\* Which steps let something happen, other than a service's run.
LEMMA WhoActs ==
  ASSUME Inv, Next
  PROVE  \/ \A u \in Uids : \A e \in Effects \ {"service"} : ran'[u][e] = ran[u][e]
         \/ /\ w.pc \in AckedPcs
            /\ \A u \in Uids : u # current.uid => ran'[u] = ran[u]
<1>0. /\ TypeOK /\ Identity /\ Serial /\ Acknowledged /\ Counts /\ ServiceOnce
      /\ ran \in [Uids -> [Effects -> Nat]]
  BY DEF Inv, TypeOK
<1>1. CASE ran' = ran
  BY <1>1
<1>2. ASSUME NEW error \in BOOLEAN, NEW done \in BOOLEAN,
             \/ Shutdown(error, done) \/ EnableGpuProfile(error, done) \/ StartJob(error, done)
             \/ \E e \in Commands : RunCommand(e, error, done)
      PROVE  w.pc \in AckedPcs /\ \A u \in Uids : u # current.uid => ran'[u] = ran[u]
  BY <1>0, <1>2, EffectOnce DEF Ran
<1>3. ASSUME NEW a \in ServiceActions, StartService(a)
      PROVE  \A u \in Uids : \A e \in Effects \ {"service"} : ran'[u][e] = ran[u][e]
  <2>1. approved[a] \in Uids /\ Ran(approved[a], "service")
    BY <1>0, <1>3, ServiceFresh DEF StartService
  <2> QED
    BY <1>0, <2>1 DEF Ran
<1>4. CASE Dashboard
  BY <1>1, <1>4 DEF Dashboard, DashGet, DashDelete, DashPost, DashAbort
<1>5. CASE Tick
  BY <1>1, <1>5 DEF Tick, Accept, Reacknowledge, InterruptUnfinished, NoBoot, VerifyMemory,
    ReconcileService, ObserveBoot, VerifyPrepare, VerifyRegistration
<1>6. CASE Continue
  BY <1>1, <1>2, <1>6 DEF Continue, Reject, BeginRefused, BeginPower, BeginLocal, BeginService,
    QueueService, BeginMemory, BeginPrepare, FinishLocal, MemoryReboot, CaptureActivation,
    PackagesInstalled, Register, PatchOk, PatchError
<1>7. CASE Services
  BY <1>1, <1>3, <1>7 DEF Services, RefuseService, FinishService
<1>8. CASE Environment
  BY <1>1, <1>8 DEF Environment, Reboot, KubeletPublishes, CrashWorker, LoseState, TimePasses,
    AdminShutdown, AdminActivation
<1> QED
  BY <1>4, <1>5, <1>6, <1>7, <1>8 DEF Next

\* The worker acts only for the resource the node has now, after that
\* resource has shown that the operation began (Worker.update: "commit local
\* state first, then acknowledge it before any side effect").
THEOREM ActsAfterAcknowledgement == Spec => AcknowledgedFirst
<1>1. ASSUME Inv, [Next]_vars PROVE [ActsAcknowledged]_vars
  <2>1. CASE Next
    <3>1. w.pc \in AckedPcs => op.uid = current.uid /\ op.phase \notin TERMINAL \cup {"Pending"}
      BY <1>1 DEF Inv, Acknowledged
    <3> QED
      BY <1>1, <2>1, <3>1, WhoActs DEF ActsAcknowledged
  <2>2. CASE UNCHANGED vars
    BY <2>2
  <2> QED
    BY <1>1, <2>1, <2>2
<1> QED
  BY <1>1, Invariant, PTL DEF Spec, AcknowledgedFirst

\* An operation that state.json calls terminal stays terminal.
LEMMA ClosedPhase ==
  ASSUME Inv, Next, current.phase \in TERMINAL, current'.uid = current.uid
  PROVE  current'.phase \in TERMINAL
<1>0. /\ TypeOK /\ Identity /\ Serial /\ Acknowledged /\ current \in Currents
      /\ current.uid # 0
  <2>1. TypeOK /\ Identity /\ Serial /\ Acknowledged
    BY DEF Inv
  <2> QED
    BY <2>1, Known DEF Identity
<1>1. w.pc \notin AckedPcs \cup BegunPcs \cup {"reject"}
  BY <1>0, AckedFacts DEF Acknowledged
<1>a. ASSUME UNCHANGED current PROVE current'.phase \in TERMINAL
  BY <1>a
<1>2. CASE Dashboard
  BY <1>2, <1>a DEF Dashboard, DashGet, DashDelete, DashPost, DashAbort, fileVars
<1>3. CASE Tick
  BY <1>3, <1>a DEF Tick, Accept, Reacknowledge, Update, InterruptUnfinished, NoBoot,
    VerifyMemory, ReconcileService, ObserveBoot, VerifyPrepare, VerifyRegistration, Resume
<1>4. CASE Continue
  <2>1. CASE PatchOk
    BY <2>1, <1>a DEF PatchOk, fileVars
  <2>2. ASSUME NEW stored \in BOOLEAN, PatchError(stored) PROVE current'.phase \in TERMINAL
    BY <1>0, <2>2, RaiseEffect DEF PatchError
  <2>3. CASE ~PatchOk /\ ~\E stored \in BOOLEAN : PatchError(stored)
    BY <1>1, <1>4, <2>3 DEF Continue, Reject, BeginRefused, BeginPower, BeginLocal,
      BeginService, QueueService, BeginMemory, BeginPrepare, FinishLocal, MemoryReboot,
      CaptureActivation, PackagesInstalled, Register, Shutdown, EnableGpuProfile, StartJob,
      RunCommand, Begin, AckedPcs, BegunPcs
  <2> QED
    BY <2>1, <2>2, <2>3
<1>5. CASE Services
  BY <1>5, <1>a DEF Services, StartService, RefuseService, FinishService
<1>6. CASE Environment
  BY <1>0, <1>6, <1>a DEF Environment, Reboot, KubeletPublishes, CrashWorker, LoseState,
    NoCurrent, TimePasses, AdminShutdown, AdminActivation, fileVars
<1> QED
  BY <1>2, <1>3, <1>4, <1>5, <1>6 DEF Next

\* An operation that state.json calls terminal stays terminal, and the worker
\* does nothing more for it (Worker.reconcile only re-acknowledges it).
THEOREM ClosedStaysClosed == Spec => NoRevival
<1>1. ASSUME Inv, Next PROVE StaysClosed
  <2> SUFFICES ASSUME current.phase \in TERMINAL, current'.uid = current.uid
               PROVE  /\ current'.phase \in TERMINAL
                      /\ \A e \in Effects \ {"service"} :
                           ran'[current.uid][e] = ran[current.uid][e]
    BY DEF StaysClosed
  <2>0. /\ TypeOK /\ Identity /\ Serial /\ Acknowledged /\ current \in Currents
        /\ current.uid # 0 /\ current.uid \in Uids
    <3>1. TypeOK /\ Identity /\ Serial /\ Acknowledged
      BY <1>1 DEF Inv
    <3>2. current.uid # 0
      BY <3>1 DEF Identity
    <3> QED
      BY <3>1, <3>2, Known
  <2>1. w.pc \notin AckedPcs \cup BegunPcs \cup {"reject"}
    BY <2>0, AckedFacts DEF Acknowledged
  <2>2. \A e \in Effects \ {"service"} : ran'[current.uid][e] = ran[current.uid][e]
    BY <1>1, <2>0, <2>1, WhoActs
  <2>3. current'.phase \in TERMINAL
    BY <1>1, ClosedPhase
  <2> QED
    BY <2>2, <2>3
<1>2. ASSUME Inv, [Next]_vars PROVE [StaysClosed]_vars
  BY <1>1, <1>2
<1> QED
  BY <1>2, Invariant, PTL DEF Spec, NoRevival

-----------------------------------------------------------------------------
(* The boot an operation belongs to: OnConsentedBoot and RestartSeen.      *)

\* The tick comes to rest: no point of the operation is ahead of it.
Rests ==
  /\ current'.uid = current.uid /\ current'.boot = current.boot
  /\ current'.phase \in {current.phase} \cup TERMINAL
  /\ Point' \in {"end", "idle"} /\ w'.pc \notin BegunPcs

\* A terminal phase is written and acknowledged.
LEMMA CloseRests ==
  ASSUME TypeOK, NEW phase \in TERMINAL, NEW caught, Update(To(phase), "end", caught)
  PROVE  Rests
<1>1. current \in Currents
  BY DEF TypeOK
<1>2. current'.boot = current.boot
  BY <1>1 DEF Update, To, Currents
<1> QED
  BY <1>1, <1>2, UpdateEffect DEF Rests, BegunPcs

\* An exception ends the tick or reports Failed.
LEMMA RaiseRests ==
  ASSUME TypeOK, Raise
  PROVE  Rests
<1>1. current \in Currents
  BY DEF TypeOK
<1>2. CASE w.caught
  BY <1>2, CloseRests DEF Raise, Fail
<1>3. CASE ~w.caught
  BY <1>3 DEF Raise, Idle, Rests, Point, BegunPcs
<1> QED
  BY <1>2, <1>3

\* An effect leaves its mark, and only its own.
LEMMA EffectTouches ==
  ASSUME TypeOK, current.uid \in Uids, current'.uid = current.uid,
         NEW e \in Effects, Ran(current.uid, e)
  PROVE  Touched' /\ \A f \in Effects : f # e => Count(f)' = Count(f)
<1>1. ran \in [Uids -> [Effects -> Nat]]
  BY DEF TypeOK
<1>2. \A f \in Effects : Count(f)' = IF f = e THEN Count(f) + 1 ELSE Count(f)
  BY <1>1 DEF Ran, Count
<1>3. Count(e) \in Nat
  BY <1>1 DEF Count
<1> QED
  BY <1>2, <1>3 DEF Touched

\* What happened stays on record.
LEMMA StaysTouched ==
  ASSUME TypeOK, current.uid \in Uids, current'.uid = current.uid,
         ran' = ran \/ \E e \in Effects : Ran(current.uid, e)
  PROVE  Touched => Touched'
<1>1. CASE ran' = ran
  BY <1>1 DEF Touched, Count
<1> QED
  BY <1>1, EffectTouches

\* No phase of an operation in progress is a terminal one.
LEMMA PhasesOpen == \A a \in AllActions : PhasesOf(a) \cap (TERMINAL \cup {"Accepted", "none"}) = {}
  BY DEF PhasesOf

\* A tick that comes to rest keeps what is known of the boots.
LEMMA BootRest ==
  ASSUME TypeOK, Identity, Serial, OnConsentedBoot, RestartSeen, current.uid # 0,
         UNCHANGED <<posted, boot, approved>>, Rests,
         \A a \in ServiceActions :
           queued'[a] => queued[a] \/ (approved[a] = current.uid /\ posted[current.uid].boot = boot),
         ran' = ran \/ \E e \in Effects : Ran(current.uid, e)
  PROVE  OnConsentedBoot' /\ RestartSeen'
<1>1. Action' = Action /\ current.uid \in Uids /\ Action \in AllActions
  BY Known DEF Action, Rests
<1>2. Touched => Touched'
  BY <1>1, StaysTouched DEF Rests
<1>3. OnConsentedBoot'
  BY <1>1, <1>2 DEF OnConsentedBoot, Rests, FirstPcs
<1>4. Begun' => Begun
  BY <1>1, PhasesOpen DEF Begun, Rests
<1>5. RestartSeen'
  BY <1>1, <1>4 DEF RestartSeen, Rests, MemoryPcs
<1> QED
  BY <1>3, <1>5

\* A tick that goes on keeps what is known of the boots, if the point it goes
\* to is allowed on this boot.
LEMMA BootMove ==
  ASSUME TypeOK, TypeOK', Identity, Serial, OnConsentedBoot, RestartSeen, current.uid # 0,
         UNCHANGED <<posted, boot, approved, queued>>, current'.uid = current.uid,
         current'.boot \in {current.boot, boot}, Begun' => Begun, Touched => Touched',
         Point' \in FirstPcs => posted[current.uid].boot = boot,
         Point' \in {"ttm", "memreboot", "shutdown"} => posted[current.uid].boot = boot \/ Touched',
         Point' = "memreboot" => Touched',
         Point' \in {"queue", "start"} => approved[Action] = current.uid,
         Action = "configure-gpu-memory" =>
           /\ current'.phase \in {"RebootScheduled", "Verifying"} => Touched'
           /\ current'.phase = "Verifying" => posted[current.uid].boot < current'.boot
           /\ Point' \in MemoryPcs \cup {"shutdown"} /\ Count("shutdown")' > 0 =>
                posted[current.uid].boot < boot
  PROVE  OnConsentedBoot' /\ RestartSeen'
<1>1. Action' = Action /\ boot \in Nat /\ current.boot \in Nat /\ posted[current.uid].boot \in Nat
  <2>1. posted[current.uid] \in Specs
    BY Known
  <2> QED
    BY <2>1, BoundsAssumption DEF Action, TypeOK, Currents, Specs
<1>2. OnConsentedBoot'
  BY <1>1 DEF OnConsentedBoot
<1>3. RestartSeen'
  BY <1>1 DEF RestartSeen
<1> QED
  BY <1>2, <1>3

\* schedule_power reports a shutdown that is scheduled already, or goes on to
\* schedule one.
LEMMA ScheduleBoot ==
  ASSUME TypeOK, NEW cur \in Currents, cur.uid = current.uid, SchedulePower(cur)
  PROVE  \/ Rests
         \/ /\ current'.uid = current.uid /\ current'.boot = cur.boot
            /\ current'.phase \in {"RebootScheduled", "PoweroffScheduled"}
            /\ Point' = "shutdown" /\ w'.pc = "patch"
<1>1. CASE shutdown # "none"
  BY <1>1, CloseRests DEF SchedulePower, Fail
<1>2. CASE shutdown = "none"
  <2>1. Update([cur EXCEPT !.phase = ScheduledPhase], "shutdown", TRUE)
    BY <1>2 DEF SchedulePower
  <2>2. /\ current'.uid = cur.uid /\ current'.boot = cur.boot
        /\ current'.phase = ScheduledPhase
    BY <2>1 DEF Update, Currents
  <2>3. Point' = "shutdown" /\ w'.pc = "patch"
    BY <2>1 DEF Update, Point
  <2> QED
    BY <2>2, <2>3 DEF ScheduledPhase
<1> QED
  BY <1>1, <1>2

\* A tick past the acceptance of its operation has begun it.
LEMMA TickBegun ==
  ASSUME TypeOK, Identity, Serial, Acknowledged
  PROVE  /\ w.pc \in AckedPcs \cup BegunPcs => Begun /\ Point = w.pc
         /\ current.phase \in Phases \ (TERMINAL \cup {"Accepted"}) => Begun
<1>1. w.pc \in AckedPcs => Begun /\ Point = w.pc
  BY AckedFacts DEF Begun
<1>2. w.pc \in BegunPcs => Begun /\ Point = w.pc
  BY DEF Begun, Point, BegunPcs
<1>3. ASSUME current.phase \in Phases \ (TERMINAL \cup {"Accepted"}) PROVE Begun
  <2>1. current.uid # 0
    BY <1>3 DEF Identity
  <2> QED
    BY <1>3, <2>1 DEF Serial, Begun
<1> QED
  BY <1>1, <1>2, <1>3

\* A tick that starts keeps what is known of the boots.
LEMMA BootTick ==
  ASSUME TypeOK, TypeOK', Identity, Serial, Acknowledged, OnConsentedBoot, RestartSeen, Tick
  PROVE  OnConsentedBoot' /\ RestartSeen'
<1>0. /\ current \in Currents /\ current' \in Currents /\ boot \in Nat
      /\ current.boot \in Nat /\ (current.uid # 0 => posted[current.uid].boot \in Nat)
  <2>1. current.uid # 0 => posted[current.uid] \in Specs
    BY Known
  <2>2. current.uid # 0 => posted[current.uid].boot \in Nat
    BY <2>1, BoundsAssumption DEF Specs
  <2>3. current \in Currents /\ current' \in Currents /\ boot \in Nat
    BY BoundsAssumption DEF TypeOK
  <2>4. current.boot \in Nat
    BY <2>3, BoundsAssumption DEF Currents
  <2> QED
    BY <2>2, <2>3, <2>4
<1>a. ASSUME Rests, current.uid # 0, UNCHANGED <<posted, boot, approved, queued, ran>>
      PROVE  OnConsentedBoot' /\ RestartSeen'
  BY <1>a, BootRest
<1>b. ASSUME NEW phase \in TERMINAL, NEW caught, Update(To(phase), "end", caught),
             current.uid # 0, UNCHANGED <<posted, boot, approved, queued, ran>>
      PROVE  OnConsentedBoot' /\ RestartSeen'
  BY <1>a, <1>b, CloseRests
<1>c. CanTick /\ op.uid = current.uid => current.uid # 0
  BY DEF CanTick
<1>1. ASSUME NEW valid \in BOOLEAN, Accept(valid) PROVE OnConsentedBoot' /\ RestartSeen'
  <2>1. /\ current'.uid = op.uid /\ current'.phase = "Accepted" /\ current'.boot = boot
        /\ op.uid # 0 /\ w'.pc \in {"begin", "reject"} /\ Point' = w'.pc
        /\ w'.pc = "begin" => posted[op.uid].boot = boot
        /\ UNCHANGED <<posted, boot, queued, approved>>
    BY <1>1 DEF Accept, CanTick, Point, ValidRequest, kubeVars, hostVars
  <2>2. OnConsentedBoot'
    BY <2>1 DEF OnConsentedBoot, FirstPcs
  <2>3. Action' \in AllActions
    <3>1. op.uid \in 1 .. newest
      BY <2>1, Known, BoundsAssumption
    <3>2. posted[op.uid] \in Specs
      BY <3>1 DEF Identity
    <3> QED
      BY <2>1, <3>2, ActionsAssumption DEF Action, Specs
  <2>4. Begun' => w'.pc = "begin"
    BY <2>1, <2>3, PhasesOpen DEF Begun, BegunPcs
  <2>5. RestartSeen'
    BY <1>0, <2>1, <2>4 DEF RestartSeen, MemoryPcs
  <2> QED
    BY <2>2, <2>5
<1>2. CASE Reacknowledge
  <2>1. Rests /\ current.uid # 0
    BY <1>2, <1>c DEF Reacknowledge, Update, Rests, Point, BegunPcs
  <2> QED
    BY <1>2, <1>a, <2>1 DEF Reacknowledge, kubeVars, hostVars
<1>3. CASE InterruptUnfinished
  BY <1>3, <1>b, <1>c DEF InterruptUnfinished, Resume, kubeVars, hostVars
<1>4. CASE NoBoot
  BY <1>4, <1>b, <1>c DEF NoBoot, Resume, Fail, kubeVars, hostVars
<1>5. CASE ReconcileService
  BY <1>5, <1>b, <1>c DEF ReconcileService, Resume, kubeVars, hostVars
<1>6. ASSUME NEW evidence \in BOOLEAN, VerifyRegistration(evidence)
      PROVE  OnConsentedBoot' /\ RestartSeen'
  BY <1>6, <1>b, <1>c DEF VerifyRegistration, Resume, Fail, kubeVars, hostVars
<1>7. ASSUME NEW ready \in BOOLEAN, VerifyPrepare(ready) PROVE OnConsentedBoot' /\ RestartSeen'
  <2>1. CASE ~ready
    BY <1>7, <2>1, <1>b, <1>c DEF VerifyPrepare, Resume, Fail, kubeVars, hostVars
  <2>2. CASE ready
    <3>1. /\ current' = current /\ w'.pc = "profile" /\ Point' = "profile" /\ current.uid # 0
          /\ UNCHANGED <<posted, boot, approved, queued, ran>>
          /\ Action = "prepare-gpu" /\ current.phase = "Verifying"
      BY <1>7, <2>2, <1>c DEF VerifyPrepare, Resume, Point, kubeVars, hostVars
    <3>2. Begun /\ Touched' = Touched
      BY <3>1, TickBegun DEF Touched, Count
    <3> QED
      BY <3>1, <3>2, BootMove DEF FirstPcs
  <2> QED
    BY <2>1, <2>2
<1>8. CASE VerifyMemory
  <2>0. /\ current.uid # 0 /\ UNCHANGED <<posted, boot, approved, queued, ran>>
        /\ Action = "configure-gpu-memory" /\ current.phase = "Verifying"
    BY <1>8, <1>c DEF VerifyMemory, Resume, kubeVars, hostVars
  <2>1. CASE Update(current, "end", TRUE)
    BY <2>0, <2>1, <1>a DEF Update, Rests, Point, BegunPcs
  <2>2. CASE Update([current EXCEPT !.phase = "Preparing", !.stage = "ttm"], "ttm", TRUE)
    <3>1. current'.uid = current.uid /\ current'.phase = "Preparing" /\ current'.boot = current.boot
      BY <1>0, <2>2 DEF Update, Currents
    <3>2. Point' = "ttm"
      BY <2>2 DEF Update, Point
    <3>3. Begun /\ Touched' = Touched
      BY <2>0, <3>1, TickBegun DEF Touched, Count
    <3>4. Touched /\ posted[current.uid].boot < boot
      BY <1>0, <2>0 DEF OnConsentedBoot, RestartSeen
    <3> QED
      BY <2>0, <3>1, <3>2, <3>3, <3>4, BootMove DEF FirstPcs
  <2> QED
    BY <1>8, <2>0, <2>1, <2>2, <1>b DEF VerifyMemory, ApplyDynamicMemory, Fail
<1>9. ASSUME NEW kernel \in BOOLEAN, ObserveBoot(kernel) PROVE OnConsentedBoot' /\ RestartSeen'
  <2>0. /\ current.uid # 0 /\ UNCHANGED <<posted, boot, approved, queued, ran>>
        /\ current.phase \in {"RebootScheduled", "PoweroffScheduled"} /\ boot # current.boot
    BY <1>9, <1>c DEF ObserveBoot, Resume, kubeVars
  <2>1. Begun /\ Action \in AllActions
    BY <2>0, TickBegun, Known
  <2>2. ASSUME Action = "prepare-gpu", Update(To("Verifying"), "end", FALSE)
        PROVE  OnConsentedBoot' /\ RestartSeen'
    <3>1. current'.uid = current.uid /\ current'.boot = current.boot
      BY <1>0, <2>2 DEF Update, To, Currents
    <3>2. Point' = "end" /\ Touched' = Touched
      BY <2>0, <2>2, <3>1 DEF Update, Point, Touched, Count
    <3> QED
      BY <2>0, <2>1, <2>2, <3>1, <3>2, BootMove DEF FirstPcs
  <2>3. ASSUME Action = "configure-gpu-memory",
               Update([current EXCEPT !.phase = "Verifying", !.boot = boot], "end", FALSE)
        PROVE  OnConsentedBoot' /\ RestartSeen'
    <3>1. current'.uid = current.uid /\ current'.boot = boot
      BY <1>0, <2>3 DEF Update, Currents
    <3>2. Point' = "end" /\ Touched' = Touched
      BY <2>0, <2>3, <3>1 DEF Update, Point, Touched, Count
    <3>3. Touched
      <4>1. current.phase = "RebootScheduled"
        BY <2>0, <2>3 DEF Serial, PhasesOf, PowerActions, LocalActions, ServiceActions
      <4> QED
        BY <2>3, <4>1 DEF OnConsentedBoot
    <3>4. posted[current.uid].boot < boot
      BY <1>0, <2>0, <2>1 DEF RestartSeen
    <3> QED
      BY <2>0, <2>1, <2>3, <3>1, <3>2, <3>3, <3>4, BootMove DEF FirstPcs, MemoryPcs
  <2>4. CASE Action \in PowerActions
    <3>1. Update(To("Succeeded"), "end", FALSE)
      BY <1>9, <2>4 DEF ObserveBoot, PowerActions
    <3> QED
      BY <2>0, <3>1, <1>b
  <2>5. CASE Action = "prepare-gpu"
    <3>1. Action \notin PowerActions
      BY <2>5 DEF PowerActions
    <3> QED
      BY <1>9, <2>0, <2>2, <2>5, <3>1, <1>b DEF ObserveBoot
  <2>6. CASE Action = "configure-gpu-memory"
    <3>1. Action \notin PowerActions /\ Action # "prepare-gpu"
      BY <2>6 DEF PowerActions
    <3> QED
      BY <1>9, <2>3, <2>6, <3>1 DEF ObserveBoot
  <2> QED
    BY <2>0, <2>1, <2>4, <2>5, <2>6 DEF Serial, PhasesOf, AllActions, PowerActions, LocalActions,
      ServiceActions
<1> QED
  BY <1>1, <1>2, <1>3, <1>4, <1>5, <1>6, <1>7, <1>8, <1>9 DEF Tick

\* The steps of a running tick keep what is known of the boots.
LEMMA BootContinue ==
  ASSUME TypeOK, TypeOK', Identity, Serial, Acknowledged, Counts, OnConsentedBoot, RestartSeen,
         Continue
  PROVE  OnConsentedBoot' /\ RestartSeen'
<1>0. /\ current \in Currents /\ current' \in Currents /\ boot \in 0 .. MaxBoots
      /\ "shutdown" \in Effects
  BY BoundsAssumption DEF TypeOK, Effects
<1>a. ASSUME Rests, current.uid # 0, UNCHANGED <<posted, boot, approved, queued>>,
             ran' = ran \/ \E e \in Effects : Ran(current.uid, e)
      PROVE  OnConsentedBoot' /\ RestartSeen'
  BY <1>a, BootRest
<1>b. ASSUME NEW phase \in TERMINAL, NEW caught, Update(To(phase), "end", caught),
             current.uid # 0, UNCHANGED <<posted, boot, approved, queued, ran>>
      PROVE  OnConsentedBoot' /\ RestartSeen'
  BY <1>a, <1>b, CloseRests
<1>c. w.pc # "idle" => current.uid # 0 /\ current.uid \in Uids /\ w \in Workers
  BY Known
<1>d. w.pc \in BegunPcs \cup AckedPcs => Begun /\ Point = w.pc /\ w.pc # "idle" /\ Fits(w.pc)
  BY TickBegun DEF Serial, BegunPcs, AckedPcs
<1>e. /\ {"start", "finish", "memreboot", "capture", "prepared", "profile", "register",
          "shutdown"} \cup Commands \subseteq AckedPcs
      /\ BegunPcs = {"begin", "queue"}
  BY DEF AckedPcs, BegunPcs
<1>f. ASSUME UNCHANGED ran, current'.uid = current.uid
      PROVE  Touched' = Touched /\ \A e \in Effects : Count(e)' = Count(e)
  BY <1>f DEF Touched, Count
<1>1. CASE Reject
  BY <1>1, <1>b, <1>c DEF Reject, kubeVars, hostVars
<1>2. CASE BeginRefused
  BY <1>2, <1>b, <1>c DEF BeginRefused, Fail, kubeVars, hostVars
<1>3. CASE BeginPower
  <2>0. /\ w.pc = "begin" /\ Action \in PowerActions /\ SchedulePower(current)
        /\ UNCHANGED <<posted, boot, approved, queued, ran>>
    BY <1>3 DEF BeginPower, Begin, kubeVars
  <2>1. CASE Rests
    BY <2>0, <2>1, <1>a, <1>c
  <2>2. CASE ~Rests
    <3>1. current'.uid = current.uid /\ current'.boot = current.boot /\ Point' = "shutdown"
      BY <1>0, <2>0, <2>2, ScheduleBoot
    <3>2. posted[current.uid].boot = boot /\ Begun /\ current.uid # 0
      BY <2>0, <1>c, <1>d, <1>e DEF OnConsentedBoot, FirstPcs
    <3> QED
      BY <2>0, <3>1, <3>2, <1>f, BootMove DEF FirstPcs, PowerActions
  <2> QED
    BY <2>1, <2>2
<1>4. CASE BeginLocal
  <2>1. PICK phase \in {"Preparing", "Applying"} : Update(To(phase), "local", TRUE)
    BY <1>4 DEF BeginLocal
  <2>2. /\ w.pc = "begin" /\ Action \in LocalActions /\ UNCHANGED <<posted, boot, approved, queued, ran>>
    BY <1>4 DEF BeginLocal, Begin, kubeVars, hostVars
  <2>3. current'.uid = current.uid /\ current'.boot = current.boot /\ Point' = "local"
    BY <1>0, <2>1 DEF Update, To, Currents, Point
  <2>4. posted[current.uid].boot = boot /\ Begun /\ current.uid # 0
    BY <2>2, <1>c, <1>d, <1>e DEF OnConsentedBoot, FirstPcs
  <2> QED
    BY <2>2, <2>3, <2>4, <1>f, BootMove DEF FirstPcs, LocalActions
<1>5. CASE BeginService
  <2>1. /\ w.pc = "begin" /\ Action \in ServiceActions /\ current' = current /\ Point' = "queue"
        /\ UNCHANGED <<posted, boot, queued, ran>> /\ w'.pc = "queue"
        /\ approved' = [approved EXCEPT ![Action] = current.uid]
    BY <1>5, <1>c DEF BeginService, Begin, Goto, Point, Workers, kubeVars, hostVars
  <2>2. /\ posted[current.uid].boot = boot /\ Begun /\ current.uid # 0 /\ Action' = Action
        /\ approved \in [ServiceActions -> 0 .. MaxOps]
    BY <2>1, <1>c, <1>d, <1>e DEF OnConsentedBoot, FirstPcs, Action, TypeOK
  <2>3. OnConsentedBoot'
    <3>1. \A a \in ServiceActions : queued'[a] /\ approved'[a] # 0 => posted'[approved'[a]].boot = boot'
      BY <2>1, <2>2 DEF OnConsentedBoot
    <3>2. approved'[Action'] = current'.uid
      BY <2>1, <2>2
    <3> QED
      BY <2>1, <2>2, <3>1, <3>2, <1>f DEF OnConsentedBoot, FirstPcs
  <2>4. RestartSeen'
    BY <2>1, <2>2 DEF RestartSeen, MemoryPcs
  <2> QED
    BY <2>3, <2>4
<1>6. CASE QueueService
  <2>1. /\ w.pc = "queue" /\ Update(To("Applying"), "start", TRUE)
        /\ UNCHANGED <<posted, boot, approved, queued, ran>>
    BY <1>6 DEF QueueService, kubeVars
  <2>2. /\ current'.uid = current.uid /\ current'.boot = current.boot /\ current'.phase = "Applying"
        /\ Point' = "start"
    BY <1>0, <2>1 DEF Update, To, Currents, Point
  <2>3. /\ posted[current.uid].boot = boot /\ Begun /\ current.uid # 0
        /\ approved[Action] = current.uid
    BY <2>1, <1>c, <1>d, <1>e DEF OnConsentedBoot, FirstPcs
  <2> QED
    BY <2>1, <2>2, <2>3, <1>f, BootMove DEF FirstPcs, MemoryPcs
<1>7. CASE BeginMemory
  <2>0. /\ w.pc = "begin" /\ Action = "configure-gpu-memory"
        /\ UNCHANGED <<posted, boot, approved, queued, ran>>
    BY <1>7 DEF BeginMemory, Begin, kubeVars, hostVars
  <2>1. ASSUME NEW p \in {"carveout", "ttm"}, NEW stage,
               Update([current EXCEPT !.phase = "Preparing", !.stage = stage], p, TRUE)
        PROVE  OnConsentedBoot' /\ RestartSeen'
    <3>1. current'.uid = current.uid /\ current'.boot = current.boot /\ current'.phase = "Preparing"
      BY <1>0, <2>1 DEF Update, Currents
    <3>2. Point' = p
      BY <2>1 DEF Update, Point
    <3>3. posted[current.uid].boot = boot /\ Begun /\ current.uid # 0
      BY <2>0, <1>c, <1>d, <1>e DEF OnConsentedBoot, FirstPcs
    <3>4. op.uid = current.uid /\ op.phase = "Pending"
      BY <2>0 DEF Acknowledged, BegunPcs
    <3>5. Touched' = Touched /\ Count("shutdown")' = 0
      BY <2>0, <3>1, <3>3, <3>4, <1>0, <1>f DEF Counts, Count
    <3> QED
      BY <2>0, <3>1, <3>2, <3>3, <3>5, BootMove DEF FirstPcs
  <2> QED
    BY <1>7, <2>0, <2>1, <1>b, <1>c DEF BeginMemory, ApplyDynamicMemory
<1>8. CASE BeginPrepare
  <2>0. /\ w.pc = "begin" /\ Action = "prepare-gpu"
        /\ UNCHANGED <<posted, boot, approved, queued, ran>>
    BY <1>8 DEF BeginPrepare, Begin, kubeVars, hostVars
  <2>1. PICK stage \in {"profile", "unverified"} :
          Update([current EXCEPT !.phase = "Preparing", !.stage = stage], "capture", TRUE)
    BY <1>8 DEF BeginPrepare
  <2>2. current'.uid = current.uid /\ current'.boot = current.boot
    BY <1>0, <2>1 DEF Update, Currents
  <2>3. Point' = "capture"
    BY <2>1 DEF Update, Point
  <2>4. posted[current.uid].boot = boot /\ Begun /\ current.uid # 0
    BY <2>0, <1>c, <1>d, <1>e DEF OnConsentedBoot, FirstPcs
  <2> QED
    BY <2>0, <2>2, <2>3, <2>4, <1>f, BootMove DEF FirstPcs
<1>9. CASE FinishLocal
  BY <1>9, <1>b, <1>c DEF FinishLocal, kubeVars, hostVars
<1>10. CASE MemoryReboot
  <2>0. /\ w.pc = "memreboot" /\ UNCHANGED <<posted, boot, approved, queued, ran>>
    BY <1>10 DEF MemoryReboot, kubeVars
  <2>1. /\ Action = "configure-gpu-memory" /\ Begun /\ Point = "memreboot" /\ current.uid # 0
    BY <2>0, <1>c, <1>d, <1>e DEF Fits, MemoryPcs
  <2>2. CASE Fail
    BY <2>0, <2>1, <2>2, <1>b DEF Fail
  <2>3. CASE /\ ~(current.reboots >= 2)
             /\ SchedulePower([current EXCEPT !.boot = boot, !.reboots = current.reboots + 1])
    <3> DEFINE again == [current EXCEPT !.boot = boot, !.reboots = current.reboots + 1]
    <3>1. current.reboots + 1 \in 0 .. 2
      BY <1>0, <2>3 DEF Currents
    <3>2. again \in Currents /\ again.uid = current.uid
      BY <1>0, <3>1, RestartType
    <3>3. again.boot = boot
      BY <1>0 DEF Currents
    <3>4. SchedulePower(again)
      BY <2>3
    <3> HIDE DEF again
    <3>5. CASE Rests
      BY <2>0, <2>1, <3>5, <1>a
    <3>6. CASE ~Rests
      <4>1. /\ current'.uid = current.uid /\ current'.boot = boot /\ Point' = "shutdown"
            /\ current'.phase \in {"RebootScheduled", "PoweroffScheduled"}
        BY <3>2, <3>3, <3>4, <3>6, ScheduleBoot
      <4>2. Touched
        BY <2>1 DEF OnConsentedBoot
      <4>3. Count("shutdown") > 0 => posted[current.uid].boot < boot
        BY <2>1 DEF RestartSeen, MemoryPcs
      <4>4. Touched' = Touched /\ Count("shutdown")' = Count("shutdown")
        BY <2>0, <4>1, <1>0, <1>f
      <4> QED
        BY <2>0, <2>1, <4>1, <4>2, <4>3, <4>4, BootMove DEF FirstPcs
    <3> QED
      BY <3>5, <3>6
  <2> QED
    BY <1>10, <2>2, <2>3 DEF MemoryReboot
<1>11. CASE CaptureActivation
  <2>0. w.pc = "capture" /\ UNCHANGED <<posted, boot, approved, queued, ran>>
    BY <1>11 DEF CaptureActivation, hostVars
  <2>1. CASE Raise
    BY <2>0, <2>1, <1>a, <1>c, RaiseRests
  <2>2. CASE w' = Goto("packages") /\ UNCHANGED current
    <3>1. Point' = "packages" /\ current.uid # 0 /\ Begun
      BY <2>0, <2>2, <1>c, <1>d, <1>e DEF Goto, Point, Workers
    <3>2. posted[current.uid].boot = boot /\ Action = "prepare-gpu"
      BY <2>0, <1>d, <1>e DEF OnConsentedBoot, FirstPcs, Fits, PreparePcs
    <3> QED
      BY <2>0, <2>2, <3>1, <3>2, <1>f, BootMove DEF FirstPcs
  <2> QED
    BY <1>11, <2>1, <2>2 DEF CaptureActivation
<1>12. CASE PackagesInstalled
  <2>0. w.pc = "prepared" /\ UNCHANGED <<posted, boot, approved, queued, ran>>
    BY <1>12 DEF PackagesInstalled, kubeVars
  <2>1. /\ posted[current.uid].boot = boot /\ Action = "prepare-gpu" /\ current.uid # 0 /\ Begun
        /\ w \in Workers
    BY <2>0, <1>c, <1>d, <1>e DEF OnConsentedBoot, FirstPcs, Fits, PreparePcs
  <2>2. CASE Fail
    BY <2>0, <2>1, <2>2, <1>b DEF Fail
  <2>3. CASE w' = Goto("profile") /\ UNCHANGED current
    <3>1. Point' = "profile"
      BY <2>1, <2>3 DEF Goto, Point, Workers
    <3> QED
      BY <2>0, <2>1, <2>3, <3>1, <1>f, BootMove DEF FirstPcs
  <2>4. CASE SchedulePower(current)
    <3>1. CASE Rests
      BY <2>0, <2>1, <3>1, <1>a
    <3>2. CASE ~Rests
      <4>1. current'.uid = current.uid /\ current'.boot = current.boot /\ Point' = "shutdown"
        BY <1>0, <2>4, <3>2, ScheduleBoot
      <4> QED
        BY <2>0, <2>1, <4>1, <1>f, BootMove DEF FirstPcs
    <3> QED
      BY <3>1, <3>2
  <2> QED
    BY <1>12, <2>2, <2>3, <2>4 DEF PackagesInstalled
<1>13. CASE Register
  <2>0. /\ w.pc = "register" /\ UNCHANGED <<posted, boot, approved, queued, ran>>
        /\ Update([current EXCEPT !.phase = "Registering", !.boot = boot], "end", w.caught)
    BY <1>13 DEF Register, kubeVars
  <2>1. current'.uid = current.uid /\ current'.boot = boot /\ current'.phase = "Registering"
    BY <1>0, <2>0 DEF Update, Currents
  <2>2. Point' = "end" /\ current.uid # 0 /\ Begun
    BY <2>0, <1>c, <1>d, <1>e DEF Update, Point
  <2> QED
    BY <2>0, <2>1, <2>2, <1>f, BootMove DEF FirstPcs, MemoryPcs
<1>14. CASE PatchOk
  <2>1. /\ w.pc = "patch" /\ current' = current /\ UNCHANGED <<posted, boot, approved, queued, ran>>
        /\ w'.pc = IF w.next = "end" THEN "idle" ELSE w.next
    BY <1>14 DEF PatchOk, Idle, fileVars, hostVars
  <2>2. current.uid # 0 /\ w.next \in AckedPcs \cup {"end"} /\ Point = w.next
    BY <2>1, <1>c DEF Serial, Point
  <2>3. CASE w.next = "end"
    <3>1. Rests
      BY <2>1, <2>3 DEF Rests, Point, BegunPcs
    <3> QED
      BY <2>1, <2>2, <3>1, <1>a
  <2>4. CASE w.next # "end"
    <3>1. Point' = Point /\ w'.pc \notin BegunPcs /\ Action' = Action
      BY <2>1, <2>2, <2>4 DEF Point, AckedPcs, Action
    <3>2. Begun' => Begun
      BY <2>1, <3>1 DEF Begun
    <3>3. OnConsentedBoot'
      BY <2>1, <3>1, <1>f DEF OnConsentedBoot
    <3>4. RestartSeen'
      BY <2>1, <3>1, <3>2, <1>0, <1>f DEF RestartSeen
    <3> QED
      BY <3>3, <3>4
  <2> QED
    BY <2>3, <2>4
<1>15. ASSUME NEW stored \in BOOLEAN, PatchError(stored) PROVE OnConsentedBoot' /\ RestartSeen'
  BY <1>15, <1>a, <1>c, RaiseRests DEF PatchError, hostVars
\* A command that ends the tick, and the exceptions of all of them.
<1>g. ASSUME w'.pc = "idle", current' = current, current.uid # 0,
             UNCHANGED <<posted, boot, approved, queued>>,
             ran' = ran \/ \E e \in Effects : Ran(current.uid, e)
      PROVE  OnConsentedBoot' /\ RestartSeen'
  <2>1. Rests
    BY <1>g DEF Rests, Point, BegunPcs
  <2> QED
    BY <1>g, <2>1, <1>a
<1>h. ASSUME Raise, current.uid # 0, UNCHANGED <<posted, boot, approved, queued>>,
             ran' = ran \/ \E e \in Effects : Ran(current.uid, e)
      PROVE  OnConsentedBoot' /\ RestartSeen'
  BY <1>h, <1>a, RaiseRests
<1>16. ASSUME NEW error \in BOOLEAN, NEW done \in BOOLEAN, Shutdown(error, done)
       PROVE  OnConsentedBoot' /\ RestartSeen'
  <2>1. /\ UNCHANGED <<posted, boot, approved, queued>> /\ w.pc = "shutdown"
        /\ ran' = ran \/ \E e \in Effects : Ran(current.uid, e)
        /\ Raise \/ (w' = Idle /\ current' = current)
    BY <1>16 DEF Shutdown, Effects, kubeVars
  <2> QED
    BY <2>1, <1>c, <1>g, <1>h DEF Idle
<1>17. ASSUME NEW error \in BOOLEAN, NEW done \in BOOLEAN, EnableGpuProfile(error, done)
       PROVE  OnConsentedBoot' /\ RestartSeen'
  <2>1. /\ UNCHANGED <<posted, boot, approved, queued>> /\ w.pc = "profile"
        /\ ran' = ran \/ \E e \in Effects : Ran(current.uid, e)
        /\ \/ Raise
           \/ w' = Goto("register") /\ current' = current
           \/ \E phase \in {"PreparedUnverified", "Interrupted"} :
                Update(To(phase), "end", w.caught) /\ ran' = ran
    BY <1>17 DEF EnableGpuProfile, Effects, hostVars
  <2>2. CASE w' = Goto("register") /\ current' = current
    <3>1. Point' = "register" /\ current.uid # 0 /\ Begun /\ Action = "prepare-gpu"
      BY <2>1, <2>2, <1>c, <1>d, <1>e DEF Goto, Point, Workers, Fits, PreparePcs
    <3>2. Touched => Touched'
      BY <2>1, <2>2, <1>c, StaysTouched
    <3> QED
      BY <2>1, <2>2, <3>1, <3>2, BootMove DEF FirstPcs
  <2>3. ASSUME NEW phase \in {"PreparedUnverified", "Interrupted"},
               Update(To(phase), "end", w.caught), ran' = ran
        PROVE  OnConsentedBoot' /\ RestartSeen'
    BY <2>1, <2>3, <1>b, <1>c
  <2> QED
    BY <2>1, <2>2, <2>3, <1>c, <1>h
<1>18. ASSUME NEW error \in BOOLEAN, NEW done \in BOOLEAN, StartJob(error, done)
       PROVE  OnConsentedBoot' /\ RestartSeen'
  <2>1. /\ UNCHANGED <<posted, boot, approved>> /\ w.pc = "start"
        /\ queued' \in {queued, [queued EXCEPT ![Action] = TRUE]}
        /\ ran' = ran \/ \E e \in Effects : Ran(current.uid, e)
        /\ Raise \/ (w' = Idle /\ current' = current)
    BY <1>18 DEF StartJob, Effects, kubeVars
  <2>2. /\ approved[Action] = current.uid /\ posted[current.uid].boot = boot
        /\ Action \in ServiceActions
    BY <2>1, <1>d, <1>e DEF OnConsentedBoot, FirstPcs, Fits
  <2>3. Rests
    <3>1. CASE w' = Idle /\ current' = current
      BY <3>1 DEF Rests, Idle, Point, BegunPcs
    <3> QED
      BY <2>1, <3>1, RaiseRests
  <2>4. \A a \in ServiceActions :
          queued'[a] => queued[a] \/ (approved[a] = current.uid /\ posted[current.uid].boot = boot)
    BY <2>1, <2>2 DEF TypeOK
  <2> QED
    BY <2>1, <2>3, <2>4, <1>c, BootRest
<1>19. ASSUME NEW error \in BOOLEAN, NEW done \in BOOLEAN, NEW e \in Commands,
              RunCommand(e, error, done)
       PROVE  OnConsentedBoot' /\ RestartSeen'
  <2>1. /\ UNCHANGED <<posted, boot, approved, queued>> /\ w.pc = e
        /\ ran' = ran \/ Ran(current.uid, e)
        /\ Raise \/ (w' = Goto(After(e)) /\ current' = current)
    BY <1>19 DEF RunCommand, kubeVars, hostVars
  <2>2. e \in Effects /\ current.uid # 0 /\ current.uid \in Uids /\ Begun /\ Fits(e) /\ Point = e
    BY <2>1, <1>c, <1>d, <1>e DEF Effects
  <2>3. CASE Raise
    BY <2>1, <2>2, <2>3, <1>h
  <2>4. CASE ~Raise
    <3>1. current' = current /\ w' = Goto(After(e)) /\ (Ran(current.uid, e) \/ e = "packages")
      BY <1>19, <2>4 DEF RunCommand
    <3>2. Point' = After(e)
      <4>1. After(e) \in {"finish", "prepared", "memreboot"}
        BY DEF After
      <4> QED
        BY <3>1, <4>1, <2>1, <1>c DEF Goto, Point, Workers
    <3>3. Touched => Touched'
      BY <2>1, <2>2, <3>1, StaysTouched
    <3>4. CASE e \in {"carveout", "ttm"}
      <4>1. Point' = "memreboot" /\ Action = "configure-gpu-memory"
        BY <2>2, <3>2, <3>4 DEF After, Fits, MemoryPcs
      <4>2. Touched' /\ Count("shutdown")' = Count("shutdown")
        BY <1>0, <2>2, <3>1, <3>4, EffectTouches
      <4>3. Count("shutdown") > 0 => posted[current.uid].boot < boot
        BY <2>2, <3>4, <4>1 DEF RestartSeen, MemoryPcs
      <4>4. current.phase = "Verifying" => posted[current.uid].boot < current.boot
        BY <2>2, <4>1 DEF RestartSeen
      <4> QED
        BY <2>1, <2>2, <3>1, <4>1, <4>2, <4>3, <4>4, BootMove DEF FirstPcs
    <3>5. CASE e = "local"
      <4>1. Point' = "finish" /\ Action \in LocalActions
        BY <2>2, <3>2, <3>5 DEF After, Fits
      <4> QED
        BY <2>1, <2>2, <3>1, <3>3, <4>1, BootMove DEF FirstPcs, LocalActions
    <3>6. CASE e = "packages"
      <4>1. Point' = "prepared" /\ Action = "prepare-gpu"
        BY <2>2, <3>2, <3>6 DEF After, Fits, PreparePcs
      <4>2. posted[current.uid].boot = boot
        BY <2>2, <3>6 DEF OnConsentedBoot, FirstPcs
      <4> QED
        BY <2>1, <2>2, <3>1, <3>3, <4>1, <4>2, BootMove DEF FirstPcs
    <3> QED
      BY <3>4, <3>5, <3>6
  <2> QED
    BY <2>3, <2>4
<1> QED
  BY <1>1, <1>2, <1>3, <1>4, <1>5, <1>6, <1>7, <1>8, <1>9, <1>10, <1>11, <1>12, <1>13, <1>14,
     <1>15, <1>16, <1>17, <1>18, <1>19 DEF Continue

\* What others do leaves the boot of an operation alone: the dashboard, the
\* services, a restart of the host.
LEMMA BootOutside ==
  ASSUME TypeOK, TypeOK', Identity, Serial, ServiceOnce, OnConsentedBoot, RestartSeen,
         Dashboard \/ Services \/ Environment
  PROVE  OnConsentedBoot' /\ RestartSeen'
<1>0. /\ newest \in 0 .. MaxOps /\ current.uid \in 0 .. newest /\ current \in Currents
      /\ w.pc # "idle" => lock = "free" /\ current.uid # 0
      /\ current.uid # 0 => current.uid \in Uids /\ posted[current.uid] \in Specs
      /\ boot \in Nat /\ current.boot \in Nat
  <2>1. /\ newest \in 0 .. MaxOps /\ current.uid \in 0 .. newest /\ current \in Currents
        /\ w.pc # "idle" => lock = "free" /\ current.uid # 0
        /\ current.uid # 0 => current.uid \in Uids /\ posted[current.uid] \in Specs
    BY Known
  <2>2. boot \in Nat
    BY BoundsAssumption DEF TypeOK
  <2>3. current.boot \in Nat
    BY <2>1, BoundsAssumption DEF Currents
  <2> QED
    BY <2>1, <2>2, <2>3
\* The tick is where it was, or it is dead.
<1>a. ASSUME current' = current, boot' \in Nat, boot <= boot', w'.pc = "idle" \/ (w' = w /\ boot' = boot),
             current.uid # 0 => posted'[current.uid] = posted[current.uid],
             \A a \in ServiceActions :
               /\ queued'[a] => queued[a] /\ boot' = boot
               /\ approved'[a] # 0 =>
                    approved'[a] = approved[a] /\ posted'[approved[a]] = posted[approved[a]],
             w.pc # "idle" => w'.pc = "idle" \/ approved' = approved,
             current.uid # 0 => (Touched => Touched') /\ Count("shutdown")' = Count("shutdown")
      PROVE  OnConsentedBoot' /\ RestartSeen'
  <2>1. current.uid # 0 => Action' = Action
    BY <1>a DEF Action
  <2>2. Point' = "idle" \/ (Point' = Point /\ boot' = boot)
    BY <1>a DEF Point
  <2>3. Point' # "idle" => w.pc # "idle" /\ w'.pc # "idle" /\ current.uid # 0 /\ approved' = approved
    BY <1>0, <1>a DEF Point
  <2>4. \A a \in ServiceActions : queued'[a] /\ approved'[a] # 0 => posted'[approved'[a]].boot = boot'
    BY <1>a DEF OnConsentedBoot
  <2>5. current.uid = 0 => current.phase = "none"
    BY DEF Identity
  <2>6. OnConsentedBoot'
    BY <1>a, <2>1, <2>2, <2>3, <2>4, <2>5 DEF OnConsentedBoot, FirstPcs
  <2>7. current.uid # 0 => (Begun' => Begun)
    BY <1>a, <2>1 DEF Begun, BegunPcs
  <2>8. RestartSeen'
    BY <1>0, <1>a, <2>1, <2>2, <2>7 DEF RestartSeen, MemoryPcs
  <2> QED
    BY <2>6, <2>8
<1>b. ASSUME current' = current, boot' = boot, w'.pc = "idle" \/ w' = w,
             UNCHANGED <<posted, ran, queued, approved>>
      PROVE  OnConsentedBoot' /\ RestartSeen'
  <2>1. Touched' = Touched /\ Count("shutdown")' = Count("shutdown")
    BY <1>b DEF Touched, Count
  <2> QED
    BY <1>0, <1>a, <1>b, <2>1
<1>1. ASSUME NEW r \in Requests, (\E a \in Actions : DashGet(r, a)) \/ DashDelete(r) \/ DashAbort(r)
      PROVE  OnConsentedBoot' /\ RestartSeen'
  BY <1>1, <1>b DEF DashGet, DashDelete, DashAbort, fileVars, hostVars
<1>2. ASSUME NEW r \in Requests, DashPost(r) PROVE OnConsentedBoot' /\ RestartSeen'
  <2>1. CASE op.uid # 0
    BY <1>2, <2>1, <1>b DEF DashPost, fileVars, hostVars
  <2>2. CASE op.uid = 0
    <3>1. /\ posted' = [posted EXCEPT ![newest + 1] = dash[r].spec] /\ w' = w
          /\ UNCHANGED <<current, boot, ran, queued, approved>>
      BY <1>2, <2>2 DEF DashPost, fileVars, hostVars
    <3>2. \A u \in 1 .. newest : posted'[u] = posted[u]
      <4>1. newest \in Nat /\ \A u \in 1 .. newest : u \in Uids /\ u # newest + 1
        BY <1>0, BoundsAssumption DEF Uids
      <4> QED
        BY <3>1, <4>1 DEF TypeOK
    <3>3. current.uid # 0 => posted'[current.uid] = posted[current.uid]
      BY <1>0, <3>2
    <3>4. \A a \in ServiceActions : approved[a] # 0 => posted'[approved[a]] = posted[approved[a]]
      <4>1. \A a \in ServiceActions : approved[a] \in 0 .. newest
        BY <1>0, BoundsAssumption DEF Identity, TypeOK
      <4> QED
        BY <1>0, <3>2, <4>1
    <3>5. Touched' = Touched /\ Count("shutdown")' = Count("shutdown")
      BY <3>1 DEF Touched, Count
    <3> QED
      BY <1>0, <1>a, <3>1, <3>3, <3>4, <3>5
  <2> QED
    BY <2>1, <2>2
<1>3. ASSUME NEW a \in ServiceActions, StartService(a) PROVE OnConsentedBoot' /\ RestartSeen'
  <2>1. /\ UNCHANGED <<posted, current, approved, boot, w>>
        /\ queued' = [queued EXCEPT ![a] = FALSE] /\ Ran(approved[a], "service")
        /\ approved[a] \in Uids
    BY <1>3, ServiceFresh DEF StartService, kubeVars
  <2>2. ran \in [Uids -> [Effects -> Nat]] /\ "service" \in Effects /\ "shutdown" \in Effects
    BY DEF TypeOK, Effects
  <2>3. \A u \in Uids : \A e \in Effects :
          ran'[u][e] = IF u = approved[a] /\ e = "service" THEN ran[u][e] + 1 ELSE ran[u][e]
    BY <2>1, <2>2 DEF Ran
  <2>4. current.uid # 0 => (Touched => Touched') /\ Count("shutdown")' = Count("shutdown")
    <3>1. ASSUME current.uid # 0, NEW e \in Effects, Count(e) > 0 PROVE Count(e)' > 0
      BY <1>0, <2>1, <2>2, <2>3, <3>1 DEF Count
    <3>2. current.uid # 0 => Count("shutdown")' = Count("shutdown")
      BY <1>0, <2>1, <2>2, <2>3 DEF Count
    <3> QED
      BY <3>1, <3>2 DEF Touched
  <2>5. \A b \in ServiceActions : queued'[b] => queued[b]
    BY <2>1 DEF TypeOK
  <2> QED
    BY <1>0, <1>a, <2>1, <2>4, <2>5
<1>4. ASSUME NEW a \in ServiceActions, RefuseService(a) PROVE OnConsentedBoot' /\ RestartSeen'
  <2>1. /\ UNCHANGED <<posted, current, boot, w, ran>> /\ w.pc = "idle"
        /\ queued' = [queued EXCEPT ![a] = FALSE]
        /\ approved' \in {approved, [approved EXCEPT ![a] = 0]}
    BY <1>4 DEF RefuseService, kubeVars
  <2>2. \A b \in ServiceActions :
          (queued'[b] => queued[b]) /\ (approved'[b] # 0 => approved'[b] = approved[b])
    BY <2>1 DEF TypeOK
  <2>3. Touched' = Touched /\ Count("shutdown")' = Count("shutdown")
    BY <2>1 DEF Touched, Count
  <2> QED
    BY <1>0, <1>a, <2>1, <2>2, <2>3
<1>5. ASSUME NEW a \in ServiceActions, NEW published \in BOOLEAN,
             NEW phase \in {"Succeeded", "Failed", "Interrupted", "RolledBack"},
             FinishService(a, phase, published)
      PROVE  OnConsentedBoot' /\ RestartSeen'
  <2>1. /\ UNCHANGED <<posted, current, boot, w, ran, queued>> /\ lock = a
        /\ approved' \in {approved, [approved EXCEPT ![a] = 0]}
    BY <1>5 DEF FinishService
  <2>2. w.pc = "idle"
    BY <1>0, <2>1 DEF ServiceActions
  <2>3. \A b \in ServiceActions : approved'[b] # 0 => approved'[b] = approved[b]
    BY <2>1 DEF TypeOK
  <2>4. Touched' = Touched /\ Count("shutdown")' = Count("shutdown")
    BY <2>1 DEF Touched, Count
  <2> QED
    BY <1>0, <1>a, <2>1, <2>2, <2>3, <2>4
<1>6. CASE Reboot
  <2>1. /\ UNCHANGED <<posted, current, ran>> /\ boot' = boot + 1 /\ w'.pc = "idle"
        /\ queued' = [a \in ServiceActions |-> FALSE]
        /\ approved' = [approved EXCEPT !["configure-network"] = 0]
    BY <1>6 DEF Reboot, Idle, kubeVars
  <2>2. \A b \in ServiceActions : ~queued'[b] /\ (approved'[b] # 0 => approved'[b] = approved[b])
    BY <2>1 DEF TypeOK
  <2>3. Touched' = Touched /\ Count("shutdown")' = Count("shutdown")
    BY <2>1 DEF Touched, Count
  <2> QED
    BY <1>0, <1>a, <2>1, <2>2, <2>3
<1>7. CASE LoseState
  <2>1. /\ current' = NoCurrent /\ w.pc = "idle" /\ UNCHANGED <<posted, boot, w, queued, approved>>
    BY <1>7 DEF LoseState, kubeVars, hostVars
  <2>2. /\ Point' = "idle" /\ current'.uid = 0 /\ current'.phase = "none" /\ current'.boot = 0
    BY <2>1 DEF Point, NoCurrent
  <2> QED
    BY <1>0, <2>1, <2>2 DEF OnConsentedBoot, RestartSeen, FirstPcs, MemoryPcs
<1>8. CASE KubeletPublishes \/ CrashWorker \/ TimePasses \/ AdminShutdown \/ AdminActivation
  BY <1>8, <1>b DEF KubeletPublishes, CrashWorker, TimePasses, AdminShutdown, AdminActivation,
    kubeVars, fileVars, hostVars, Idle
<1> QED
  BY <1>1, <1>2, <1>3, <1>4, <1>5, <1>6, <1>7, <1>8 DEF Dashboard, Services, Environment

\* Inv together with what is known of the boots.
BootInv == Inv /\ OnConsentedBoot /\ RestartSeen

\* BootInv holds on a freshly installed host and is kept by every step.
LEMMA BootInvInductive == (Init => BootInv) /\ (BootInv /\ [Next]_vars => BootInv')
<1>1. Init => BootInv
  <2> SUFFICES ASSUME Init PROVE BootInv
    OBVIOUS
  <2>1. /\ Point = "idle" /\ current.uid = 0 /\ current.phase = "none" /\ current.boot = 0 /\ boot = 1
        /\ \A a \in ServiceActions : ~queued[a]
    BY DEF Init, Point, Idle, NoCurrent
  <2> QED
    BY <2>1, InitInv DEF BootInv, OnConsentedBoot, FirstPcs, RestartSeen
<1>2. ASSUME BootInv, [Next]_vars PROVE BootInv'
  <2>1. Inv /\ Inv' /\ OnConsentedBoot /\ RestartSeen
    BY <1>2, NextInv DEF BootInv
  <2>2. CASE UNCHANGED vars
    <3>1. Point' = Point /\ Action' = Action /\ \A e \in Effects : Count(e)' = Count(e)
      BY <2>2 DEF vars, kubeVars, fileVars, hostVars, Point, Action, Count
    <3>2. Touched' = Touched /\ Begun' = Begun
      BY <2>2, <3>1 DEF Touched, Begun, vars, fileVars
    <3>3. OnConsentedBoot'
      BY <2>1, <2>2, <3>1, <3>2 DEF OnConsentedBoot, vars, kubeVars, fileVars, hostVars
    <3>4. RestartSeen'
      BY <2>1, <2>2, <3>1, <3>2 DEF RestartSeen, Effects, vars, kubeVars, fileVars, hostVars
    <3> QED
      BY <2>1, <3>3, <3>4 DEF BootInv
  <2>3. CASE Next
    <3>1. TypeOK /\ TypeOK' /\ Identity /\ Serial /\ Acknowledged /\ Counts /\ ServiceOnce
      BY <2>1 DEF Inv
    <3>2. OnConsentedBoot' /\ RestartSeen'
      BY <2>1, <2>3, <3>1, BootTick, BootContinue, BootOutside DEF Next
    <3> QED
      BY <2>1, <3>2 DEF BootInv
  <2> QED
    BY <1>2, <2>2, <2>3
<1> QED
  BY <1>1, <1>2

\* Which step has which effect, and for whom.
LEMMA WhoRan ==
  ASSUME Inv, Next
  PROVE  \/ ran' = ran
         \/ w.pc \in Commands \cup {"shutdown", "start"} /\ Ran(current.uid, w.pc)
         \/ w.pc = "profile" /\ Ran(current.uid, "activate")
         \/ \E a \in ServiceActions : StartService(a)
<1>1. CASE Dashboard
  BY <1>1 DEF Dashboard, DashGet, DashDelete, DashPost, DashAbort
<1>2. CASE Tick
  BY <1>2 DEF Tick, Accept, Reacknowledge, InterruptUnfinished, NoBoot, VerifyMemory,
    ReconcileService, ObserveBoot, VerifyPrepare, VerifyRegistration
<1>3. CASE Continue
  <2>1. ASSUME NEW error \in BOOLEAN, NEW done \in BOOLEAN,
               \/ Shutdown(error, done) \/ EnableGpuProfile(error, done) \/ StartJob(error, done)
               \/ \E e \in Commands : RunCommand(e, error, done)
        PROVE  \/ ran' = ran
               \/ w.pc \in Commands \cup {"shutdown", "start"} /\ Ran(current.uid, w.pc)
               \/ w.pc = "profile" /\ Ran(current.uid, "activate")
    BY <2>1 DEF Shutdown, EnableGpuProfile, StartJob, RunCommand
  <2> QED
    BY <1>3, <2>1 DEF Continue, Reject, BeginRefused, BeginPower, BeginLocal, BeginService,
      QueueService, BeginMemory, BeginPrepare, FinishLocal, MemoryReboot, CaptureActivation,
      PackagesInstalled, Register, PatchOk, PatchError
<1>4. CASE Services
  BY <1>4 DEF Services, RefuseService, FinishService
<1>5. CASE Environment
  BY <1>5 DEF Environment, Reboot, KubeletPublishes, CrashWorker, LoseState, TimePasses,
    AdminShutdown, AdminActivation
<1> QED
  BY <1>1, <1>2, <1>3, <1>4, <1>5 DEF Next

\* A request consents to one boot: an operation that waited across a restart
\* never has its first effect on the new boot (validate_request compares the
\* boot identity, and an unfinished tick is never continued after a restart).
THEOREM FirstEffectOnConsentedBoot == Spec => ConsentedBoot
<1> DEFINE Consented ==
      \A u \in 1 .. newest :
        /\ \A e \in Effects : ran[u][e] = 0
        /\ \E e \in Effects \ {"activate"} : ran'[u][e] # ran[u][e]
        => posted[u].boot = boot
<1>1. ASSUME BootInv, Next PROVE Consented
  <2> SUFFICES ASSUME NEW u \in 1 .. newest, \A e \in Effects : ran[u][e] = 0,
                      NEW e \in Effects \ {"activate"}, ran'[u][e] # ran[u][e]
               PROVE  posted[u].boot = boot
    OBVIOUS
  <2>0. /\ TypeOK /\ Identity /\ Serial /\ Acknowledged /\ ServiceOnce /\ OnConsentedBoot
        /\ ran \in [Uids -> [Effects -> Nat]] /\ u \in Uids
    BY <1>1, BoundsAssumption DEF BootInv, Inv, TypeOK, Uids
  <2>1. CASE w.pc \in Commands \cup {"shutdown", "start"} /\ Ran(current.uid, w.pc)
    <3>1. /\ w.pc \in AckedPcs /\ current.uid \in Uids /\ Point = w.pc
      BY <2>0, <2>1, AckedFacts DEF AckedPcs, BegunPcs
    <3>2. u = current.uid
      BY <2>0, <2>1, <3>1 DEF Ran
    <3>3. ~Touched
      BY <3>2 DEF Touched, Count
    <3> QED
      BY <2>0, <2>1, <3>1, <3>2, <3>3 DEF OnConsentedBoot, FirstPcs
  <2>2. CASE w.pc = "profile" /\ Ran(current.uid, "activate")
    BY <2>0, <2>2 DEF Ran
  <2>3. ASSUME NEW a \in ServiceActions, StartService(a) PROVE posted[u].boot = boot
    <3>1. approved[a] \in Uids /\ approved[a] # 0
      BY <2>0, <2>3, ServiceFresh, BoundsAssumption
    <3>2. Ran(approved[a], "service") /\ queued[a]
      BY <2>3 DEF StartService
    <3>3. u = approved[a]
      BY <2>0, <3>1, <3>2 DEF Ran
    <3> QED
      BY <2>0, <3>1, <3>2, <3>3 DEF OnConsentedBoot
  <2> QED
    BY <1>1, <2>1, <2>2, <2>3, WhoRan DEF BootInv
<1>2. ASSUME BootInv, [Next]_vars PROVE [Consented]_vars
  BY <1>1, <1>2
<1> QED
  BY <1>2, BootInvInductive, PTL DEF Spec, ConsentedBoot

\* A memory change restarts the host a second time only on a later boot than
\* the one it was asked for on (NoBoot: a restart that does not come is never
\* scheduled again).
THEOREM RestartsAreSeen == Spec => SecondRestartAfterBoot
<1> DEFINE Seen ==
      \A u \in 1 .. newest :
        ran[u]["shutdown"] = 1 /\ ran'[u]["shutdown"] = 2 => boot # posted[u].boot
<1>1. ASSUME BootInv, Next PROVE Seen
  <2> SUFFICES ASSUME NEW u \in 1 .. newest, ran[u]["shutdown"] = 1, ran'[u]["shutdown"] = 2
               PROVE  boot # posted[u].boot
    OBVIOUS
  <2>a. TypeOK /\ Identity /\ Serial /\ Acknowledged /\ ServiceOnce /\ Counts /\ RestartSeen
    BY <1>1 DEF BootInv, Inv
  <2>b. u \in Uids /\ "shutdown" \in Effects
    BY <2>a, BoundsAssumption DEF TypeOK, Uids, Effects
  <2>0. ran \in [Uids -> [Effects -> Nat]] /\ u \in Uids /\ "shutdown" \in Effects
    BY <2>a, <2>b DEF TypeOK
  <2>1. CASE w.pc \in Commands \cup {"shutdown", "start"} /\ Ran(current.uid, w.pc)
    <3>1. /\ w.pc \in AckedPcs /\ current.uid \in Uids /\ Point = w.pc /\ current \in Currents
          /\ Fits(w.pc) /\ current.uid # 0 /\ posted[current.uid] \in Specs
      BY <2>a, <2>0, <2>1, AckedFacts, Known DEF AckedPcs, BegunPcs
    <3>2. u = current.uid /\ w.pc = "shutdown"
      BY <2>a, <2>0, <2>1, <3>1 DEF Ran
    <3>3. Count("shutdown") = 1
      BY <3>2 DEF Count
    <3>4. Action = "configure-gpu-memory"
      BY <2>a, <2>0, <3>1, <3>2, <3>3 DEF Counts
    <3>5. posted[current.uid].boot < boot
      BY <2>a, <2>0, <3>1, <3>2, <3>3, <3>4 DEF RestartSeen
    <3>6. boot \in Nat /\ posted[current.uid].boot \in Nat
      BY <2>a, <2>0, <3>1, BoundsAssumption DEF TypeOK, Specs
    <3> QED
      BY <3>2, <3>5, <3>6
  <2>2. CASE w.pc = "profile" /\ Ran(current.uid, "activate")
    BY <2>a, <2>0, <2>2 DEF Ran
  <2>3. ASSUME NEW a \in ServiceActions, StartService(a) PROVE FALSE
    <3>1. Ran(approved[a], "service")
      BY <2>3 DEF StartService
    <3> QED
      BY <2>a, <2>0, <3>1 DEF Ran
  <2> QED
    BY <1>1, <2>1, <2>2, <2>3, WhoRan DEF BootInv
<1>2. ASSUME BootInv, [Next]_vars PROVE [Seen]_vars
  BY <1>1, <1>2
<1> QED
  BY <1>2, BootInvInductive, PTL DEF Spec, SecondRestartAfterBoot

-----------------------------------------------------------------------------
(* The replacement of the resource: NotReplaced.                           *)

\* A step that keeps the operation of state.json and the identity of the
\* resource, and shows a terminal phase only for a closed one or a trial.
LEMMA ReplaceKeep ==
  ASSUME Inv, Inv', Next, NotReplaced, current'.uid = current.uid, op'.uid = op.uid,
         current.uid # 0 => posted'[current.uid] = posted[current.uid],
         \/ op' = op
         \/ op.uid = 0
         \/ /\ op.uid = current.uid
            /\ op'.phase \in TERMINAL => current'.phase \in TERMINAL \/ IsTrial,
         \A a \in ServiceActions : approved'[a] \in {approved[a], current.uid, 0}
  PROVE  NotReplaced'
<1>1. IsTrial' = IsTrial
  BY DEF IsTrial, Action
<1>2. Active' => Active
  <2>1. current.uid = 0 => ~Active'
    BY DEF Inv, Identity, Active
  <2>2. current.phase = "none" => current.uid = 0
    BY DEF Inv, Identity
  <2> QED
    BY <2>1, <2>2, ClosedPhase DEF Active
<1>3. current.uid \in Nat
  BY BoundsAssumption DEF Inv, TypeOK, Currents
<1>4. current.phase \in TERMINAL => current'.phase \in TERMINAL
  BY ClosedPhase
<1>5. (Active' => op'.uid = current'.uid \/ IsTrial')
      /\ \A a \in ServiceActions : approved'[a] <= current'.uid
  BY <1>1, <1>2, <1>3 DEF NotReplaced
<1>6. op'.uid \notin {0, current'.uid} => op'.phase = "Pending"
  BY DEF NotReplaced
<1>7. op'.uid # 0 /\ op'.uid = current'.uid /\ op'.phase \in TERMINAL =>
        current'.phase \in TERMINAL \/ IsTrial'
  BY <1>1, <1>4 DEF NotReplaced
<1> QED
  BY <1>5, <1>6, <1>7 DEF NotReplaced

\* A write of the tick keeps the operation.
LEMMA SameUid ==
  ASSUME TypeOK
  PROVE  /\ \A phase : To(phase).uid = current.uid
         /\ Raise => current'.uid = current.uid
         /\ \A cur \in Currents : SchedulePower(cur) /\ cur.uid = current.uid => current'.uid = current.uid
<1>1. \A phase : To(phase).uid = current.uid
  BY DEF To, TypeOK, Currents
<1>2. \A cur \in Currents : [cur EXCEPT !.phase = ScheduledPhase].uid = cur.uid
  BY DEF Currents
<1> QED
  BY <1>1, <1>2 DEF Raise, Fail, Update, SchedulePower

\* Only the acceptance of a new resource changes the operation of a tick.
LEMMA TickUid ==
  ASSUME TypeOK, Tick \/ Continue, ~\E valid \in BOOLEAN : Accept(valid)
  PROVE  current'.uid = current.uid
<1>0. current \in Currents /\ boot \in 0 .. MaxBoots
  BY BoundsAssumption DEF TypeOK
<1>a. \A phase, next, caught : Update(To(phase), next, caught) => current'.uid = current.uid
  BY SameUid DEF Update
<1>b. ASSUME NEW stage, NEW phase, NEW next, NEW caught,
             Update([current EXCEPT !.phase = phase, !.stage = stage], next, caught)
      PROVE  current'.uid = current.uid
  BY <1>0, <1>b DEF Update, Currents
<1>c. ASSUME NEW b, NEW phase, NEW next, NEW caught,
             Update([current EXCEPT !.phase = phase, !.boot = b], next, caught)
      PROVE  current'.uid = current.uid
  BY <1>0, <1>c DEF Update, Currents
<1>1. CASE VerifyMemory
  <2>1. Update(current, "end", TRUE) => current'.uid = current.uid
    BY DEF Update
  <2> QED
    BY <1>1, <2>1, <1>a, <1>b DEF VerifyMemory, ApplyDynamicMemory, Fail
<1>2. ASSUME NEW kernel \in BOOLEAN, ObserveBoot(kernel) PROVE current'.uid = current.uid
  BY <1>2, <1>a, <1>c DEF ObserveBoot
<1>3. CASE Tick
  BY <1>3, <1>1, <1>2, <1>a DEF Tick, Reacknowledge, Update, InterruptUnfinished, NoBoot,
    ReconcileService, VerifyPrepare, VerifyRegistration, Fail
<1>4. CASE BeginPower \/ PackagesInstalled
  BY <1>0, <1>4, SameUid DEF BeginPower, PackagesInstalled, Fail, Update
<1>5. CASE MemoryReboot
  <2>1. CASE Fail
    BY <2>1, SameUid DEF Fail, Update
  <2>2. CASE /\ ~(current.reboots >= 2)
             /\ SchedulePower([current EXCEPT !.boot = boot, !.reboots = current.reboots + 1])
    <3> DEFINE again == [current EXCEPT !.boot = boot, !.reboots = current.reboots + 1]
    <3>1. current.reboots + 1 \in 0 .. 2
      BY <1>0, <2>2 DEF Currents
    <3>2. again \in Currents /\ again.uid = current.uid
      BY <1>0, <3>1, RestartType
    <3>3. SchedulePower(again)
      BY <2>2
    <3> HIDE DEF again
    <3> QED
      BY <3>2, <3>3, SameUid
  <2> QED
    BY <1>5, <2>1, <2>2 DEF MemoryReboot
<1>6. CASE Reject \/ BeginRefused \/ BeginLocal \/ BeginService \/ QueueService \/ FinishLocal
           \/ CaptureActivation \/ PatchOk \/ \E stored \in BOOLEAN : PatchError(stored)
  BY <1>6, SameUid DEF Reject, BeginRefused, BeginLocal, BeginService, QueueService, FinishLocal,
    CaptureActivation, PatchOk, PatchError, Fail, Update, fileVars
<1>7. CASE BeginMemory \/ BeginPrepare \/ Register
  BY <1>7, <1>a, <1>b, <1>c DEF BeginMemory, BeginPrepare, Register, ApplyDynamicMemory
<1>8. ASSUME NEW error \in BOOLEAN, NEW done \in BOOLEAN,
             \/ Shutdown(error, done) \/ EnableGpuProfile(error, done) \/ StartJob(error, done)
             \/ \E e \in Commands : RunCommand(e, error, done)
      PROVE  current'.uid = current.uid
  BY <1>8, SameUid DEF Shutdown, EnableGpuProfile, StartJob, RunCommand, Update
<1> QED
  BY <1>3, <1>4, <1>5, <1>6, <1>7, <1>8 DEF Continue

\* Every step that does not lose state.json keeps NotReplaced.
LEMMA ReplaceStep ==
  ASSUME Inv, NotReplaced, [Next]_vars, ~LoseState
  PROVE  NotReplaced'
<1>0. /\ TypeOK /\ Identity /\ Serial /\ Acknowledged /\ Inv'
      /\ newest \in Nat /\ op.uid \in {0, newest} /\ current.uid \in 0 .. newest
      /\ (current.uid = 0 <=> current.phase = "none")
      /\ (current.uid # 0 => current.uid \in Uids)
  <2>1. TypeOK /\ Identity /\ Serial /\ Acknowledged /\ Inv'
    BY NextInv DEF Inv
  <2> QED
    BY <2>1, Known, BoundsAssumption DEF Identity
<1>1. CASE UNCHANGED vars
  BY <1>1 DEF NotReplaced, Active, IsTrial, Action, vars, kubeVars, fileVars
<1>2. ASSUME Next, UNCHANGED <<posted, op, approved>>, current'.uid = current.uid PROVE NotReplaced'
  BY <1>0, <1>2, ReplaceKeep
<1>3. ASSUME NEW r \in Requests, (\E a \in Actions : DashGet(r, a)) \/ DashAbort(r), Next
      PROVE  NotReplaced'
  BY <1>2, <1>3 DEF DashGet, DashAbort, fileVars
<1>4. ASSUME NEW r \in Requests, DashDelete(r), Next PROVE NotReplaced'
  <2>1. /\ UNCHANGED <<posted, current, approved>> /\ dash[r].pc = "delete"
        /\ op' = IF op.uid = dash[r].seen THEN NoOp ELSE op
    BY <1>4 DEF DashDelete, fileVars
  <2>2. CASE op.uid # dash[r].seen
    BY <1>2, <1>4, <2>1, <2>2
  <2>3. CASE op.uid = dash[r].seen
    <3>1. op.phase \in TERMINAL /\ op.uid # 0
      BY <1>0, <2>1, <2>3 DEF Acknowledged, Identity
    <3>2. Active => IsTrial
      BY <3>1 DEF NotReplaced, Active
    <3>3. op'.uid = 0 /\ Active' = Active /\ IsTrial' = IsTrial
      BY <2>1, <2>3 DEF NoOp, Active, IsTrial, Action
    <3> QED
      BY <2>1, <3>2, <3>3 DEF NotReplaced
  <2> QED
    BY <2>2, <2>3
<1>5. ASSUME NEW r \in Requests, DashPost(r), Next PROVE NotReplaced'
  <2>1. CASE op.uid # 0
    BY <1>2, <1>5, <2>1 DEF DashPost, fileVars
  <2>2. CASE op.uid = 0
    <3>1. /\ posted' = [posted EXCEPT ![newest + 1] = dash[r].spec]
          /\ op'.uid = newest + 1 /\ op'.phase = "Pending" /\ UNCHANGED <<current, approved>>
      BY <1>5, <2>2 DEF DashPost, fileVars
    <3>2. current.uid # 0 => posted'[current.uid] = posted[current.uid]
      BY <1>0, <3>1 DEF TypeOK
    <3>3. Active' = Active /\ IsTrial' = IsTrial
      BY <3>1, <3>2 DEF Active, IsTrial, Action
    <3>4. Active => current.uid # 0
      BY <1>0 DEF Active
    <3>5. Active => IsTrial
      BY <2>2, <3>4 DEF NotReplaced
    <3> QED
      BY <1>0, <3>1, <3>3, <3>5 DEF NotReplaced
  <2> QED
    BY <2>1, <2>2
<1>6. ASSUME NEW valid \in BOOLEAN, Accept(valid) PROVE NotReplaced'
  <2>1. /\ op.uid # 0 /\ op.uid # current.uid /\ current'.uid = op.uid
        /\ UNCHANGED <<op, approved>>
    BY <1>6 DEF Accept, CanTick, kubeVars
  <2>2. op.uid = newest /\ op.phase = "Pending"
    BY <1>0, <2>1 DEF NotReplaced
  <2>3. \A a \in ServiceActions : approved[a] <= newest
    BY <1>0 DEF Identity
  <2> QED
    BY <1>0, <2>1, <2>2, <2>3 DEF NotReplaced
<1>7. CASE Tick /\ ~\E valid \in BOOLEAN : Accept(valid)
  <2>1. UNCHANGED <<posted, op>>
    BY <1>7 DEF Tick, Reacknowledge, InterruptUnfinished, NoBoot, VerifyMemory, ReconcileService,
      ObserveBoot, VerifyPrepare, VerifyRegistration, kubeVars
  <2>2. approved' = approved
    BY <1>7 DEF Tick, Reacknowledge, InterruptUnfinished, NoBoot, VerifyMemory, ReconcileService,
      ObserveBoot, VerifyPrepare, VerifyRegistration, kubeVars
  <2> QED
    BY <1>0, <1>2, <1>7, <2>1, <2>2, TickUid DEF Next
<1>8. CASE Continue
  <2>0. current'.uid = current.uid /\ Next
    <3>1. ~\E valid \in BOOLEAN : Accept(valid)
      BY <1>8, <1>0 DEF Accept, CanTick, Continue, Reject, BeginRefused, BeginPower, BeginLocal,
        BeginService, QueueService, BeginMemory, BeginPrepare, FinishLocal, MemoryReboot,
        CaptureActivation, PackagesInstalled, Register, PatchOk, PatchError, Shutdown,
        EnableGpuProfile, StartJob, RunCommand, Begin
    <3> QED
      BY <1>0, <1>8, <3>1, TickUid DEF Next
  <2>1. CASE BeginService
    <3>1. /\ UNCHANGED <<posted, op>>
          /\ \A a \in ServiceActions : approved'[a] \in {approved[a], current.uid}
      BY <1>0, <2>1 DEF BeginService, kubeVars, TypeOK
    <3> QED
      BY <1>0, <2>0, <3>1, ReplaceKeep
  <2>2. CASE PatchOk
    <3>1. /\ op.uid = current.uid /\ op'.uid = op.uid /\ op'.phase = current.phase
          /\ UNCHANGED <<posted, current, approved>>
      BY <1>0, <2>2 DEF PatchOk, fileVars, TypeOK
    <3> QED
      BY <1>0, <2>0, <3>1, ReplaceKeep
  <2>3. ASSUME NEW stored \in BOOLEAN, PatchError(stored) PROVE NotReplaced'
    <3>1. /\ op'.uid = op.uid /\ UNCHANGED <<posted, approved>>
          /\ op' = op \/ (op.uid = current.uid /\ op'.phase = current.phase)
      BY <1>0, <2>3 DEF PatchError, TypeOK
    <3>2. current.phase \in TERMINAL => current'.phase \in TERMINAL
      BY <2>0, ClosedPhase
    <3> QED
      BY <1>0, <2>0, <3>1, <3>2, ReplaceKeep
  <2>4. CASE \/ Reject \/ BeginRefused \/ BeginPower \/ BeginLocal \/ QueueService \/ BeginMemory
             \/ BeginPrepare \/ FinishLocal \/ MemoryReboot \/ CaptureActivation
             \/ PackagesInstalled \/ Register
    BY <1>2, <2>0, <2>4 DEF Reject, BeginRefused, BeginPower, BeginLocal, QueueService,
      BeginMemory, BeginPrepare, FinishLocal, MemoryReboot, CaptureActivation,
      PackagesInstalled, Register, kubeVars
  <2>5. ASSUME NEW error \in BOOLEAN, NEW done \in BOOLEAN,
               \/ Shutdown(error, done) \/ EnableGpuProfile(error, done) \/ StartJob(error, done)
               \/ \E e \in Commands : RunCommand(e, error, done)
        PROVE  NotReplaced'
    BY <1>2, <2>0, <2>5 DEF Shutdown, EnableGpuProfile, StartJob, RunCommand, kubeVars
  <2> QED
    BY <1>8, <2>1, <2>2, <2>3, <2>4, <2>5 DEF Continue
<1>9. ASSUME NEW a \in ServiceActions, StartService(a) \/ RefuseService(a), Next PROVE NotReplaced'
  <2>1. /\ UNCHANGED <<posted, op, current>>
        /\ \A b \in ServiceActions : approved'[b] \in {approved[b], 0}
    BY <1>0, <1>9 DEF StartService, RefuseService, kubeVars, TypeOK
  <2> QED
    BY <1>0, <1>9, <2>1, ReplaceKeep
<1>10. ASSUME NEW a \in ServiceActions, NEW published \in BOOLEAN, Next,
              NEW phase \in {"Succeeded", "Failed", "Interrupted", "RolledBack"},
              FinishService(a, phase, published)
       PROVE  NotReplaced'
  <2>1. /\ UNCHANGED <<posted, current>> /\ op'.uid = op.uid
        /\ \A b \in ServiceActions : approved'[b] \in {approved[b], 0}
        /\ op' # op => op.uid = approved[a] /\ a = "configure-network"
    BY <1>0, <1>10 DEF FinishService, TypeOK
  <2>2. op' = op \/ op.uid = 0 \/ (op.uid = current.uid /\ IsTrial)
    <3>1. ASSUME op' # op, op.uid # 0 PROVE op.uid = current.uid /\ IsTrial
      <4>1. approved[a] <= current.uid /\ approved[a] = newest /\ a = "configure-network"
        BY <1>0, <2>1, <3>1 DEF NotReplaced
      <4>2. approved[a] = current.uid /\ op.uid = current.uid
        BY <1>0, <2>1, <3>1, <4>1
      <4>3. posted[approved[a]].action = a
        BY <1>0, <2>1, <3>1 DEF Identity
      <4> QED
        BY <3>1, <4>1, <4>2, <4>3 DEF IsTrial, Action
    <3> QED
      BY <3>1
  <2> QED
    BY <1>0, <1>10, <2>1, <2>2, ReplaceKeep
<1>11. CASE Environment
  <2>1. Next
    BY <1>11 DEF Next
  <2>2. CASE Reboot
    <3>1. /\ UNCHANGED <<posted, op, current>>
          /\ \A b \in ServiceActions : approved'[b] \in {approved[b], 0}
      BY <1>0, <2>2 DEF Reboot, kubeVars, TypeOK
    <3> QED
      BY <1>0, <2>1, <3>1, ReplaceKeep
  <2>3. CASE KubeletPublishes \/ CrashWorker \/ TimePasses \/ AdminShutdown \/ AdminActivation
    BY <1>2, <2>1, <2>3 DEF KubeletPublishes, CrashWorker, TimePasses, AdminShutdown,
      AdminActivation, kubeVars, fileVars
  <2> QED
    BY <1>11, <2>2, <2>3 DEF Environment
<1> QED
  BY <1>1, <1>3, <1>4, <1>5, <1>6, <1>7, <1>8, <1>9, <1>10, <1>11
  DEF Next, Dashboard, Tick, Services

\* On a freshly installed host there is nothing to replace.
LEMMA InitNotReplaced == Init => NotReplaced
BY DEF Init, NotReplaced, Active, NoCurrent, NoOp

\* As long as state.json is not lost, an operation that the worker has not
\* closed keeps its resource, unless it is a network trial, which reports its
\* result by itself before the worker reads it (create_host_operation: an
\* active operation is not replaced).
THEOREM OnlyTrialsAreReplaced ==
  ASSUME StateLoss = FALSE
  PROVE  Spec => [](Active => op.uid = current.uid \/ IsTrial)
<1>1. Init => Inv /\ NotReplaced
  BY InitInv, InitNotReplaced
<1>2. Inv /\ NotReplaced /\ [Next]_vars => (Inv /\ NotReplaced)'
  BY NextInv, ReplaceStep DEF LoseState
<1>3. NotReplaced => (Active => op.uid = current.uid \/ IsTrial)
  BY DEF NotReplaced
<1> QED
  BY <1>1, <1>2, <1>3, PTL DEF Spec

\* Where nobody asks for a network change, no active operation is replaced.
THEOREM ActiveIsNotReplaced ==
  ASSUME StateLoss = FALSE, "configure-network" \notin Actions
  PROVE  Spec => []OneActive
<1>1. Inv => ~IsTrial
  <2> SUFFICES ASSUME Inv, current.uid # 0 PROVE Action # "configure-network"
    BY DEF IsTrial
  <2>1. posted[current.uid] \in Specs
    BY Known DEF Inv
  <2> QED
    BY <2>1 DEF Specs, Action
<1>2. (Active => op.uid = current.uid \/ IsTrial) /\ ~IsTrial => OneActive
  BY DEF OneActive
<1>3. Spec => [](Active => op.uid = current.uid \/ IsTrial)
  BY OnlyTrialsAreReplaced
<1> QED
  BY <1>1, <1>2, <1>3, Invariant, PTL

-----------------------------------------------------------------------------
(* The mixes of requests of the run: OneActiveUnlessLost.                  *)

\* Where the mix keeps state.json, only its own action was ever asked for,
\* and no operation in progress has lost its resource.
Asked == \A r \in Requests : dash[r].spec.action \in {mix.action, "none"}

Created == \A u \in Uids : posted[u].action \in {mix.action, "none"}

MixInv ==
  /\ Inv /\ mix \in Mixes
  /\ Asked /\ Created
  /\ mix.lossy \/ NotReplaced

\* create_host_operation posts what its own request asked for.
LEMMA CreatedStep ==
  ASSUME TypeOK, Asked, Created, [Next]_vars, mix' = mix
  PROVE  Created'
<1>1. CASE posted' = posted
  BY <1>1 DEF Created
<1>2. CASE \E r \in Requests : DashPost(r)
  <2>1. PICK r \in Requests : DashPost(r)
    BY <1>2
  <2>2. \A u \in Uids : posted'[u] \in {posted[u], dash[r].spec}
    BY <2>1 DEF DashPost, TypeOK
  <2> QED
    BY <2>2 DEF Created, Asked
<1>3. CASE UNCHANGED vars \/ \E r \in Requests : (\E a \in Actions : DashGet(r, a)) \/ DashDelete(r) \/ DashAbort(r)
  BY <1>1, <1>3 DEF DashGet, DashDelete, DashAbort, vars, kubeVars
<1>4. CASE Tick
  BY <1>1, <1>4 DEF Tick, Accept, Reacknowledge, InterruptUnfinished, NoBoot, VerifyMemory,
    ReconcileService, ObserveBoot, VerifyPrepare, VerifyRegistration, kubeVars
<1>5. CASE Continue
  BY <1>1, <1>5 DEF Continue, Reject, BeginRefused, BeginPower, BeginLocal, BeginService,
    QueueService, BeginMemory, BeginPrepare, FinishLocal, MemoryReboot, CaptureActivation,
    PackagesInstalled, Register, PatchOk, PatchError, Shutdown, EnableGpuProfile, StartJob,
    RunCommand, kubeVars
<1>6. CASE Services \/ Environment
  BY <1>1, <1>6 DEF Services, StartService, RefuseService, FinishService, Environment, Reboot,
    KubeletPublishes, CrashWorker, LoseState, TimePasses, AdminShutdown, AdminActivation, kubeVars
<1> QED
  BY <1>2, <1>3, <1>4, <1>5, <1>6 DEF Next, Dashboard

\* Every step of a mix keeps its invariant.
LEMMA MixStep ==
  ASSUME MixInv, [MCNext]_<<vars, mix>>
  PROVE  MixInv'
<1>1. [Next]_vars /\ mix' = mix /\ Inv'
  <2>1. [Next]_vars /\ mix' = mix
    BY DEF MCNext
  <2> QED
    BY <2>1, NextInv DEF MixInv
<1>2. Created'
  BY <1>1, CreatedStep DEF MixInv, Inv
<1>3. Asked'
  <2>1. CASE UNCHANGED <<vars, mix>>
    BY <2>1 DEF MixInv, Asked, vars, kubeVars
  <2>2. CASE MCNext
    BY <1>1, <2>2 DEF MCNext, InMix, Asked
  <2> QED
    BY <2>1, <2>2
<1>4. ASSUME ~mix.lossy PROVE NotReplaced'
  <2>1. ~LoseState
    <3>1. CASE UNCHANGED <<vars, mix>>
      BY <3>1 DEF LoseState, NoCurrent, vars, fileVars
    <3>2. CASE MCNext
      BY <1>4, <3>2 DEF MCNext, InMix, LoseState, NoCurrent
    <3> QED
      BY <3>1, <3>2
  <2> QED
    BY <1>1, <1>4, <2>1, ReplaceStep DEF MixInv
<1> QED
  BY <1>1, <1>2, <1>3, <1>4 DEF MixInv

\* create_host_operation: an active operation is not replaced.  In every mix
\* of the run that keeps state.json, for every number of requests, operations
\* and boots, the operation in progress is the node's resource.
THEOREM MixesReplaceNothingActive == MCSpec => []OneActiveUnlessLost
<1>1. MCInit => MixInv
  <2> SUFFICES ASSUME MCInit PROVE MixInv
    OBVIOUS
  <2>1. Inv /\ NotReplaced /\ mix \in Mixes
    BY InitInv, InitNotReplaced DEF MCInit
  <2>2. Asked /\ Created
    BY DEF MCInit, Init, Asked, Created, NoDash, NoSpec
  <2> QED
    BY <2>1, <2>2 DEF MixInv
<1>2. MixInv /\ [MCNext]_<<vars, mix>> => MixInv'
  BY MixStep
<1>3. MixInv => OneActiveUnlessLost
  <2> SUFFICES ASSUME MixInv, ~mix.lossy, Active PROVE op.uid = current.uid
    BY DEF OneActiveUnlessLost, OneActive
  <2>1. mix.action # "configure-network" /\ mix.action # "none"
    BY DEF MixInv, Mixes
  <2>2. ~IsTrial
    <3>1. current.uid # 0 => current.uid \in Uids
      BY Known DEF MixInv, Inv
    <3> QED
      BY <2>1, <3>1 DEF MixInv, Created, IsTrial, Action
  <2> QED
    BY <2>2 DEF MixInv, NotReplaced
<1> QED
  BY <1>1, <1>2, <1>3, PTL DEF MCSpec

\* Every behaviour of the run is one of the host worker, so the theorems above
\* hold of the run with any values of its constants.
THEOREM MixesAreBehaviours == MCSpec => Spec
<1>1. MCInit => Init
  BY DEF MCInit
<1>2. [MCNext]_<<vars, mix>> => [Next]_vars
  BY DEF MCNext
<1> QED
  BY <1>1, <1>2, PTL DEF MCSpec, Spec
=============================================================================

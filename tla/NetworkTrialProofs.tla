------------------------- MODULE NetworkTrialProofs -------------------------
(***************************************************************************)
(* Proofs about NetworkTrial for any files, trials and boots, on a disk    *)
(* that does not fail.                                                     *)
(***************************************************************************)
EXTENDS NetworkTrial, TLAPS

USE TrialAssumption DEF Active, Done, InTry, Restoring, RecoverPcs, Names, Managed, None

\* The empty record, and a record whose phase changes, are records.
LEMMA RecordType ==
  ASSUME NEW t \in Records
  PROVE  /\ \A phase \in {"none"} \cup Active \cup Done :
              /\ [t EXCEPT !.phase = phase] \in Records
              /\ [t EXCEPT !.phase = phase, !.backup = NoBackup] \in Records
         /\ [t EXCEPT !.changed = TRUE] \in Records
         /\ NoTrial \in Records
<1>1. NoBackup \in [Names -> Int]
  BY DEF NoBackup
<1>2. NoTrial \in Records
  BY <1>1 DEF Records, NoTrial
<1>3. ASSUME NEW phase \in {"none"} \cup Active \cup Done
      PROVE  [t EXCEPT !.phase = phase] \in Records
  BY DEF Records
<1>4. ASSUME NEW phase \in {"none"} \cup Active \cup Done
      PROVE  [t EXCEPT !.phase = phase, !.backup = NoBackup] \in Records
  <2> HIDE DEF Names, Active, Done
  <2> QED
    BY <1>1 DEF Records
<1>5. [t EXCEPT !.changed = TRUE] \in Records
  BY DEF Records
<1> QED
  BY <1>2, <1>3, <1>4, <1>5

\* Every record has its type after every step.
LEMMA RecordsStep ==
  ASSUME Inv, Next, "disk" \notin Faults
  PROVE  saved' \in Records /\ mem' \in Records
<1> USE DEF Inv, TypeOK
<1>0. saved \in Records /\ mem \in Records /\ NoTrial \in Records
  BY RecordType
<1> HIDE DEF Inv, TypeOK
<1>1. CASE SaveTrial
  <2>1. [n |-> approved, phase |-> "Applying", changed |-> FALSE, backup |-> files] \in Records
    BY DEF Inv, TypeOK, Records
  <2> QED
    BY <1>0, <1>1, <2>1 DEF SaveTrial, Record, Raised
<1>2. CASE MarkChanged
  <2>1. [mem EXCEPT !.changed = TRUE] \in Records
    BY <1>0, RecordType
  <2> QED
    BY <1>0, <1>2, <2>1 DEF MarkChanged, Record
<1>3. CASE AwaitConfirmation
  <2>1. [mem EXCEPT !.phase = "AwaitingConfirmation"] \in Records
    BY <1>0, RecordType
  <2> QED
    BY <1>0, <1>3, <2>1 DEF AwaitConfirmation, Record
<1>4. CASE Keep
  <2>1. [mem EXCEPT !.phase = "Succeeded", !.backup = NoBackup] \in Records
    BY <1>0, RecordType
  <2> QED
    BY <1>0, <1>4, <2>1 DEF Keep
<1>5. CASE RestoreDecides
  <2>1. [mem EXCEPT !.phase = "Failed", !.backup = NoBackup] \in Records
    BY <1>0, RecordType
  <2> QED
    BY <1>0, <1>5, <2>1 DEF RestoreDecides, Record, Raise
<1>6. CASE RecordRestored
  <2>1. [mem EXCEPT !.phase = "RolledBack", !.backup = NoBackup] \in Records
    BY <1>0, RecordType
  <2> QED
    BY <1>0, <1>6, <2>1 DEF RecordRestored, Record
<1>7. CASE ReadTrial \/ Cleanup \/ BootCleanup \/ Interrupt \/ Killed \/ Reboot
  BY <1>0, <1>7 DEF ReadTrial, Cleanup, BootCleanup, Interrupt, Killed, Reboot, Raise
<1>8. CASE ~(\/ SaveTrial \/ MarkChanged \/ AwaitConfirmation \/ Keep \/ RestoreDecides
            \/ RecordRestored \/ ReadTrial \/ Cleanup \/ BootCleanup \/ Interrupt \/ Killed
            \/ Reboot)
  <2>1. UNCHANGED <<saved, mem>>
    BY <1>8 DEF Next, Service, Restore, Approve, WorkerReports, Confirm, StartApply,
       RefuseApply,
       PublishTrial, WriteManaged, UnlinkOriginal, Unlinked, Generate, Apply, PublishWaiting,
       LeaveLoop, UnlinkManaged, RewriteFile, Rewritten, Regenerate, Reapply, Deadline,
       AdminFile, AdminEdit, processVars
  <2> QED
    BY <1>0, <2>1
<1> QED
  BY <1>1, <1>2, <1>3, <1>4, <1>5, <1>6, <1>7, <1>8

\* So does the process.
LEMMA ProcessStep ==
  ASSUME Inv, Next, "disk" \notin Faults
  PROVE  p' \in Processes
<1> USE DEF Inv, TypeOK, Goto, At, Raise, Raised, Recover, NoProcess, Processes, Record
<1>1. CASE Approve
  BY <1>1 DEF Approve, processVars
<1>2. CASE WorkerReports
  BY <1>2 DEF WorkerReports, processVars
<1>3. CASE Confirm
  BY <1>3 DEF Confirm, processVars
<1>4. CASE StartApply
  BY <1>4 DEF StartApply, processVars
<1>5. CASE RefuseApply
  BY <1>5 DEF RefuseApply, processVars
<1>6. CASE SaveTrial
  BY <1>6 DEF SaveTrial, processVars
<1>7. CASE PublishTrial
  BY <1>7 DEF PublishTrial, processVars
<1>8. CASE MarkChanged
  BY <1>8 DEF MarkChanged, processVars
<1>9. CASE WriteManaged
  <2>1. {n \in Originals : mem.backup[n] # None} \in SUBSET Names
    OBVIOUS
  <2> QED
    BY <1>9, <2>1 DEF WriteManaged
<1>10. CASE UnlinkOriginal
  BY <1>10 DEF UnlinkOriginal, processVars
<1>11. CASE Unlinked
  BY <1>11 DEF Unlinked, processVars
<1>12. CASE Generate
  BY <1>12 DEF Generate, processVars
<1>13. CASE Apply
  BY <1>13 DEF Apply, processVars
<1>14. CASE AwaitConfirmation
  BY <1>14 DEF AwaitConfirmation, processVars
<1>15. CASE PublishWaiting
  BY <1>15 DEF PublishWaiting, processVars
<1>16. CASE Keep
  BY <1>16 DEF Keep, processVars
<1>17. CASE LeaveLoop
  BY <1>17 DEF LeaveLoop, processVars
<1>18. CASE ReadTrial
  BY <1>18 DEF ReadTrial, processVars
<1>19. CASE RestoreDecides
  BY <1>19 DEF RestoreDecides, processVars
<1>20. CASE UnlinkManaged
  <2>1. {n \in Names : mem.backup[n] # None} \in SUBSET Names
    OBVIOUS
  <2> QED
    BY <1>20, <2>1 DEF UnlinkManaged
<1>21. CASE RewriteFile
  BY <1>21 DEF RewriteFile, processVars
<1>22. CASE Rewritten
  BY <1>22 DEF Rewritten, processVars
<1>23. CASE Regenerate
  BY <1>23 DEF Regenerate, processVars
<1>24. CASE Reapply
  BY <1>24 DEF Reapply, processVars
<1>25. CASE RecordRestored
  BY <1>25 DEF RecordRestored, processVars
<1>26. CASE Cleanup
  BY <1>26 DEF Cleanup, processVars
<1>27. CASE BootCleanup
  BY <1>27 DEF BootCleanup, processVars
<1>28. CASE Interrupt
  BY <1>28 DEF Interrupt, processVars
<1>29. CASE Killed
  BY <1>29 DEF Killed, processVars
<1>30. CASE Reboot
  BY <1>30 DEF Reboot, processVars
<1>31. CASE Deadline
  BY <1>31 DEF Deadline, processVars
<1>32. CASE AdminFile
  BY <1>32 DEF AdminFile, processVars
<1>33. CASE AdminEdit
  BY <1>33 DEF AdminEdit, processVars
<1> QED
  BY <1>1, <1>2, <1>3, <1>4, <1>5, <1>6, <1>7, <1>8, <1>9, <1>10, <1>11, <1>12,
     <1>13, <1>14, <1>15, <1>16, <1>17, <1>18, <1>19, <1>20, <1>21, <1>22, <1>23, <1>24,
     <1>25, <1>26, <1>27, <1>28, <1>29, <1>30, <1>31, <1>32, <1>33
     DEF Next, Service, Restore

\* Every step keeps the types.
LEMMA TypeOKStep ==
  ASSUME Inv, Next, "disk" \notin Faults
  PROVE  TypeOK'
<1>0. saved' \in Records /\ mem' \in Records /\ p' \in Processes
  BY RecordsStep, ProcessStep
<1> USE DEF Inv, TypeOK, At, Raise, Record, processVars, jobVars, resourceVars, hostVars
<1>1. CASE Approve
  BY <1>0, <1>1 DEF Approve
<1>2. CASE WorkerReports
  BY <1>0, <1>2 DEF WorkerReports, Records
<1>3. CASE Confirm
  BY <1>0, <1>3 DEF Confirm
<1>4. CASE StartApply
  BY <1>0, <1>4 DEF StartApply
<1>5. CASE RefuseApply
  BY <1>0, <1>5 DEF RefuseApply
<1>6. CASE SaveTrial
  BY <1>0, <1>6 DEF SaveTrial
<1>7. CASE PublishTrial
  BY <1>0, <1>7 DEF PublishTrial, Records
<1>8. CASE MarkChanged
  BY <1>0, <1>8 DEF MarkChanged
<1>9. CASE WriteManaged
  BY <1>0, <1>9 DEF WriteManaged, Records
<1>10. CASE UnlinkOriginal
  <2>1. PICK n \in p.todo : files' = [files EXCEPT ![n] = None]
    BY <1>10 DEF UnlinkOriginal
  <2>2. n \in Names
    BY DEF Processes
  <2>3. files' \in [Names -> Int]
    BY <2>1, <2>2
  <2>4. UNCHANGED <<hostVars, saved, mem, jobVars, resourceVars, late>>
    BY <1>10 DEF UnlinkOriginal
  <2> QED
    BY <1>0, <2>3, <2>4
<1>11. CASE Unlinked
  BY <1>0, <1>11 DEF Unlinked
<1>12. CASE Generate
  BY <1>0, <1>12 DEF Generate
<1>13. CASE Apply
  BY <1>0, <1>13 DEF Apply
<1>14. CASE AwaitConfirmation
  BY <1>0, <1>14 DEF AwaitConfirmation
<1>15. CASE PublishWaiting
  BY <1>0, <1>15 DEF PublishWaiting, Records
<1>16. CASE Keep
  BY <1>0, <1>16 DEF Keep
<1>17. CASE LeaveLoop
  BY <1>0, <1>17 DEF LeaveLoop
<1>18. CASE ReadTrial
  BY <1>0, <1>18 DEF ReadTrial
<1>19. CASE RestoreDecides
  BY <1>0, <1>19 DEF RestoreDecides
<1>20. CASE UnlinkManaged
  BY <1>0, <1>20 DEF UnlinkManaged
<1>21. CASE RewriteFile
  BY <1>0, <1>21 DEF RewriteFile, Records
<1>22. CASE Rewritten
  BY <1>0, <1>22 DEF Rewritten
<1>23. CASE Regenerate
  BY <1>0, <1>23 DEF Regenerate
<1>24. CASE Reapply
  BY <1>0, <1>24 DEF Reapply
<1>25. CASE RecordRestored
  BY <1>0, <1>25 DEF RecordRestored
<1>26. CASE Cleanup
  BY <1>0, <1>26 DEF Cleanup, Records
<1>27. CASE BootCleanup
  BY <1>0, <1>27 DEF BootCleanup
<1>28. CASE Interrupt
  BY <1>0, <1>28 DEF Interrupt
<1>29. CASE Killed
  BY <1>0, <1>29 DEF Killed
<1>30. CASE Reboot
  <2>1. boots' \in 0 .. MaxBoots
    BY <1>30 DEF Reboot
  <2>2. running' \in [Names -> Int]
    BY <1>30 DEF Reboot
  <2>3. queued' = FALSE /\ UNCHANGED <<files, extra, saved, approved, resourceVars, late>>
    BY <1>30 DEF Reboot
  <2> QED
    BY <1>0, <2>1, <2>2, <2>3
<1>31. CASE Deadline
  BY <1>0, <1>31 DEF Deadline
<1>32. CASE AdminFile
  BY <1>0, <1>32 DEF AdminFile
<1>33. CASE AdminEdit
  BY <1>0, <1>33 DEF AdminEdit, Foreign
<1> QED
  BY <1>1, <1>2, <1>3, <1>4, <1>5, <1>6, <1>7, <1>8, <1>9, <1>10, <1>11, <1>12,
     <1>13, <1>14, <1>15, <1>16, <1>17, <1>18, <1>19, <1>20, <1>21, <1>22, <1>23, <1>24,
     <1>25, <1>26, <1>27, <1>28, <1>29, <1>30, <1>31, <1>32, <1>33
     DEF Next, Service, Restore

\* Every step leads a process to a place it can be in.
LEMMA PlacesStep ==
  ASSUME Inv, Next, "disk" \notin Faults
  PROVE  Places'
<1> USE DEF Inv, TypeOK, Places, Mirror, Identity, Progress, Restorable, StatusTrue, Record,
   Raise,
            Raised, Recover, Goto, At, NoTrial, NoProcess, NoBackup, Records, Processes, New,
            processVars, jobVars, resourceVars, hostVars
<1>1. CASE Approve
  BY <1>1 DEF Approve
<1>2. CASE WorkerReports
  BY <1>2 DEF WorkerReports
<1>3. CASE Confirm
  BY <1>3 DEF Confirm
<1>4. CASE StartApply
  BY <1>4 DEF StartApply
<1>5. CASE RefuseApply
  BY <1>5 DEF RefuseApply
<1>6. CASE SaveTrial
  BY <1>6 DEF SaveTrial
<1>7. CASE PublishTrial
  BY <1>7 DEF PublishTrial
<1>8. CASE MarkChanged
  BY <1>8 DEF MarkChanged
<1>9. CASE WriteManaged
  BY <1>9 DEF WriteManaged
<1>10. CASE UnlinkOriginal
  BY <1>10 DEF UnlinkOriginal
<1>11. CASE Unlinked
  BY <1>11 DEF Unlinked
<1>12. CASE Generate
  BY <1>12 DEF Generate
<1>13. CASE Apply
  BY <1>13 DEF Apply
<1>14. CASE AwaitConfirmation
  BY <1>14 DEF AwaitConfirmation
<1>15. CASE PublishWaiting
  BY <1>15 DEF PublishWaiting
<1>16. CASE Keep
  BY <1>16 DEF Keep
<1>17. CASE LeaveLoop
  BY <1>17 DEF LeaveLoop
<1>18. CASE ReadTrial
  BY <1>18 DEF ReadTrial
<1>19. CASE RestoreDecides
  <2>1. CASE mem.phase \in Done
    BY <1>19, <2>1 DEF RestoreDecides
  <2>2. CASE mem.phase \notin Done /\ ~mem.changed
    <3>1. /\ mem' = [mem EXCEPT !.phase = "Failed", !.backup = NoBackup] /\ saved' = mem'
          /\ p' = [p EXCEPT !.pc = "cleanup"]
          /\ UNCHANGED <<files, extra, boots, running, jobVars, resourceVars, late>>
      BY <1>19, <2>2 DEF RestoreDecides
    <3>2. mem'.phase = "Failed" /\ mem'.n = mem.n /\ mem'.changed = mem.changed
      BY <3>1
    <3> QED
      BY <1>19, <2>2, <3>1, <3>2 DEF RestoreDecides
  <2>3. CASE mem.phase \notin Done /\ mem.changed /\ extra
    BY <1>19, <2>3 DEF RestoreDecides
  <2>4. CASE mem.phase \notin Done /\ mem.changed /\ ~extra
    <3>1. /\ p' = [p EXCEPT !.pc = "unmanage"]
          /\ UNCHANGED <<files, extra, boots, running, mem, saved, jobVars, resourceVars, late>>
      BY <1>19, <2>4 DEF RestoreDecides
    <3>2. mem = saved /\ p.pc = "restore"
      BY <1>19 DEF RestoreDecides
    <3>3. p'.pc = "unmanage" /\ p'.kind = p.kind /\ p'.todo = p.todo
      BY <3>1
    <3>4. saved.phase \in Active \/ saved.phase = "none"
      BY <2>4, <3>2
    <3> QED
      BY <2>4, <3>1, <3>2, <3>3, <3>4
  <2> QED
    BY <2>1, <2>2, <2>3, <2>4
<1>20. CASE UnlinkManaged
  BY <1>20 DEF UnlinkManaged
<1>21. CASE RewriteFile
  BY <1>21 DEF RewriteFile
<1>22. CASE Rewritten
  BY <1>22 DEF Rewritten
<1>23. CASE Regenerate
  BY <1>23 DEF Regenerate
<1>24. CASE Reapply
  BY <1>24 DEF Reapply
<1>25. CASE RecordRestored
  BY <1>25 DEF RecordRestored
<1>26. CASE Cleanup
  BY <1>26 DEF Cleanup
<1>27. CASE BootCleanup
  BY <1>27 DEF BootCleanup
<1>28. CASE Interrupt
  BY <1>28 DEF Interrupt
<1>29. CASE Killed
  BY <1>29 DEF Killed
<1>30. CASE Reboot
  BY <1>30 DEF Reboot
<1>31. CASE Deadline
  BY <1>31 DEF Deadline
<1>32. CASE AdminFile
  BY <1>32 DEF AdminFile
<1>33. CASE AdminEdit
  BY <1>33 DEF AdminEdit
<1> QED
  BY <1>1, <1>2, <1>3, <1>4, <1>5, <1>6, <1>7, <1>8, <1>9, <1>10, <1>11, <1>12,
     <1>13, <1>14, <1>15, <1>16, <1>17, <1>18, <1>19, <1>20, <1>21, <1>22, <1>23, <1>24,
     <1>25, <1>26, <1>27, <1>28, <1>29, <1>30, <1>31, <1>32, <1>33
     DEF Next, Service, Restore

\* Memory and disk agree after every step.
LEMMA MirrorStep ==
  ASSUME Inv, Next, "disk" \notin Faults
  PROVE  Mirror'
<1> USE DEF Inv, TypeOK, Places, Mirror, Identity, Progress, Restorable, StatusTrue, Record,
   Raise,
            Raised, Recover, Goto, At, NoTrial, NoProcess, NoBackup, Records, Processes, New,
            processVars, jobVars, resourceVars, hostVars
<1>1. CASE Approve
  BY <1>1 DEF Approve
<1>2. CASE WorkerReports
  BY <1>2 DEF WorkerReports
<1>3. CASE Confirm
  BY <1>3 DEF Confirm
<1>4. CASE StartApply
  BY <1>4 DEF StartApply
<1>5. CASE RefuseApply
  BY <1>5 DEF RefuseApply
<1>6. CASE SaveTrial
  BY <1>6 DEF SaveTrial
<1>7. CASE PublishTrial
  BY <1>7 DEF PublishTrial
<1>8. CASE MarkChanged
  BY <1>8 DEF MarkChanged
<1>9. CASE WriteManaged
  BY <1>9 DEF WriteManaged
<1>10. CASE UnlinkOriginal
  BY <1>10 DEF UnlinkOriginal
<1>11. CASE Unlinked
  BY <1>11 DEF Unlinked
<1>12. CASE Generate
  BY <1>12 DEF Generate
<1>13. CASE Apply
  BY <1>13 DEF Apply
<1>14. CASE AwaitConfirmation
  BY <1>14 DEF AwaitConfirmation
<1>15. CASE PublishWaiting
  BY <1>15 DEF PublishWaiting
<1>16. CASE Keep
  BY <1>16 DEF Keep
<1>17. CASE LeaveLoop
  BY <1>17 DEF LeaveLoop
<1>18. CASE ReadTrial
  BY <1>18 DEF ReadTrial
<1>19. CASE RestoreDecides
  <2>1. CASE mem.phase \in Done
    BY <1>19, <2>1 DEF RestoreDecides
  <2>2. CASE mem.phase \notin Done /\ ~mem.changed
    <3>1. /\ mem' = [mem EXCEPT !.phase = "Failed", !.backup = NoBackup] /\ saved' = mem'
          /\ p' = [p EXCEPT !.pc = "cleanup"]
          /\ UNCHANGED <<files, extra, boots, running, jobVars, resourceVars, late>>
      BY <1>19, <2>2 DEF RestoreDecides
    <3>2. mem'.phase = "Failed" /\ mem'.n = mem.n /\ mem'.changed = mem.changed
      BY <3>1
    <3> QED
      BY <1>19, <2>2, <3>1, <3>2 DEF RestoreDecides
  <2>3. CASE mem.phase \notin Done /\ mem.changed /\ extra
    BY <1>19, <2>3 DEF RestoreDecides
  <2>4. CASE mem.phase \notin Done /\ mem.changed /\ ~extra
    <3>1. /\ p' = [p EXCEPT !.pc = "unmanage"]
          /\ UNCHANGED <<files, extra, boots, running, mem, saved, jobVars, resourceVars, late>>
      BY <1>19, <2>4 DEF RestoreDecides
    <3>2. mem = saved /\ p.pc = "restore"
      BY <1>19 DEF RestoreDecides
    <3>3. p'.pc = "unmanage" /\ p'.kind = p.kind /\ p'.todo = p.todo
      BY <3>1
    <3>4. saved.phase \in Active \/ saved.phase = "none"
      BY <2>4, <3>2
    <3> QED
      BY <2>4, <3>1, <3>2, <3>3, <3>4
  <2> QED
    BY <2>1, <2>2, <2>3, <2>4
<1>20. CASE UnlinkManaged
  BY <1>20 DEF UnlinkManaged
<1>21. CASE RewriteFile
  BY <1>21 DEF RewriteFile
<1>22. CASE Rewritten
  BY <1>22 DEF Rewritten
<1>23. CASE Regenerate
  BY <1>23 DEF Regenerate
<1>24. CASE Reapply
  BY <1>24 DEF Reapply
<1>25. CASE RecordRestored
  BY <1>25 DEF RecordRestored
<1>26. CASE Cleanup
  BY <1>26 DEF Cleanup
<1>27. CASE BootCleanup
  BY <1>27 DEF BootCleanup
<1>28. CASE Interrupt
  BY <1>28 DEF Interrupt
<1>29. CASE Killed
  BY <1>29 DEF Killed
<1>30. CASE Reboot
  BY <1>30 DEF Reboot
<1>31. CASE Deadline
  BY <1>31 DEF Deadline
<1>32. CASE AdminFile
  BY <1>32 DEF AdminFile
<1>33. CASE AdminEdit
  BY <1>33 DEF AdminEdit
<1> QED
  BY <1>1, <1>2, <1>3, <1>4, <1>5, <1>6, <1>7, <1>8, <1>9, <1>10, <1>11, <1>12,
     <1>13, <1>14, <1>15, <1>16, <1>17, <1>18, <1>19, <1>20, <1>21, <1>22, <1>23, <1>24,
     <1>25, <1>26, <1>27, <1>28, <1>29, <1>30, <1>31, <1>32, <1>33
     DEF Next, Service, Restore

\* The record stays with the resource it was made for.
LEMMA IdentityStep ==
  ASSUME Inv, Next, "disk" \notin Faults
  PROVE  Identity'
<1> USE DEF Inv, TypeOK, Places, Mirror, Identity, Progress, Restorable, StatusTrue, Record,
   Raise,
            Raised, Recover, Goto, At, NoTrial, NoProcess, NoBackup, Records, Processes, New,
            processVars, jobVars, resourceVars, hostVars
<1>1. CASE Approve
  BY <1>1 DEF Approve
<1>2. CASE WorkerReports
  BY <1>2 DEF WorkerReports
<1>3. CASE Confirm
  BY <1>3 DEF Confirm
<1>4. CASE StartApply
  BY <1>4 DEF StartApply
<1>5. CASE RefuseApply
  BY <1>5 DEF RefuseApply
<1>6. CASE SaveTrial
  BY <1>6 DEF SaveTrial
<1>7. CASE PublishTrial
  BY <1>7 DEF PublishTrial
<1>8. CASE MarkChanged
  BY <1>8 DEF MarkChanged
<1>9. CASE WriteManaged
  BY <1>9 DEF WriteManaged
<1>10. CASE UnlinkOriginal
  BY <1>10 DEF UnlinkOriginal
<1>11. CASE Unlinked
  BY <1>11 DEF Unlinked
<1>12. CASE Generate
  BY <1>12 DEF Generate
<1>13. CASE Apply
  BY <1>13 DEF Apply
<1>14. CASE AwaitConfirmation
  BY <1>14 DEF AwaitConfirmation
<1>15. CASE PublishWaiting
  BY <1>15 DEF PublishWaiting
<1>16. CASE Keep
  BY <1>16 DEF Keep
<1>17. CASE LeaveLoop
  BY <1>17 DEF LeaveLoop
<1>18. CASE ReadTrial
  BY <1>18 DEF ReadTrial
<1>19. CASE RestoreDecides
  <2>1. CASE mem.phase \in Done
    BY <1>19, <2>1 DEF RestoreDecides
  <2>2. CASE mem.phase \notin Done /\ ~mem.changed
    <3>1. /\ mem' = [mem EXCEPT !.phase = "Failed", !.backup = NoBackup] /\ saved' = mem'
          /\ p' = [p EXCEPT !.pc = "cleanup"]
          /\ UNCHANGED <<files, extra, boots, running, jobVars, resourceVars, late>>
      BY <1>19, <2>2 DEF RestoreDecides
    <3>2. mem'.phase = "Failed" /\ mem'.n = mem.n /\ mem'.changed = mem.changed
      BY <3>1
    <3> QED
      BY <1>19, <2>2, <3>1, <3>2 DEF RestoreDecides
  <2>3. CASE mem.phase \notin Done /\ mem.changed /\ extra
    BY <1>19, <2>3 DEF RestoreDecides
  <2>4. CASE mem.phase \notin Done /\ mem.changed /\ ~extra
    <3>1. /\ p' = [p EXCEPT !.pc = "unmanage"]
          /\ UNCHANGED <<files, extra, boots, running, mem, saved, jobVars, resourceVars, late>>
      BY <1>19, <2>4 DEF RestoreDecides
    <3>2. mem = saved /\ p.pc = "restore"
      BY <1>19 DEF RestoreDecides
    <3>3. p'.pc = "unmanage" /\ p'.kind = p.kind /\ p'.todo = p.todo
      BY <3>1
    <3>4. saved.phase \in Active \/ saved.phase = "none"
      BY <2>4, <3>2
    <3> QED
      BY <2>4, <3>1, <3>2, <3>3, <3>4
  <2> QED
    BY <2>1, <2>2, <2>3, <2>4
<1>20. CASE UnlinkManaged
  BY <1>20 DEF UnlinkManaged
<1>21. CASE RewriteFile
  BY <1>21 DEF RewriteFile
<1>22. CASE Rewritten
  BY <1>22 DEF Rewritten
<1>23. CASE Regenerate
  BY <1>23 DEF Regenerate
<1>24. CASE Reapply
  BY <1>24 DEF Reapply
<1>25. CASE RecordRestored
  BY <1>25 DEF RecordRestored
<1>26. CASE Cleanup
  BY <1>26 DEF Cleanup
<1>27. CASE BootCleanup
  BY <1>27 DEF BootCleanup
<1>28. CASE Interrupt
  BY <1>28 DEF Interrupt
<1>29. CASE Killed
  BY <1>29 DEF Killed
<1>30. CASE Reboot
  BY <1>30 DEF Reboot
<1>31. CASE Deadline
  BY <1>31 DEF Deadline
<1>32. CASE AdminFile
  BY <1>32 DEF AdminFile
<1>33. CASE AdminEdit
  BY <1>33 DEF AdminEdit
<1> QED
  BY <1>1, <1>2, <1>3, <1>4, <1>5, <1>6, <1>7, <1>8, <1>9, <1>10, <1>11, <1>12,
     <1>13, <1>14, <1>15, <1>16, <1>17, <1>18, <1>19, <1>20, <1>21, <1>22, <1>23, <1>24,
     <1>25, <1>26, <1>27, <1>28, <1>29, <1>30, <1>31, <1>32, <1>33
     DEF Next, Service, Restore

\* Every step of apply, restore and recover does to the files what its place says.
LEMMA ProgressStep ==
  ASSUME Inv, Next, "disk" \notin Faults
  PROVE  Progress'
<1> USE DEF Inv, TypeOK, Places, Mirror, Identity, Progress, Restorable, StatusTrue, Record,
   Raise,
            Raised, Recover, Goto, At, NoTrial, NoProcess, NoBackup, Records, Processes, New,
            processVars, jobVars, resourceVars, hostVars
<1>1. CASE Approve
  BY <1>1 DEF Approve
<1>2. CASE WorkerReports
  BY <1>2 DEF WorkerReports
<1>3. CASE Confirm
  BY <1>3 DEF Confirm
<1>4. CASE StartApply
  BY <1>4 DEF StartApply
<1>5. CASE RefuseApply
  BY <1>5 DEF RefuseApply
<1>6. CASE SaveTrial
  BY <1>6 DEF SaveTrial
<1>7. CASE PublishTrial
  BY <1>7 DEF PublishTrial
<1>8. CASE MarkChanged
  BY <1>8 DEF MarkChanged
<1>9. CASE WriteManaged
  BY <1>9 DEF WriteManaged
<1>10. CASE UnlinkOriginal
  BY <1>10 DEF UnlinkOriginal
<1>11. CASE Unlinked
  BY <1>11 DEF Unlinked
<1>12. CASE Generate
  BY <1>12 DEF Generate
<1>13. CASE Apply
  BY <1>13 DEF Apply
<1>14. CASE AwaitConfirmation
  BY <1>14 DEF AwaitConfirmation
<1>15. CASE PublishWaiting
  BY <1>15 DEF PublishWaiting
<1>16. CASE Keep
  BY <1>16 DEF Keep
<1>17. CASE LeaveLoop
  BY <1>17 DEF LeaveLoop
<1>18. CASE ReadTrial
  BY <1>18 DEF ReadTrial
<1>19. CASE RestoreDecides
  <2>1. CASE mem.phase \in Done
    BY <1>19, <2>1 DEF RestoreDecides
  <2>2. CASE mem.phase \notin Done /\ ~mem.changed
    <3>1. /\ mem' = [mem EXCEPT !.phase = "Failed", !.backup = NoBackup] /\ saved' = mem'
          /\ p' = [p EXCEPT !.pc = "cleanup"]
          /\ UNCHANGED <<files, extra, boots, running, jobVars, resourceVars, late>>
      BY <1>19, <2>2 DEF RestoreDecides
    <3>2. mem'.phase = "Failed" /\ mem'.n = mem.n /\ mem'.changed = mem.changed
      BY <3>1
    <3> QED
      BY <1>19, <2>2, <3>1, <3>2 DEF RestoreDecides
  <2>3. CASE mem.phase \notin Done /\ mem.changed /\ extra
    BY <1>19, <2>3 DEF RestoreDecides
  <2>4. CASE mem.phase \notin Done /\ mem.changed /\ ~extra
    <3>1. /\ p' = [p EXCEPT !.pc = "unmanage"]
          /\ UNCHANGED <<files, extra, boots, running, mem, saved, jobVars, resourceVars, late>>
      BY <1>19, <2>4 DEF RestoreDecides
    <3>2. mem = saved /\ p.pc = "restore"
      BY <1>19 DEF RestoreDecides
    <3>3. p'.pc = "unmanage" /\ p'.kind = p.kind /\ p'.todo = p.todo
      BY <3>1
    <3>4. saved.phase \in Active \/ saved.phase = "none"
      BY <2>4, <3>2
    <3> QED
      BY <2>4, <3>1, <3>2, <3>3, <3>4
  <2> QED
    BY <2>1, <2>2, <2>3, <2>4
<1>20. CASE UnlinkManaged
  BY <1>20 DEF UnlinkManaged
<1>21. CASE RewriteFile
  BY <1>21 DEF RewriteFile
<1>22. CASE Rewritten
  BY <1>22 DEF Rewritten
<1>23. CASE Regenerate
  BY <1>23 DEF Regenerate
<1>24. CASE Reapply
  BY <1>24 DEF Reapply
<1>25. CASE RecordRestored
  BY <1>25 DEF RecordRestored
<1>26. CASE Cleanup
  BY <1>26 DEF Cleanup
<1>27. CASE BootCleanup
  BY <1>27 DEF BootCleanup
<1>28. CASE Interrupt
  BY <1>28 DEF Interrupt
<1>29. CASE Killed
  BY <1>29 DEF Killed
<1>30. CASE Reboot
  BY <1>30 DEF Reboot
<1>31. CASE Deadline
  BY <1>31 DEF Deadline
<1>32. CASE AdminFile
  BY <1>32 DEF AdminFile
<1>33. CASE AdminEdit
  BY <1>33 DEF AdminEdit
<1> QED
  BY <1>1, <1>2, <1>3, <1>4, <1>5, <1>6, <1>7, <1>8, <1>9, <1>10, <1>11, <1>12,
     <1>13, <1>14, <1>15, <1>16, <1>17, <1>18, <1>19, <1>20, <1>21, <1>22, <1>23, <1>24,
     <1>25, <1>26, <1>27, <1>28, <1>29, <1>30, <1>31, <1>32, <1>33
     DEF Next, Service, Restore

\* At every moment the files can be restored from the record.
LEMMA RestorableStep ==
  ASSUME Inv, Next, "disk" \notin Faults
  PROVE  Restorable'
<1> USE DEF Inv, TypeOK, Places, Mirror, Identity, Progress, Restorable, StatusTrue, Record,
   Raise,
            Raised, Recover, Goto, At, NoTrial, NoProcess, NoBackup, Records, Processes, New,
            processVars, jobVars, resourceVars, hostVars
<1>1. CASE Approve
  BY <1>1 DEF Approve
<1>2. CASE WorkerReports
  BY <1>2 DEF WorkerReports
<1>3. CASE Confirm
  BY <1>3 DEF Confirm
<1>4. CASE StartApply
  BY <1>4 DEF StartApply
<1>5. CASE RefuseApply
  BY <1>5 DEF RefuseApply
<1>6. CASE SaveTrial
  BY <1>6 DEF SaveTrial
<1>7. CASE PublishTrial
  BY <1>7 DEF PublishTrial
<1>8. CASE MarkChanged
  BY <1>8 DEF MarkChanged
<1>9. CASE WriteManaged
  BY <1>9 DEF WriteManaged
<1>10. CASE UnlinkOriginal
  BY <1>10 DEF UnlinkOriginal
<1>11. CASE Unlinked
  BY <1>11 DEF Unlinked
<1>12. CASE Generate
  BY <1>12 DEF Generate
<1>13. CASE Apply
  BY <1>13 DEF Apply
<1>14. CASE AwaitConfirmation
  BY <1>14 DEF AwaitConfirmation
<1>15. CASE PublishWaiting
  BY <1>15 DEF PublishWaiting
<1>16. CASE Keep
  BY <1>16 DEF Keep
<1>17. CASE LeaveLoop
  BY <1>17 DEF LeaveLoop
<1>18. CASE ReadTrial
  BY <1>18 DEF ReadTrial
<1>19. CASE RestoreDecides
  <2>1. CASE mem.phase \in Done
    BY <1>19, <2>1 DEF RestoreDecides
  <2>2. CASE mem.phase \notin Done /\ ~mem.changed
    <3>1. /\ mem' = [mem EXCEPT !.phase = "Failed", !.backup = NoBackup] /\ saved' = mem'
          /\ p' = [p EXCEPT !.pc = "cleanup"]
          /\ UNCHANGED <<files, extra, boots, running, jobVars, resourceVars, late>>
      BY <1>19, <2>2 DEF RestoreDecides
    <3>2. mem'.phase = "Failed" /\ mem'.n = mem.n /\ mem'.changed = mem.changed
      BY <3>1
    <3> QED
      BY <1>19, <2>2, <3>1, <3>2 DEF RestoreDecides
  <2>3. CASE mem.phase \notin Done /\ mem.changed /\ extra
    BY <1>19, <2>3 DEF RestoreDecides
  <2>4. CASE mem.phase \notin Done /\ mem.changed /\ ~extra
    <3>1. /\ p' = [p EXCEPT !.pc = "unmanage"]
          /\ UNCHANGED <<files, extra, boots, running, mem, saved, jobVars, resourceVars, late>>
      BY <1>19, <2>4 DEF RestoreDecides
    <3>2. mem = saved /\ p.pc = "restore"
      BY <1>19 DEF RestoreDecides
    <3>3. p'.pc = "unmanage" /\ p'.kind = p.kind /\ p'.todo = p.todo
      BY <3>1
    <3>4. saved.phase \in Active \/ saved.phase = "none"
      BY <2>4, <3>2
    <3> QED
      BY <2>4, <3>1, <3>2, <3>3, <3>4
  <2> QED
    BY <2>1, <2>2, <2>3, <2>4
<1>20. CASE UnlinkManaged
  BY <1>20 DEF UnlinkManaged
<1>21. CASE RewriteFile
  BY <1>21 DEF RewriteFile
<1>22. CASE Rewritten
  BY <1>22 DEF Rewritten
<1>23. CASE Regenerate
  BY <1>23 DEF Regenerate
<1>24. CASE Reapply
  BY <1>24 DEF Reapply
<1>25. CASE RecordRestored
  BY <1>25 DEF RecordRestored
<1>26. CASE Cleanup
  BY <1>26 DEF Cleanup
<1>27. CASE BootCleanup
  BY <1>27 DEF BootCleanup
<1>28. CASE Interrupt
  BY <1>28 DEF Interrupt
<1>29. CASE Killed
  BY <1>29 DEF Killed
<1>30. CASE Reboot
  BY <1>30 DEF Reboot
<1>31. CASE Deadline
  BY <1>31 DEF Deadline
<1>32. CASE AdminFile
  BY <1>32 DEF AdminFile
<1>33. CASE AdminEdit
  BY <1>33 DEF AdminEdit
<1> QED
  BY <1>1, <1>2, <1>3, <1>4, <1>5, <1>6, <1>7, <1>8, <1>9, <1>10, <1>11, <1>12,
     <1>13, <1>14, <1>15, <1>16, <1>17, <1>18, <1>19, <1>20, <1>21, <1>22, <1>23, <1>24,
     <1>25, <1>26, <1>27, <1>28, <1>29, <1>30, <1>31, <1>32, <1>33
     DEF Next, Service, Restore

\* A final phase on the resource is on disk after every step.
LEMMA StatusTrueStep ==
  ASSUME Inv, Next, "disk" \notin Faults
  PROVE  StatusTrue'
<1> USE DEF Inv, TypeOK, Places, Mirror, Identity, Progress, Restorable, StatusTrue, Record,
   Raise,
            Raised, Recover, Goto, At, NoTrial, NoProcess, NoBackup, Records, Processes, New,
            processVars, jobVars, resourceVars, hostVars
<1>1. CASE Approve
  BY <1>1 DEF Approve
<1>2. CASE WorkerReports
  BY <1>2 DEF WorkerReports
<1>3. CASE Confirm
  BY <1>3 DEF Confirm
<1>4. CASE StartApply
  BY <1>4 DEF StartApply
<1>5. CASE RefuseApply
  BY <1>5 DEF RefuseApply
<1>6. CASE SaveTrial
  BY <1>6 DEF SaveTrial
<1>7. CASE PublishTrial
  BY <1>7 DEF PublishTrial
<1>8. CASE MarkChanged
  BY <1>8 DEF MarkChanged
<1>9. CASE WriteManaged
  BY <1>9 DEF WriteManaged
<1>10. CASE UnlinkOriginal
  BY <1>10 DEF UnlinkOriginal
<1>11. CASE Unlinked
  BY <1>11 DEF Unlinked
<1>12. CASE Generate
  BY <1>12 DEF Generate
<1>13. CASE Apply
  BY <1>13 DEF Apply
<1>14. CASE AwaitConfirmation
  BY <1>14 DEF AwaitConfirmation
<1>15. CASE PublishWaiting
  BY <1>15 DEF PublishWaiting
<1>16. CASE Keep
  BY <1>16 DEF Keep
<1>17. CASE LeaveLoop
  BY <1>17 DEF LeaveLoop
<1>18. CASE ReadTrial
  BY <1>18 DEF ReadTrial
<1>19. CASE RestoreDecides
  <2>1. CASE mem.phase \in Done
    BY <1>19, <2>1 DEF RestoreDecides
  <2>2. CASE mem.phase \notin Done /\ ~mem.changed
    <3>1. /\ mem' = [mem EXCEPT !.phase = "Failed", !.backup = NoBackup] /\ saved' = mem'
          /\ p' = [p EXCEPT !.pc = "cleanup"]
          /\ UNCHANGED <<files, extra, boots, running, jobVars, resourceVars, late>>
      BY <1>19, <2>2 DEF RestoreDecides
    <3>2. mem'.phase = "Failed" /\ mem'.n = mem.n /\ mem'.changed = mem.changed
      BY <3>1
    <3> QED
      BY <1>19, <2>2, <3>1, <3>2 DEF RestoreDecides
  <2>3. CASE mem.phase \notin Done /\ mem.changed /\ extra
    BY <1>19, <2>3 DEF RestoreDecides
  <2>4. CASE mem.phase \notin Done /\ mem.changed /\ ~extra
    <3>1. /\ p' = [p EXCEPT !.pc = "unmanage"]
          /\ UNCHANGED <<files, extra, boots, running, mem, saved, jobVars, resourceVars, late>>
      BY <1>19, <2>4 DEF RestoreDecides
    <3>2. mem = saved /\ p.pc = "restore"
      BY <1>19 DEF RestoreDecides
    <3>3. p'.pc = "unmanage" /\ p'.kind = p.kind /\ p'.todo = p.todo
      BY <3>1
    <3>4. saved.phase \in Active \/ saved.phase = "none"
      BY <2>4, <3>2
    <3> QED
      BY <2>4, <3>1, <3>2, <3>3, <3>4
  <2> QED
    BY <2>1, <2>2, <2>3, <2>4
<1>20. CASE UnlinkManaged
  BY <1>20 DEF UnlinkManaged
<1>21. CASE RewriteFile
  BY <1>21 DEF RewriteFile
<1>22. CASE Rewritten
  BY <1>22 DEF Rewritten
<1>23. CASE Regenerate
  BY <1>23 DEF Regenerate
<1>24. CASE Reapply
  BY <1>24 DEF Reapply
<1>25. CASE RecordRestored
  BY <1>25 DEF RecordRestored
<1>26. CASE Cleanup
  BY <1>26 DEF Cleanup
<1>27. CASE BootCleanup
  BY <1>27 DEF BootCleanup
<1>28. CASE Interrupt
  BY <1>28 DEF Interrupt
<1>29. CASE Killed
  BY <1>29 DEF Killed
<1>30. CASE Reboot
  BY <1>30 DEF Reboot
<1>31. CASE Deadline
  BY <1>31 DEF Deadline
<1>32. CASE AdminFile
  BY <1>32 DEF AdminFile
<1>33. CASE AdminEdit
  BY <1>33 DEF AdminEdit
<1> QED
  BY <1>1, <1>2, <1>3, <1>4, <1>5, <1>6, <1>7, <1>8, <1>9, <1>10, <1>11, <1>12,
     <1>13, <1>14, <1>15, <1>16, <1>17, <1>18, <1>19, <1>20, <1>21, <1>22, <1>23, <1>24,
     <1>25, <1>26, <1>27, <1>28, <1>29, <1>30, <1>31, <1>32, <1>33
     DEF Next, Service, Restore

\* The initial state satisfies the invariant.
LEMMA InitInv == Init => Inv
<1> SUFFICES ASSUME Init PROVE Inv
  OBVIOUS
<1>1. files \in [Names -> Int] /\ NoBackup \in [Names -> Int]
  BY DEF Init, First, Original, NoBackup
<1>2. NoTrial \in Records /\ NoProcess \in Processes
  BY <1>1 DEF NoTrial, NoProcess, Records, Processes
<1>3. running = files /\ saved = NoTrial /\ mem = NoTrial /\ p = NoProcess /\ status = "none"
  BY DEF Init
<1>4. approved \in 0 .. MaxTrials /\ newest \in 0 .. MaxTrials /\ confirmed \in 0 .. MaxTrials
  BY DEF Init
<1>5. boots \in 0 .. MaxBoots
  BY DEF Init
<1>6. extra \in BOOLEAN /\ queued \in BOOLEAN /\ late \in BOOLEAN
  BY Zenon DEF Init
<1>7. TypeOK
  BY <1>1, <1>2, <1>3, <1>4, <1>5, <1>6 DEF TypeOK
<1> QED
  BY <1>7 DEF Init, Inv, Places, Mirror, Identity, Progress, Restorable, StatusTrue, NoTrial,
     NoProcess

\* So does every step that changes nothing.
LEMMA StutterInv == Inv /\ UNCHANGED vars => Inv'
BY DEF vars, Inv, TypeOK, Places, Mirror, Identity, Progress, Restorable, StatusTrue

\* "The service keeps rollback state on disk before touching Netplan": on a disk
\* that does not fail the record on disk tells at every moment, whatever was
\* interrupted or killed, how the files are restored.
THEOREM TrialInvariant ==
  ASSUME "disk" \notin Faults
  PROVE  Spec => []Inv
<1>1. Inv /\ Next => Inv'
  <2> SUFFICES ASSUME Inv, Next PROVE Inv'
    OBVIOUS
  <2>1. TypeOK' /\ Places' /\ Mirror' /\ Identity'
    BY TypeOKStep, PlacesStep, MirrorStep, IdentityStep
  <2>2. Progress' /\ Restorable' /\ StatusTrue'
    BY ProgressStep, RestorableStep, StatusTrueStep
  <2> QED
    BY <2>1, <2>2 DEF Inv
<1> QED
  BY <1>1, InitInv, StutterInv, PTL DEF Spec

\* A final phase on the resource is the one the service has recorded on disk,
\* although the publication is best effort and the worker reports too.
THEOREM StatusIsTrue ==
  ASSUME "disk" \notin Faults
  PROVE  Spec => []StatusTrue
<1>1. Inv => StatusTrue
  BY DEF Inv
<1> QED
  BY <1>1, TrialInvariant, PTL

\* When no process is at work and no trial is unresolved, the network runs from
\* the files that are there: neither a rollback nor a kill separates them.
THEOREM RunningIsConfigured ==
  ASSUME "disk" \notin Faults
  PROVE  Spec => []RunningMatches
<1>1. Inv => RunningMatches
  BY DEF Inv, Restorable, RunningMatches
<1> QED
  BY <1>1, TrialInvariant, PTL

-----------------------------------------------------------------------------
(* The trial implements TrialCommit: what is written below Surviving is     *)
(* hidden until it is kept.                                                *)

\* A step of the trial is a step of TrialCommit, or changes neither the
\* surviving configuration nor its confirmation.
LEMMA CommitStep ==
  ASSUME Inv, Next, "disk" \notin Faults
  PROVE  [Commit!Next]_<<Surviving, confirmed>>
<1> USE DEF Inv, TypeOK, Mirror, Identity, Progress, Restorable, Record, Raise, Goto, At,
   Surviving,
            processVars, jobVars, resourceVars, hostVars
<1>1. CASE Approve
  <2>1. Commit!Request
    BY <1>1 DEF Approve, Commit!Request
  <2> QED
    BY <2>1 DEF Commit!Next
<1>2. CASE WorkerReports
  BY <1>2 DEF WorkerReports
<1>3. CASE Confirm
  <2>1. UNCHANGED Surviving
    BY <1>3 DEF Confirm
  <2>2. confirmed' = 0 \/ confirmed' \in Nat \ {0}
    BY <1>3 DEF Confirm
  <2>3. Commit!Request \/ Commit!Confirm
    BY <2>1, <2>2 DEF Commit!Request, Commit!Confirm
  <2> QED
    BY <2>3 DEF Commit!Next
<1>4. CASE StartApply
  BY <1>4 DEF StartApply
<1>5. CASE RefuseApply
  BY <1>5 DEF RefuseApply
<1>6. CASE SaveTrial
  BY <1>6 DEF SaveTrial
<1>7. CASE PublishTrial
  BY <1>7 DEF PublishTrial
<1>8. CASE MarkChanged
  <2>1. saved' = [mem EXCEPT !.changed = TRUE] /\ mem = saved /\ saved.phase = "Applying"
    BY <1>8 DEF MarkChanged
  <2>2. saved'.phase = saved.phase /\ saved'.changed /\ saved'.backup = saved.backup
    BY <2>1 DEF Records
  <2>3. files = saved.backup /\ UNCHANGED <<files, confirmed>>
    BY <1>8 DEF MarkChanged
  <2> QED
    BY <2>1, <2>2, <2>3
<1>9. CASE WriteManaged
  BY <1>9 DEF WriteManaged
<1>10. CASE UnlinkOriginal
  BY <1>10 DEF UnlinkOriginal
<1>11. CASE Unlinked
  BY <1>11 DEF Unlinked
<1>12. CASE Generate
  BY <1>12 DEF Generate
<1>13. CASE Apply
  BY <1>13 DEF Apply
<1>14. CASE AwaitConfirmation
  <2>1. saved' = [mem EXCEPT !.phase = "AwaitingConfirmation"] /\ mem = saved
    BY <1>14 DEF AwaitConfirmation
  <2>2. /\ saved'.phase = "AwaitingConfirmation"
        /\ saved'.changed = saved.changed /\ saved'.backup = saved.backup
    BY <2>1 DEF Records
  <2>3. saved.phase = "Applying" /\ UNCHANGED <<files, confirmed>>
    BY <1>14 DEF AwaitConfirmation
  <2> QED
    BY <2>2, <2>3
<1>15. CASE PublishWaiting
  BY <1>15 DEF PublishWaiting
<1>16. CASE Keep
  <2>1. saved' = [mem EXCEPT !.phase = "Succeeded", !.backup = NoBackup] /\ files' = files
    BY <1>16 DEF Keep
  <2>2. saved'.phase = "Succeeded"
    BY <2>1 DEF Records
  <2>3. Surviving' = files
    BY <2>1, <2>2
  <2>4. files = New(confirmed) /\ confirmed # 0 /\ confirmed' = confirmed
    BY <1>16 DEF Keep
  <2>5. Commit!Keep
    BY <2>3, <2>4 DEF Commit!Keep, New
  <2> QED
    BY <2>5 DEF Commit!Next
<1>17. CASE LeaveLoop
  BY <1>17 DEF LeaveLoop
<1>18. CASE ReadTrial
  BY <1>18 DEF ReadTrial
<1>19. CASE RestoreDecides
  <2>1. mem = saved /\ UNCHANGED <<files, confirmed>>
    BY <1>19 DEF RestoreDecides
  <2>2. CASE mem.phase \notin Done /\ ~mem.changed
    <3>1. saved' = [mem EXCEPT !.phase = "Failed", !.backup = NoBackup]
      BY <1>19, <2>2 DEF RestoreDecides
    <3>2. saved'.phase = "Failed"
      BY <3>1 DEF Records
    <3> QED
      BY <2>1, <2>2, <3>2
  <2>3. CASE mem.phase \in Done \/ mem.changed
    <3>1. UNCHANGED saved
      BY <1>19, <2>3 DEF RestoreDecides
    <3> QED
      BY <2>1, <3>1
  <2> QED
    BY <2>2, <2>3
<1>20. CASE UnlinkManaged
  BY <1>20 DEF UnlinkManaged
<1>21. CASE RewriteFile
  BY <1>21 DEF RewriteFile
<1>22. CASE Rewritten
  BY <1>22 DEF Rewritten
<1>23. CASE Regenerate
  BY <1>23 DEF Regenerate
<1>24. CASE Reapply
  BY <1>24 DEF Reapply
<1>25. CASE RecordRestored
  <2>1. saved' = [mem EXCEPT !.phase = "RolledBack", !.backup = NoBackup] /\ mem = saved
    BY <1>25 DEF RecordRestored
  <2>2. saved'.phase = "RolledBack"
    BY <2>1 DEF Records
  <2>3. files = saved.backup /\ UNCHANGED <<files, confirmed>>
    BY <1>25 DEF RecordRestored
  <2> QED
    BY <2>2, <2>3
<1>26. CASE Cleanup
  BY <1>26 DEF Cleanup
<1>27. CASE BootCleanup
  BY <1>27 DEF BootCleanup
<1>28. CASE Interrupt
  BY <1>28 DEF Interrupt
<1>29. CASE Killed
  BY <1>29 DEF Killed
<1>30. CASE Reboot
  BY <1>30 DEF Reboot
<1>31. CASE Deadline
  BY <1>31 DEF Deadline
<1>32. CASE AdminFile
  BY <1>32 DEF AdminFile
<1>33. CASE AdminEdit
  <2>1. Surviving = files /\ Surviving' = files' /\ confirmed' = confirmed
    BY <1>33 DEF AdminEdit
  <2>2. Commit!Edit
    BY <1>33, <2>1 DEF AdminEdit, Commit!Edit
  <2> QED
    BY <2>2 DEF Commit!Next
<1> QED
  BY <1>1, <1>2, <1>3, <1>4, <1>5, <1>6, <1>7, <1>8, <1>9, <1>10, <1>11, <1>12,
     <1>13, <1>14, <1>15, <1>16, <1>17, <1>18, <1>19, <1>20, <1>21, <1>22, <1>23, <1>24,
     <1>25, <1>26, <1>27, <1>28, <1>29, <1>30, <1>31, <1>32, <1>33
     DEF Next, Service, Restore

\* "The service keeps rollback state on disk before touching Netplan": for any
\* files, kills, reboots and failed recoveries, what survives a trial is the
\* configuration before it, or the one an administrator has confirmed, as a whole.
THEOREM TrialIsAtomic ==
  ASSUME "disk" \notin Faults
  PROVE  Spec => AtomicChange
<1>1. Init => Commit!Init
  BY DEF Init, Commit!Init, Surviving, NoTrial
<1>2. Inv /\ [Next]_vars => [Commit!Next]_<<Surviving, confirmed>>
  <2>1. ASSUME UNCHANGED vars
        PROVE  UNCHANGED <<Surviving, confirmed>>
    BY <2>1 DEF vars, Surviving
  <2> QED
    BY <2>1, CommitStep
<1> QED
  BY <1>1, <1>2, TrialInvariant, PTL DEF Spec, AtomicChange, Commit!Spec

-----------------------------------------------------------------------------
(* A kept configuration stays, also on a disk that fails.                   *)

\* The types that hold when a write of the record may fail.
RecordTypes ==
  /\ files \in [Names -> Int] /\ saved \in Records /\ mem \in Records /\ p \in Processes
  /\ approved \in 0 .. MaxTrials /\ newest \in 0 .. MaxTrials

\* The files are written only under an unresolved record; where the record in
\* memory is ahead of the one on disk, the process will not restore.
WritesUnresolved ==
  /\ p.kind = "none" <=> p.pc = "none"
  /\ p.kind = "apply" => p.pc # "read"
  /\ p.kind \in {"stop", "boot"} => p.pc \in RecoverPcs
  /\ p.pc \in InTry \cup {"loop"} \cup (Restoring \ {"restore"}) => saved.phase \in Active
  /\ p.pc \in InTry => mem.phase \in Active
  /\ p.pc = "restore" => saved.phase \in Active \/ mem.phase \in Done

\* How a process goes on.
LEMMA ProcessMoves ==
  ASSUME RecordTypes
  PROVE  /\ \A pc \in {"none", "save", "read", "loop", "cleanup"} \cup InTry \cup Restoring :
              Goto(pc) => p' \in Processes /\ p'.pc = pc /\ p'.kind = p.kind
         /\ \A kind \in {"stop", "boot"} :
              Recover(kind) \in Processes /\ Recover(kind).pc = "read" /\ Recover(kind).kind = kind
         /\ NoProcess \in Processes /\ NoProcess.pc = "none" /\ NoProcess.kind = "none"
         /\ Raised \in Processes
         /\ p.kind = "apply" /\ p.pc \in InTry => Raised.kind = p.kind /\ Raised.pc = "restore"
         /\ p.kind = "apply" /\ p.pc \notin InTry => Raised.kind = "stop" /\ Raised.pc = "read"
         /\ p.kind # "apply" => Raised.kind = "none" /\ Raised.pc = "none"
<1>1. p \in Processes
  BY DEF RecordTypes
<1>2. \A pc \in {"none", "save", "read", "loop", "cleanup"} \cup InTry \cup Restoring :
        Goto(pc) => p' \in Processes /\ p'.pc = pc /\ p'.kind = p.kind
  BY <1>1 DEF Goto, Processes
<1>3. \A kind \in {"stop", "boot"} :
        Recover(kind) \in Processes /\ Recover(kind).pc = "read" /\ Recover(kind).kind = kind
  BY DEF Recover, Processes
<1>4. NoProcess \in Processes /\ NoProcess.pc = "none" /\ NoProcess.kind = "none"
  BY DEF NoProcess, Processes
<1>5. p.kind = "apply" /\ p.pc \in InTry =>
        Raised \in Processes /\ Raised.kind = p.kind /\ Raised.pc = "restore"
  BY <1>1 DEF Raised, Processes, Restoring
<1> QED
  BY <1>2, <1>3, <1>4, <1>5 DEF Raised

\* What a write of the record does, whether it succeeds or fails.
LEMMA RecordMoves ==
  ASSUME RecordTypes, NEW t \in Records, NEW pc \in {"publish", "write", "loop", "cleanup"}, Record(t, pc)
  PROVE  /\ p' \in Processes /\ saved' \in Records /\ mem' \in Records
         /\ \/ saved' = t /\ mem' = t /\ p'.pc = pc /\ p'.kind = p.kind
            \/ /\ saved' = saved /\ p' = Raised
               /\ p'.kind = p.kind => mem' = t
<1>1. NoTrial \in Records /\ pc \in {"none", "save", "read", "loop", "cleanup"} \cup InTry \cup Restoring
  BY RecordType DEF RecordTypes, InTry
<1>2. CASE mem' = t /\ saved' = t /\ Goto(pc)
  BY <1>1, <1>2, ProcessMoves
<1>3. CASE p' = Raised /\ mem' = (IF p'.kind = p.kind THEN t ELSE NoTrial) /\ UNCHANGED saved
  BY <1>1, <1>3, ProcessMoves DEF RecordTypes
<1> QED
  BY <1>2, <1>3 DEF Record

\* Every step keeps the two, and a step under a kept record changes no file.
LEMMA WritesStep ==
  ASSUME RecordTypes, WritesUnresolved, Next
  PROVE  RecordTypes' /\ WritesUnresolved'
         /\ (saved.phase = "Succeeded" /\ saved' = saved /\ p.kind # "none" => files' = files)
<1> DEFINE Kept == saved.phase = "Succeeded" /\ saved' = saved /\ p.kind # "none" => files' = files
<1>0. /\ files \in [Names -> Int] /\ saved \in Records /\ mem \in Records /\ p \in Processes
      /\ approved \in 0 .. MaxTrials /\ newest \in 0 .. MaxTrials /\ NoTrial \in Records
  BY RecordType DEF RecordTypes
<1>1. CASE SaveTrial
  <2> DEFINE t == [n |-> approved, phase |-> "Applying", changed |-> FALSE, backup |-> files]
  <2>1. t \in Records /\ t.phase = "Applying"
    BY <1>0 DEF Records, Active
  <2>2. Record(t, "publish") /\ UNCHANGED <<files, approved, newest>>
    BY <1>1 DEF SaveTrial, jobVars, resourceVars
  <2> HIDE DEF t
  <2>3. RecordTypes'
    BY <1>0, <2>1, <2>2, RecordMoves DEF RecordTypes
  <2>4. WritesUnresolved'
    BY <1>0, <1>1, <2>1, <2>2, RecordMoves, ProcessMoves DEF SaveTrial, At, RecordTypes,
       WritesUnresolved, InTry, Restoring, RecoverPcs, Active, Done
  <2> QED
    BY <2>2, <2>3, <2>4
<1>2. CASE PublishTrial
  <2>1. RecordTypes' /\ WritesUnresolved'
    BY <1>0, <1>2, ProcessMoves DEF PublishTrial, At, hostVars, jobVars, resourceVars,
       processVars, RecordTypes, WritesUnresolved, InTry, Restoring, RecoverPcs, Active, Done
  <2>2. Kept
    BY <1>2 DEF PublishTrial, At, WritesUnresolved, InTry, Restoring, Active
  <2> QED
    BY <2>1, <2>2
<1>3. CASE Unlinked
  <2>1. RecordTypes' /\ WritesUnresolved'
    BY <1>0, <1>3, ProcessMoves DEF Unlinked, At, hostVars, jobVars, resourceVars, processVars,
       RecordTypes, WritesUnresolved, InTry, Restoring, RecoverPcs, Active, Done
  <2>2. Kept
    BY <1>3 DEF Unlinked, At, WritesUnresolved, InTry, Restoring, Active
  <2> QED
    BY <2>1, <2>2
<1>4. CASE Generate
  <2>1. RecordTypes' /\ WritesUnresolved'
    BY <1>0, <1>4, ProcessMoves DEF Generate, At, hostVars, jobVars, resourceVars, processVars,
       RecordTypes, WritesUnresolved, InTry, Restoring, RecoverPcs, Active, Done
  <2>2. Kept
    BY <1>4 DEF Generate, At, WritesUnresolved, InTry, Restoring, Active
  <2> QED
    BY <2>1, <2>2
<1>5. CASE Apply
  <2>1. RecordTypes' /\ WritesUnresolved'
    BY <1>0, <1>5, ProcessMoves DEF Apply, At, hostVars, jobVars, resourceVars, processVars,
       RecordTypes, WritesUnresolved, InTry, Restoring, RecoverPcs, Active, Done
  <2>2. Kept
    BY <1>5 DEF Apply, At, WritesUnresolved, InTry, Restoring, Active
  <2> QED
    BY <2>1, <2>2
<1>6. CASE PublishWaiting
  <2>1. RecordTypes' /\ WritesUnresolved'
    BY <1>0, <1>6, ProcessMoves DEF PublishWaiting, At, hostVars, jobVars, resourceVars,
       processVars, RecordTypes, WritesUnresolved, InTry, Restoring, RecoverPcs, Active, Done
  <2>2. Kept
    BY <1>6 DEF PublishWaiting, At, WritesUnresolved, InTry, Restoring, Active
  <2> QED
    BY <2>1, <2>2
<1>7. CASE LeaveLoop
  <2>1. RecordTypes' /\ WritesUnresolved'
    BY <1>0, <1>7, ProcessMoves DEF LeaveLoop, At, hostVars, jobVars, resourceVars,
       processVars, RecordTypes, WritesUnresolved, InTry, Restoring, RecoverPcs, Active, Done
  <2>2. Kept
    BY <1>7 DEF LeaveLoop, At, WritesUnresolved, InTry, Restoring, Active
  <2> QED
    BY <2>1, <2>2
<1>8. CASE Rewritten
  <2>1. RecordTypes' /\ WritesUnresolved'
    BY <1>0, <1>8, ProcessMoves DEF Rewritten, At, hostVars, jobVars, resourceVars,
       processVars, RecordTypes, WritesUnresolved, InTry, Restoring, RecoverPcs, Active, Done
  <2>2. Kept
    BY <1>8 DEF Rewritten, At, WritesUnresolved, InTry, Restoring, Active
  <2> QED
    BY <2>1, <2>2
<1>9. CASE Regenerate
  <2>1. RecordTypes' /\ WritesUnresolved'
    BY <1>0, <1>9, ProcessMoves DEF Regenerate, At, hostVars, jobVars, resourceVars,
       processVars, RecordTypes, WritesUnresolved, InTry, Restoring, RecoverPcs, Active, Done
  <2>2. Kept
    BY <1>9 DEF Regenerate, At, WritesUnresolved, InTry, Restoring, Active
  <2> QED
    BY <2>1, <2>2
<1>10. CASE Reapply
  <2>1. RecordTypes' /\ WritesUnresolved'
    BY <1>0, <1>10, ProcessMoves DEF Reapply, At, hostVars, jobVars, resourceVars, processVars,
       RecordTypes, WritesUnresolved, InTry, Restoring, RecoverPcs, Active, Done
  <2>2. Kept
    BY <1>10 DEF Reapply, At, WritesUnresolved, InTry, Restoring, Active
  <2> QED
    BY <2>1, <2>2
<1>11. CASE Approve
  <2>1. RecordTypes' /\ WritesUnresolved'
    BY <1>0, <1>11, ProcessMoves DEF Approve, At, hostVars, jobVars, resourceVars, processVars,
       RecordTypes, WritesUnresolved, InTry, Restoring, RecoverPcs, Active, Done
  <2>2. Kept
    BY <1>11 DEF Approve, At, WritesUnresolved, InTry, Restoring, Active
  <2> QED
    BY <2>1, <2>2
<1>12. CASE WorkerReports
  <2>1. RecordTypes' /\ WritesUnresolved'
    BY <1>0, <1>12, ProcessMoves DEF WorkerReports, At, hostVars, jobVars, resourceVars,
       processVars, RecordTypes, WritesUnresolved, InTry, Restoring, RecoverPcs, Active, Done
  <2>2. Kept
    BY <1>12 DEF WorkerReports, At, WritesUnresolved, InTry, Restoring, Active
  <2> QED
    BY <2>1, <2>2
<1>13. CASE Confirm
  <2>1. RecordTypes' /\ WritesUnresolved'
    BY <1>0, <1>13, ProcessMoves DEF Confirm, At, hostVars, jobVars, resourceVars, processVars,
       RecordTypes, WritesUnresolved, InTry, Restoring, RecoverPcs, Active, Done
  <2>2. Kept
    BY <1>13 DEF Confirm, At, WritesUnresolved, InTry, Restoring, Active
  <2> QED
    BY <2>1, <2>2
<1>14. CASE Deadline
  <2>1. RecordTypes' /\ WritesUnresolved'
    BY <1>0, <1>14, ProcessMoves DEF Deadline, At, hostVars, jobVars, resourceVars,
       processVars, RecordTypes, WritesUnresolved, InTry, Restoring, RecoverPcs, Active, Done
  <2>2. Kept
    BY <1>14 DEF Deadline, At, WritesUnresolved, InTry, Restoring, Active
  <2> QED
    BY <2>1, <2>2
<1>15. CASE AdminFile
  <2>1. RecordTypes' /\ WritesUnresolved'
    BY <1>0, <1>15, ProcessMoves DEF AdminFile, At, hostVars, jobVars, resourceVars,
       processVars, RecordTypes, WritesUnresolved, InTry, Restoring, RecoverPcs, Active, Done
  <2>2. Kept
    BY <1>15 DEF AdminFile, At, WritesUnresolved, InTry, Restoring, Active
  <2> QED
    BY <2>1, <2>2
<1>16. CASE MarkChanged
  <2>1. [mem EXCEPT !.changed = TRUE] \in Records /\ [mem EXCEPT !.changed = TRUE].phase = mem.phase
    BY <1>0, RecordType DEF Records
  <2>2. Record([mem EXCEPT !.changed = TRUE], "write") /\ UNCHANGED <<files, approved, newest>>
    BY <1>16 DEF MarkChanged, hostVars, jobVars, resourceVars, processVars
  <2>3. RecordTypes'
    BY <1>0, <2>1, <2>2, RecordMoves DEF RecordTypes
  <2>4. WritesUnresolved'
    BY <1>0, <1>16, <2>1, <2>2, RecordMoves, ProcessMoves DEF MarkChanged, At, RecordTypes,
       WritesUnresolved, InTry, Restoring, RecoverPcs, Active, Done
  <2> QED
    BY <2>2, <2>3, <2>4
<1>17. CASE AwaitConfirmation
  <2>1. [mem EXCEPT !.phase = "AwaitingConfirmation"] \in Records /\ [mem EXCEPT !.phase = "AwaitingConfirmation"].phase = "AwaitingConfirmation"
    BY <1>0, RecordType DEF Records
  <2>2. Record([mem EXCEPT !.phase = "AwaitingConfirmation"], "loop") /\ UNCHANGED <<files, approved, newest>>
    BY <1>17 DEF AwaitConfirmation, hostVars, jobVars, resourceVars, processVars
  <2>3. RecordTypes'
    BY <1>0, <2>1, <2>2, RecordMoves DEF RecordTypes
  <2>4. WritesUnresolved'
    BY <1>0, <1>17, <2>1, <2>2, RecordMoves, ProcessMoves DEF AwaitConfirmation, At,
       RecordTypes, WritesUnresolved, InTry, Restoring, RecoverPcs, Active, Done
  <2> QED
    BY <2>2, <2>3, <2>4
<1>18. CASE RecordRestored
  <2>1. [mem EXCEPT !.phase = "RolledBack", !.backup = NoBackup] \in Records /\ [mem EXCEPT !.phase = "RolledBack", !.backup = NoBackup].phase = "RolledBack"
    BY <1>0, RecordType DEF Records
  <2>2. Record([mem EXCEPT !.phase = "RolledBack", !.backup = NoBackup], "cleanup") /\ UNCHANGED <<files, approved, newest>>
    BY <1>18 DEF RecordRestored, hostVars, jobVars, resourceVars, processVars
  <2>3. RecordTypes'
    BY <1>0, <2>1, <2>2, RecordMoves DEF RecordTypes
  <2>4. WritesUnresolved'
    BY <1>0, <1>18, <2>1, <2>2, RecordMoves, ProcessMoves DEF RecordRestored, At, RecordTypes,
       WritesUnresolved, InTry, Restoring, RecoverPcs, Active, Done
  <2> QED
    BY <2>2, <2>3, <2>4
<1>19. CASE WriteManaged
  <2>1. {n \in Originals : mem.backup[n] # None} \in SUBSET Names
    OBVIOUS
  <2>2. PICK q \in SUBSET Names : p' = [p EXCEPT !.pc = "unlink", !.todo = q]
    BY <1>19, <2>1 DEF WriteManaged
  <2>3. p' \in Processes /\ p'.kind = p.kind /\ p'.pc = "unlink"
    BY <1>0, <2>2 DEF Processes
  <2>4. files' \in [Names -> Int]
    BY <1>0, <1>19 DEF WriteManaged, Records, Processes
  <2>5. p.pc \in InTry \cup (Restoring \ {"restore"}) /\ p.kind # "none" /\ saved.phase \in Active
    BY <1>19 DEF WriteManaged, At, WritesUnresolved
  <2>6. UNCHANGED <<saved, mem, approved, newest>> /\ (p.pc \in InTry <=> "unlink" \in InTry)
    BY <1>19 DEF WriteManaged, At, jobVars, resourceVars
  <2> QED
    BY <1>0, <2>3, <2>4, <2>5, <2>6 DEF RecordTypes, WritesUnresolved
<1>20. CASE UnlinkOriginal
  <2>1. p.todo \in SUBSET Names
    BY <1>0 DEF Processes
  <2>2. PICK q \in SUBSET Names : p' = [p EXCEPT !.todo = q]
    BY <1>20, <2>1 DEF UnlinkOriginal
  <2>3. p' \in Processes /\ p'.kind = p.kind /\ p'.pc = "unlink"
    BY <1>0, <1>20, <2>2 DEF UnlinkOriginal, At, Processes
  <2>4. files' \in [Names -> Int]
    BY <1>0, <1>20 DEF UnlinkOriginal, Records, Processes
  <2>5. p.pc \in InTry \cup (Restoring \ {"restore"}) /\ p.kind # "none" /\ saved.phase \in Active
    BY <1>20 DEF UnlinkOriginal, At, WritesUnresolved
  <2>6. UNCHANGED <<saved, mem, approved, newest>> /\ (p.pc \in InTry <=> "unlink" \in InTry)
    BY <1>20 DEF UnlinkOriginal, At, jobVars, resourceVars
  <2> QED
    BY <1>0, <2>3, <2>4, <2>5, <2>6 DEF RecordTypes, WritesUnresolved
<1>21. CASE UnlinkManaged
  <2>1. {n \in Names : mem.backup[n] # None} \in SUBSET Names
    OBVIOUS
  <2>2. PICK q \in SUBSET Names : p' = [p EXCEPT !.pc = "rewrite", !.todo = q]
    BY <1>21, <2>1 DEF UnlinkManaged
  <2>3. p' \in Processes /\ p'.kind = p.kind /\ p'.pc = "rewrite"
    BY <1>0, <2>2 DEF Processes
  <2>4. files' \in [Names -> Int]
    BY <1>0, <1>21 DEF UnlinkManaged, Records, Processes
  <2>5. p.pc \in InTry \cup (Restoring \ {"restore"}) /\ p.kind # "none" /\ saved.phase \in Active
    BY <1>21 DEF UnlinkManaged, At, WritesUnresolved
  <2>6. UNCHANGED <<saved, mem, approved, newest>> /\ (p.pc \in InTry <=> "rewrite" \in InTry)
    BY <1>21 DEF UnlinkManaged, At, jobVars, resourceVars
  <2> QED
    BY <1>0, <2>3, <2>4, <2>5, <2>6 DEF RecordTypes, WritesUnresolved
<1>22. CASE RewriteFile
  <2>1. p.todo \in SUBSET Names
    BY <1>0 DEF Processes
  <2>2. PICK q \in SUBSET Names : p' = [p EXCEPT !.todo = q]
    BY <1>22, <2>1 DEF RewriteFile
  <2>3. p' \in Processes /\ p'.kind = p.kind /\ p'.pc = "rewrite"
    BY <1>0, <1>22, <2>2 DEF RewriteFile, At, Processes
  <2>4. files' \in [Names -> Int]
    BY <1>0, <1>22 DEF RewriteFile, Records, Processes
  <2>5. p.pc \in InTry \cup (Restoring \ {"restore"}) /\ p.kind # "none" /\ saved.phase \in Active
    BY <1>22 DEF RewriteFile, At, WritesUnresolved
  <2>6. UNCHANGED <<saved, mem, approved, newest>> /\ (p.pc \in InTry <=> "rewrite" \in InTry)
    BY <1>22 DEF RewriteFile, At, jobVars, resourceVars
  <2> QED
    BY <1>0, <2>3, <2>4, <2>5, <2>6 DEF RecordTypes, WritesUnresolved
<1>23. CASE Keep
  <2>1. mem' \in Records /\ mem'.phase = "Succeeded"
    BY <1>0, <1>23, RecordType DEF Keep, Records
  <2>2. (saved' = mem' /\ p' \in Processes /\ p'.pc = "restore" /\ p'.kind = p.kind) \/ UNCHANGED <<saved, p>>
    BY <1>0, <1>23, ProcessMoves DEF Keep, Restoring
  <2>3. p.pc = "loop" /\ p.kind = "apply" /\ UNCHANGED <<files, approved, newest>>
    BY <1>23 DEF Keep, At, jobVars, resourceVars
  <2> QED
    BY <1>0, <2>1, <2>2, <2>3 DEF RecordTypes, WritesUnresolved, InTry, Restoring, RecoverPcs,
       Active, Done
<1>24. CASE ReadTrial
  <2>1. UNCHANGED <<files, saved, approved, newest>> /\ mem' = saved
    BY <1>24 DEF ReadTrial, jobVars, resourceVars
  <2>2. p' \in Processes /\ p'.kind = p.kind
        /\ p'.pc = (IF saved.phase \notin Done \cup {"none"} THEN "restore" ELSE "cleanup")
    BY <1>0, <1>24, ProcessMoves DEF ReadTrial, Restoring
  <2>3. saved.phase \in {"none"} \cup Active \cup Done
    BY <1>0 DEF Records
  <2> QED
    BY <1>0, <1>24, <2>1, <2>2, <2>3 DEF ReadTrial, RecordTypes, WritesUnresolved, InTry,
       Restoring, RecoverPcs, Active, Done
<1>25. CASE RestoreDecides
  <2>0. UNCHANGED <<files, approved, newest>> /\ p.pc = "restore"
    BY <1>25 DEF RestoreDecides, jobVars, resourceVars
  <2>1. CASE Goto("cleanup") /\ UNCHANGED <<mem, saved>>
    BY <1>0, <2>0, <2>1, ProcessMoves DEF RecordTypes, WritesUnresolved, InTry, Restoring,
       RecoverPcs, Active, Done
  <2>2. CASE Record([mem EXCEPT !.phase = "Failed", !.backup = NoBackup], "cleanup")
    <3>1. [mem EXCEPT !.phase = "Failed", !.backup = NoBackup] \in Records
      BY <1>0, RecordType DEF Done
    <3>2. RecordTypes'
      BY <1>0, <2>0, <2>2, <3>1, RecordMoves DEF RecordTypes
    <3>3. WritesUnresolved'
      BY <1>0, <2>0, <2>2, <3>1, RecordMoves, ProcessMoves DEF RecordTypes, WritesUnresolved,
         InTry, Restoring, RecoverPcs, Active, Done
    <3> QED
      BY <2>0, <3>2, <3>3
  <2>3. CASE mem.phase \notin Done /\ Raise /\ UNCHANGED saved
    BY <1>0, <2>0, <2>3, ProcessMoves DEF Raise, RecordTypes, WritesUnresolved, InTry,
       Restoring, RecoverPcs, Active, Done
  <2>4. CASE mem.phase \notin Done /\ Goto("unmanage") /\ UNCHANGED <<mem, saved>>
    BY <1>0, <2>0, <2>4, ProcessMoves DEF RecordTypes, WritesUnresolved, InTry, Restoring,
       RecoverPcs, Active, Done
  <2> QED
    BY <1>25, <2>1, <2>2, <2>3, <2>4 DEF RestoreDecides
<1>26. CASE Cleanup
  <2>1. RecordTypes' /\ WritesUnresolved'
    BY <1>0, <1>26, ProcessMoves DEF Cleanup, At, hostVars, jobVars, resourceVars, processVars,
       RecordTypes, WritesUnresolved, InTry, Restoring, RecoverPcs, Active, Done
  <2>2. Kept
    BY <1>26 DEF Cleanup, At, WritesUnresolved, InTry, Restoring, Active
  <2> QED
    BY <2>1, <2>2
<1>27. CASE BootCleanup
  <2>1. RecordTypes' /\ WritesUnresolved'
    BY <1>0, <1>27, ProcessMoves DEF BootCleanup, At, hostVars, jobVars, resourceVars,
       processVars, RecordTypes, WritesUnresolved, InTry, Restoring, RecoverPcs, Active, Done
  <2>2. Kept
    BY <1>27 DEF BootCleanup, At, WritesUnresolved, InTry, Restoring, Active
  <2> QED
    BY <2>1, <2>2
<1>28. CASE RefuseApply
  <2>1. RecordTypes' /\ WritesUnresolved'
    BY <1>0, <1>28, ProcessMoves DEF RefuseApply, At, hostVars, jobVars, resourceVars,
       processVars, RecordTypes, WritesUnresolved, InTry, Restoring, RecoverPcs, Active, Done
  <2>2. Kept
    BY <1>28 DEF RefuseApply, At, WritesUnresolved, InTry, Restoring, Active
  <2> QED
    BY <2>1, <2>2
<1>29. CASE Killed
  <2>1. RecordTypes' /\ WritesUnresolved'
    BY <1>0, <1>29, ProcessMoves DEF Killed, At, hostVars, jobVars, resourceVars, processVars,
       RecordTypes, WritesUnresolved, InTry, Restoring, RecoverPcs, Active, Done
  <2>2. Kept
    BY <1>29 DEF Killed, At, WritesUnresolved, InTry, Restoring, Active
  <2> QED
    BY <2>1, <2>2
<1>30. CASE Reboot
  <2>1. RecordTypes' /\ WritesUnresolved'
    BY <1>0, <1>30, ProcessMoves DEF Reboot, At, hostVars, jobVars, resourceVars, processVars,
       RecordTypes, WritesUnresolved, InTry, Restoring, RecoverPcs, Active, Done
  <2>2. Kept
    BY <1>30 DEF Reboot, At, WritesUnresolved, InTry, Restoring, Active
  <2> QED
    BY <2>1, <2>2
<1>31. CASE StartApply
  <2>1. p' \in Processes /\ p'.kind = "apply" /\ p'.pc = "save"
    BY <1>31 DEF StartApply, Processes
  <2> QED
    BY <1>0, <1>31, <2>1 DEF StartApply, hostVars, jobVars, resourceVars, processVars,
       RecordTypes, WritesUnresolved, InTry, Restoring, RecoverPcs, Active, Done
<1>32. CASE Interrupt
  <2>0. UNCHANGED <<files, saved, approved, newest>>
    BY <1>32 DEF Interrupt, jobVars, resourceVars
  <2>1. CASE p.pc = "loop"
    BY <1>0, <1>32, <2>0, <2>1, ProcessMoves DEF Interrupt, RecordTypes, WritesUnresolved,
       InTry, Restoring, RecoverPcs, Active, Done
  <2>2. CASE p.pc # "loop"
    BY <1>0, <1>32, <2>0, <2>2, ProcessMoves DEF Interrupt, Raise, RecordTypes,
       WritesUnresolved, InTry, Restoring, RecoverPcs, Active, Done
  <2> QED
    BY <2>1, <2>2
<1>33. CASE AdminEdit
  <2>1. files' \in [Names -> Int] /\ p.kind = "none" /\ UNCHANGED <<saved, mem, p, approved, newest>>
    BY <1>0, <1>33 DEF AdminEdit, Foreign, hostVars, jobVars, resourceVars, processVars
  <2> QED
    BY <1>0, <2>1 DEF RecordTypes, WritesUnresolved, InTry, Restoring, RecoverPcs, Active, Done
<1> QED
  BY <1>1, <1>2, <1>3, <1>4, <1>5, <1>6, <1>7, <1>8, <1>9, <1>10, <1>11, <1>12, <1>13, <1>14,
     <1>15,
     <1>16, <1>17, <1>18, <1>19, <1>20, <1>21, <1>22, <1>23, <1>24, <1>25, <1>26, <1>27, <1>28, <1>29,
     <1>30, <1>31, <1>32, <1>33 DEF Next, Service, Restore

\* A configuration that is recorded as kept stays, whichever write of the record
\* fails and whatever is interrupted or killed (network_apply.py, restore and
\* recover): what restores files has read an unresolved record.
THEOREM KeptIsKept == Spec => KeptStays
<1> DEFINE IInv == RecordTypes /\ WritesUnresolved
           Kept == saved.phase = "Succeeded" /\ saved' = saved /\ p.kind # "none" => files' = files
<1>1. Init => IInv
  <2> SUFFICES ASSUME Init PROVE IInv
    OBVIOUS
  <2>1. files \in [Names -> Int] /\ NoBackup \in [Names -> Int]
    BY DEF Init, First, Original, NoBackup
  <2>2. NoTrial \in Records /\ NoProcess \in Processes
    BY <2>1 DEF NoTrial, NoProcess, Records, Processes
  <2> QED
    BY <2>1, <2>2 DEF Init, RecordTypes, WritesUnresolved, NoProcess, InTry, Restoring
<1>2. IInv /\ [Next]_vars => IInv' /\ [Kept]_vars
  <2>1. IInv /\ Next => IInv' /\ Kept
    BY WritesStep
  <2>2. IInv /\ UNCHANGED vars => IInv'
    BY DEF vars, processVars, RecordTypes, WritesUnresolved
  <2> QED
    BY <2>1, <2>2
<1> QED
  BY <1>1, <1>2, PTL DEF Spec, KeptStays

=============================================================================

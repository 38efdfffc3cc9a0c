-------------------------- MODULE BorrowedSettings --------------------------
(***************************************************************************)
(* A setting of the appliance that a regression run borrows, changes and   *)
(* gives back: an optional module (borrowed-module.ts), the GPU sharing    *)
(* of a node (borrowed-sharing.ts), the license document (license-         *)
(* transaction.ts) or the absence of one ("baseline", license-baseline.ts).*)
(* The four follow one protocol: record the intent, write, read back,      *)
(* record what was read; and differ in four points:                        *)
(*   - the appliance compares a revision for all but a module, for which   *)
(*     it takes any write;                                                 *)
(*   - the restoring write is recorded first for sharing and licenses, not *)
(*     for a module or a baseline;                                         *)
(*   - a license or a baseline may recognise its own unanswered write, in  *)
(*     the process that sent it; a module or sharing receipt may not;      *)
(*   - the receipt of a baseline says only "requested", then "restored".   *)
(*                                                                         *)
(* A receipt is "settled" (module: applied, unchanged; sharing: borrowed;  *)
(* license: reviewed, applied), "pending" (module: requested, ambiguous;   *)
(* sharing: pending; license: requested, forwarded), "restoring" (license) *)
(* or "restored".                                                          *)
(***************************************************************************)
EXTENDS Naturals

CONSTANTS
  BorrowKinds, \* the kinds of setting: {"module", "sharing", "license", "baseline"}
  MaxChanges,  \* bound: changes a scenario makes
  MaxEdits,    \* bound: changes an administrator makes meanwhile
  BorrowFaults, \* bound: crashes, lost answers, rejections
  LateLicense  \* a license write may be served after its client gave up

VARIABLES
  kind,        \* the kind of the setting
  defaults,    \* sharing that was not managed: restored in two writes
  cur,         \* the setting: its generation and its content
  known,       \* the last revision the process has read back
  rec,         \* the state of the receipt in memory
  file,        \* the receipt on disk: state and last known revision
  user, step,  \* the process that has the setting, and its step
  write,       \* the write in flight
  changes, edits, bfaults,
  lost         \* a change of the administrator was overwritten

borrowedVars == <<kind, defaults, cur, known, rec, file, user, step, write,
                  changes, edits, bfaults, lost>>

NoWrite == [op |-> "none", spec |-> "none", rev |-> 0]
NoFile == [state |-> "none", at |-> [gen |-> 1, spec |-> "original"]]

Compares == kind # "module"

Licensing == kind \in {"license", "baseline"}

BorrowedInit ==
  /\ kind \in BorrowKinds /\ defaults \in IF kind = "sharing" THEN BOOLEAN ELSE {FALSE}
  /\ cur = [gen |-> 1, spec |-> "original"] /\ known = cur
  /\ rec = "none" /\ file = NoFile
  /\ user = "none" /\ step = "idle" /\ write = NoWrite
  /\ changes = 0 /\ edits = 0 /\ bfaults = 0 /\ lost = FALSE

BFault == bfaults < BorrowFaults /\ bfaults' = bfaults + 1

Record(state) ==
  rec' = state /\ file' = [state |-> state, at |-> known']

Leave ==
  /\ step' = "left" /\ user' = "none" /\ rec' = "none"
  /\ known' = NoFile.at

Keep == UNCHANGED <<kind, defaults, changes, edits, lost>>

\* A module and a baseline have no receipt until the first change.
Borrow ==
  /\ step = "idle"
  /\ user' = "run" /\ step' = "ready" /\ known' = cur
  /\ IF kind \in {"module", "baseline"} THEN rec' = "settled" /\ UNCHANGED file
     ELSE Record("settled")
  /\ Keep /\ UNCHANGED <<cur, write, bfaults>>

\* The setting is still what the process last read.
Current == cur = known

\* The write carries the revision it was decided on.  A baseline is removed
\* at the revision first read, which may be an old one by now.
Send(spec) ==
  write' = [op |-> "sent", spec |-> spec,
            rev |-> IF kind = "baseline" /\ step = "ready" THEN known.gen ELSE cur.gen]

Change ==
  /\ step = "ready" /\ changes < MaxChanges
  /\ Licensing => known.spec = "original"
  /\ \/ /\ Current \/ kind = "baseline"
        /\ changes' = changes + 1
        /\ known' = known /\ Record("pending")
        /\ Send(IF known.spec = "run" THEN "again" ELSE "run") /\ step' = "answer"
     \/ /\ ~Current /\ kind # "baseline" /\ step' = "restore"
        /\ UNCHANGED <<changes, known, rec, file, write>>
  /\ UNCHANGED <<kind, defaults, cur, user, edits, bfaults, lost>>

EndScenario ==
  /\ step = "ready" /\ step' = "restore"
  /\ Keep /\ UNCHANGED <<cur, known, rec, file, user, write, bfaults>>

\* The dashboard serves the write: an equal content makes no new generation.
ServeWrite ==
  /\ write.op = "sent"
  /\ \/ /\ ~Compares \/ cur.gen = write.rev
        /\ write' = [write EXCEPT !.op = "done"]
        /\ cur' = IF cur.spec = write.spec THEN cur
                  ELSE [gen |-> cur.gen + 1, spec |-> write.spec]
        /\ lost' = (lost \/ (cur.spec = "admin" /\ write.spec # "admin"))
        /\ UNCHANGED bfaults
     \/ /\ Compares /\ cur.gen # write.rev
        /\ write' = [write EXCEPT !.op = "rejected"]
        /\ UNCHANGED <<cur, lost, bfaults>>
     \/ /\ BFault /\ write' = [write EXCEPT !.op = "rejected"]
        /\ UNCHANGED <<cur, lost>>
  /\ UNCHANGED <<kind, defaults, known, rec, file, user, step, changes, edits>>

\* Mutant: the content alone is compared.
ContentConfirmed == cur.spec = write.spec

\* Read back after an accepted write: exactly one generation on, and exactly
\* the content asked for; for a baseline, that the document is absent.
Confirmed ==
  /\ cur.spec = write.spec
  /\ kind # "baseline" => cur.gen = known.gen + 1

\* module: change, its acknowledgement; sharing: write; license: acknowledge
ChangeAnswered ==
  /\ step = "answer" /\ write.op = "done"
  /\ \/ /\ Confirmed /\ known' = cur /\ step' = "ready"
        /\ IF kind = "baseline" THEN rec' = "settled" /\ UNCHANGED file
           ELSE Record("settled")
     \/ /\ ~Confirmed /\ step' = "restore" /\ UNCHANGED <<known, rec, file>>
  /\ write' = NoWrite
  /\ Keep /\ UNCHANGED <<cur, user, bfaults>>

\* A definite rejection settles the receipt if the setting is unchanged, and
\* the scenario goes on; a license transaction then stays as it is.
ChangeRejected ==
  /\ step = "answer" /\ write.op = "rejected"
  /\ \/ /\ Current /\ ~Licensing /\ known' = known /\ Record("settled")
        /\ step' = "ready"
     \/ /\ Current /\ kind = "license"
        /\ step' = "ready" /\ UNCHANGED <<known, rec, file>>
     \/ /\ ~Current \/ kind = "baseline"
        /\ step' = "restore" /\ UNCHANGED <<known, rec, file>>
  /\ write' = NoWrite
  /\ Keep /\ UNCHANGED <<cur, user, bfaults>>

\* What is left in flight when nobody waits for the answer any more.
Abandoned ==
  IF write.op = "sent" /\ (Licensing => LateLicense) THEN write ELSE NoWrite

\* No answer in time: the write may still be served.
WriteTimeout ==
  /\ step \in {"answer", "restoring"} /\ BFault
  /\ write' = Abandoned
  /\ IF step = "answer"
     THEN step' = "restore" /\ UNCHANGED <<user, known, rec>>
     ELSE Leave
  /\ Keep /\ UNCHANGED <<cur, file>>

(***************************************************************************)
(* Giving the setting back.                                                *)
(***************************************************************************)

Resolved == rec = "settled"

\* Sharing that was not managed first returns to the exclusive mode.
Target == IF defaults /\ known.spec # "managed" THEN "managed" ELSE "original"

Restore ==
  /\ step = "restore" /\ ~Licensing
  /\ \/ /\ ~Resolved \/ ~Current
        /\ Leave /\ UNCHANGED <<file, write>>
     \/ /\ Resolved /\ Current /\ known.spec = "original"
        /\ file' = [state |-> "restored", at |-> known] /\ Leave
        /\ UNCHANGED write
     \/ /\ Resolved /\ Current /\ known.spec # "original"
        /\ known' = known
        /\ IF kind = "sharing" THEN Record("pending") ELSE UNCHANGED <<rec, file>>
        /\ Send(Target) /\ step' = "restoring" /\ UNCHANGED user
  /\ Keep /\ UNCHANGED <<cur, bfaults>>

\* A license is also recognised without an answer: the exact document sent,
\* or, after a recorded intent to restore, the original one.
RestoreLicense ==
  /\ step = "restore" /\ kind = "license"
  /\ LET unchanged == cur = NoFile.at
         back == rec = "restoring" /\ cur.spec = "original"
         own == /\ cur.spec \in {"run", "again"}
                /\ rec \in {"pending", "settled", "restoring"}
                /\ rec # "pending" => cur.gen = known.gen
     IN \/ /\ unchanged \/ back
           /\ file' = [state |-> "restored", at |-> cur] /\ Leave
           /\ UNCHANGED write
        \/ /\ own
           /\ known' = cur /\ Record("restoring")
           /\ Send("original") /\ step' = "restoring" /\ UNCHANGED user
        \/ /\ ~unchanged /\ ~back /\ ~own
           /\ Leave /\ UNCHANGED <<file, write>>
  /\ Keep /\ UNCHANGED <<cur, bfaults>>

\* withUnlicensedBaseline, finally: nothing has changed, or the document is
\* absent and all else as it was, at the revision read back if there is one.
RestoreBaseline ==
  /\ step = "restore" /\ kind = "baseline"
  /\ LET unchanged == cur = NoFile.at
         own == cur.spec \in {"run", "again"} /\ (rec = "settled" => cur = known)
     IN \/ /\ unchanged
           /\ file' = [state |-> IF file.state = "none" THEN "none" ELSE "restored",
                       at |-> cur] /\ Leave
           /\ UNCHANGED write
        \/ /\ ~unchanged /\ own
           /\ Send("original") /\ step' = "restoring" /\ UNCHANGED <<known, rec, file, user>>
        \/ /\ ~unchanged /\ ~own
           /\ Leave /\ UNCHANGED <<file, write>>
  /\ Keep /\ UNCHANGED <<cur, bfaults>>

RestoreAnswered ==
  /\ step = "restoring" /\ write.op = "done"
  /\ \/ /\ Confirmed /\ kind = "sharing"
        /\ known' = cur /\ Record("settled") /\ step' = "restore" /\ UNCHANGED user
     \/ /\ Confirmed /\ kind = "module"
        /\ file' = [state |-> "restored", at |-> cur] /\ Leave
     \/ /\ Licensing /\ cur.spec = "original"
        /\ file' = [state |-> "restored", at |-> cur] /\ Leave
     \/ /\ IF Licensing THEN cur.spec # "original" ELSE ~Confirmed
        /\ Leave /\ UNCHANGED file
  /\ write' = NoWrite
  /\ Keep /\ UNCHANGED <<cur, bfaults>>

\* Sharing tries again when the rejected write changed nothing.
RestoreRejected ==
  /\ step = "restoring" /\ write.op = "rejected"
  /\ \/ /\ kind = "sharing" /\ Current
        /\ known' = known /\ Record("settled") /\ step' = "restore" /\ UNCHANGED user
     \/ /\ kind # "sharing" \/ ~Current
        /\ Leave /\ UNCHANGED file
  /\ write' = NoWrite
  /\ Keep /\ UNCHANGED <<cur, bfaults>>

(***************************************************************************)
(* Recovery, by another process, of what a run has left.                   *)
(***************************************************************************)
Unrestored == file.state \in {"settled", "pending"}

\* Nothing is claimed unless the setting is what the receipt says; an
\* unfinished license transaction is left to a person.
RecoverSetting ==
  /\ step = "left" /\ ~Licensing /\ Unrestored /\ write.op # "sent"
  /\ cur = file.at
  /\ user' = "recovery" /\ known' = file.at /\ rec' = file.state
  /\ step' = "reconcile" /\ write' = NoWrite
  /\ Keep /\ UNCHANGED <<cur, file, bfaults>>

\* Mutant: a pending receipt is never taken up.
ReconcileSettled ==
  /\ step = "reconcile"
  /\ \/ /\ Current /\ rec = "settled" /\ step' = "restore"
        /\ UNCHANGED <<known, rec, user>>
     \/ (~Current \/ rec = "pending") /\ Leave
  /\ Keep /\ UNCHANGED <<cur, file, write, bfaults>>

\* A pending receipt is cleared at exactly the revision it recorded.
ReconcileUnchanged ==
  /\ step = "reconcile"
  /\ \/ /\ Current /\ known' = known
        /\ IF rec = "pending" THEN Record("settled") ELSE UNCHANGED <<rec, file>>
        /\ step' = "restore" /\ UNCHANGED user
     \/ ~Current /\ Leave /\ UNCHANGED file
  /\ Keep /\ UNCHANGED <<cur, write, bfaults>>

Die ==
  /\ user # "none" /\ BFault /\ Leave
  /\ write' = Abandoned
  /\ Keep /\ UNCHANGED <<cur, file>>

\* An administrator changes the setting, or sets it back by hand.
AdminEdit ==
  /\ edits < MaxEdits /\ edits' = edits + 1 /\ step # "idle"
  /\ \E spec \in {"admin", "original"} \ {cur.spec} :
       cur' = [gen |-> cur.gen + 1, spec |-> spec]
  /\ UNCHANGED <<kind, defaults, known, rec, file, user, step, write, changes,
                 bfaults, lost>>

UserStep ==
  \/ Borrow \/ Change \/ EndScenario \/ ChangeAnswered \/ ChangeRejected
  \/ Restore \/ RestoreLicense \/ RestoreBaseline \/ RestoreAnswered \/ RestoreRejected
  \/ ReconcileUnchanged

BorrowedNext ==
  UserStep \/ ServeWrite \/ RecoverSetting \/ WriteTimeout \/ Die \/ AdminEdit

BorrowedFairness ==
  /\ WF_borrowedVars(UserStep) /\ WF_borrowedVars(ServeWrite)
  /\ WF_borrowedVars(RecoverSetting)

(***************************************************************************)
(* What the borrower owes the owner of the setting.                        *)
(***************************************************************************)
\* A change that an administrator made between the check and the write of the
\* run can be overwritten, but never unnoticed: such a setting is never
\* recorded as restored, by the run or by any later recovery (generation + 1
\* in acknowledge, write and restore).
NoSilentLoss == lost => file.state # "restored"

\* A setting recorded as restored has no content of the run, and no write of
\* the run that could still put one there: restore and its guards.
RestoredTrue ==
  file.state = "restored" =>
    /\ cur.spec \in {"original", "admin"}
    /\ write.op = "sent" => write.spec = "original"

\* A borrowed setting is called restored only when it is, and never when a
\* change of an administrator was lost on the way (borrowed-*.ts, license-*.ts).
SettingsSafe == NoSilentLoss /\ RestoredTrue

\* The receipt does not prove the state of the setting.
Disputed == cur # file.at \/ (Licensing /\ file.state # "restored")

SettingSettled == file.state \in {"none", "restored"} \/ Disputed

\* Every borrowed setting is restored in the end, whatever was interrupted,
\* unless its receipt does not prove its state any more.
GivenBack == <>[]SettingSettled

BorrowedSpec == BorrowedInit /\ [][BorrowedNext]_borrowedVars /\ BorrowedFairness

=============================================================================

---------------------------- MODULE TrialCommit -----------------------------
(***************************************************************************)
(* What a network trial promises: the configuration changes as a whole, to *)
(* the one an administrator confirmed, or it does not change.              *)
(***************************************************************************)
EXTENDS Integers

CONSTANTS
  Names,      \* Netplan file names
  Managed,    \* the one the trial writes
  None,       \* the content of a name without a file
  Foreign,    \* what a local administrator writes
  First       \* the configuration of a new installation

VARIABLES
  config,     \* the content of each name
  confirmed   \* the trial that is confirmed, or 0

Init == config = First /\ confirmed = 0

\* A new request withdraws the confirmation of the previous one.
Request == confirmed' = 0 /\ UNCHANGED config

Confirm == confirmed' \in Nat \ {0} /\ UNCHANGED config

\* The confirmed configuration replaces all files.
Keep ==
  /\ confirmed # 0
  /\ config' = [n \in Names |-> IF n = Managed THEN confirmed ELSE None]
  /\ UNCHANGED confirmed

\* A local administrator edits a file.
Edit ==
  /\ \E n \in Names : config' = [config EXCEPT ![n] = Foreign]
  /\ UNCHANGED confirmed

Next == Request \/ Confirm \/ Keep \/ Edit

Spec == Init /\ [][Next]_<<config, confirmed>>
=============================================================================

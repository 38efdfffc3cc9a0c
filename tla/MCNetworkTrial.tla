--------------------------- MODULE MCNetworkTrial ---------------------------
(* Finite instances of NetworkTrial for TLC.                               *)
EXTENDS NetworkTrial

\* What the installer and cloud-init write: two files, so that a kill between
\* two unlinks or two rewrites leaves one of each.
Installed == {"00-installer.yaml", "50-cloud-init.yaml"}

\* Whether the rare faults happen in this behaviour.
VARIABLE rare

MCInit == Init /\ rare \in BOOLEAN

MCNext == Next /\ UNCHANGED rare /\ (rare \/ ~(AdminFile \/ (Killed /\ p.kind # "apply")))

MCSpec == MCInit /\ [][MCNext]_<<vars, rare>> /\ Fairness

\* Every trial ends with a recorded result, whoever fails to confirm it and
\* whatever kills the service, as long as the recovery itself is not stopped
\* and nobody adds a file: "the local deadline works without API".
ResolvedUnlessRare == ~rare => Resolved
=============================================================================

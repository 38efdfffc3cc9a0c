---------------------------- MODULE MCWorkerMixes ----------------------------
(* HostWorker for TLC, one behaviour at a time with one mix of requests: a  *)
(* memory change takes two restarts and loses its state, preparations race  *)
(* for the resource, updates run in a service of their own.                 *)
EXTENDS MCHostWorker, FiniteSets

VARIABLE mix

Mixes ==
  {[action |-> "configure-gpu-memory", clients |-> 2, boots |-> 3, lossy |-> TRUE],
   [action |-> "prepare-gpu", clients |-> 3, boots |-> 2, lossy |-> FALSE],
   [action |-> "install-updates", clients |-> 2, boots |-> 2, lossy |-> FALSE]}

\* What the mix of this behaviour allows the clients and the environment.
InMix ==
  /\ \A r \in Requests : dash'[r].spec.action \in {mix.action, "none"}
  /\ Cardinality({r \in Requests : dash'[r] # NoDash \/ \E u \in Uids : posted'[u].req = r}) <= mix.clients
  /\ boot' <= mix.boots
  /\ mix.lossy \/ current.uid = 0 \/ current'.uid # 0
  /\ mix.action = "prepare-gpu" \/ UNCHANGED activation

MCInit == Init /\ mix \in Mixes

MCNext == Next /\ UNCHANGED mix /\ InMix

MCSpec == MCInit /\ [][MCNext]_<<vars, mix>>

\* create_host_operation: an active operation is not replaced, as long as
\* state.json is not lost.
OneActiveUnlessLost == mix.lossy \/ OneActive
=============================================================================

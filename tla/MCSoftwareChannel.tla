-------------------------- MODULE MCSoftwareChannel --------------------------
(* Finite instances of SoftwareChannel for TLC.                            *)
EXTENDS SoftwareChannel

\* The requests of one behaviour: a check, an apply, and then only the retry
\* of an apply that has left its marker.
RetryLast ==
  request'.n # request.n =>
    /\ request'.n > 1 => request'.action = "apply"
    /\ request'.n = 3 => blocked

\* A shutdown meets the timer only, before the retry; the run channel_skipped has the others.
ShutdownMeetsTimer == shutdownSet' => p'.kind \in {"none", "timer"} /\ request'.n < 3

MCSpec ==
  /\ ChannelInit /\ [][ChannelNext /\ RetryLast /\ ShutdownMeetsTimer]_channelVars
  /\ ChannelFairness
=============================================================================

----------------------------- MODULE MCLabLease -----------------------------
(* Finite instances of LabLease for TLC.  A cast is the part of the owners  *)
(* that takes part in a behaviour, and the faults it meets; the others are  *)
(* as if they had never been started.                                       *)
EXTENDS LabLease

CONSTANTS r1, r2, q1, q2, h1, h2

Casts == {[owners |-> {r1, q1, q2, h1}, faults |-> 2],
          [owners |-> {r1, r2, q1}, faults |-> 1],
          [owners |-> {r1, q1, h1, h2}, faults |-> 1]}

Absent == [NewProc EXCEPT !.pc = "closed", !.alive = FALSE]

MCInit == \E cast \in Casts :
  /\ lease = FreeLease
  /\ proc = [p \in Owners |-> IF p \in cast.owners THEN NewProc ELSE Absent]
  /\ receipt = [r \in Runners |-> "none"]
  /\ session = [r \in Runners |-> "none"]
  /\ recovery = Nobody
  /\ child = [h \in Hosts |-> FALSE]
  /\ intent = FALSE
  /\ faults = cast.faults

MCSpec == MCInit /\ [][Next]_vars /\ Fairness
=============================================================================

---------------------------- MODULE MCDetections ----------------------------
(* Scenarios for TLC: who passes which gate when.                          *)
EXTENDS Detections, TLC

CONSTANTS e1, e2, g1, w1, w2, m1, m2

NoList == [e \in {} |-> 1]
Numbers == [e \in Entries |-> IF e = e1 THEN 1 ELSE 2]
AnyWorker == Permutations(Workers)

By(e, gate, at) == [gate |-> gate, entry |-> e, at |-> at]
Beam(gate, at) == [gate |-> gate, entry |-> NoCar, at |-> at]

\* One car through a start and a finish gate.
OneRun == {By(e1, "start", 1), By(e1, "finish", 2)}
\* A light barrier at the start.
BeamStart == {Beam("start", 1)}
\* Light barriers at both ends, of which the finish may know the car as well.
BeamRun == {Beam("start", 1), Beam("finish", 2), By(e1, "finish", 3)}
=============================================================================

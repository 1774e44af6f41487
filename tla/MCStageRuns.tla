---------------------------- MODULE MCStageRuns ----------------------------
(* Values for TLC: small sets, the start lists a cfg cannot write, and a   *)
(* next-state relation without hand-typed times for the runs with several  *)
(* cars, whose question is how the slots of different cars relate.         *)
EXTENDS StageRuns, TLC

CONSTANTS e1, e2, e3, g1

NoList == [e \in {} |-> 1]
ListOfOne == [e \in {e1} |-> 1]
Numbers == [e \in Entries |-> IF e = e1 THEN 1 ELSE IF e = e2 THEN 2 ELSE 3]
AnyCar == Permutations(Entries)

\* Everything but typed, corrected and server-stamped times and deletion; the
\* one hand-timed run is a start nobody queued.
ByTheClock ==
  \/ Passing \/ Slotting \/ StageStep
  \/ \E e \in DOMAIN Posted : Combined /\ CreateManual(e, FirstStart, NoTime)
  \/ \E r \in runs : VoidRun(r) \/ UnvoidRun(r) \/ MarkDnf(r) \/ UndoDnf(r)
  \/ \E e \in Entries : MarkDns(e) \/ UndoDns(e)

QueueSpec == Init /\ [][ByTheClock]_vars
=============================================================================

-------------------------- MODULE MCStageLifecycle --------------------------
(* Values for TLC, and specifications that start after the planning. *)
EXTENDS StageLifecycle, TLC

CONSTANTS s1, s2, g1, g2, c1, c2, m1, m2

AnyOne == Permutations(Marshals) \cup Permutations(Cars)

Assigned(s, g, role) == [stage |-> s, gate |-> g, role |-> role]

\* Two stages planned with a shared gate, the first car registered.
PlannedInit ==
  /\ status = [s \in Stages |-> "NOT_STARTED"]
  /\ plan = {Assigned(s1, g1, "combined"), Assigned(s2, g1, "combined")}
  /\ live = {} /\ cars = {c1} /\ rally = "RUNNING" /\ crashes = 0
  /\ order = [s \in Stages |-> NotFrozen]
  /\ standing = [s \in Stages |-> [c \in Cars |-> "none"]]
  /\ work = [m \in Marshals |-> Idle]

PlannedSpec == PlannedInit /\ [][LifecycleNext]_all
=============================================================================

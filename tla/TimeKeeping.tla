---------------------------- MODULE TimeKeeping ----------------------------
(***************************************************************************)
(* What the timing of passings promises, without gates, network, broker,   *)
(* database or retries: the run table changes by timing a passing a gate   *)
(* made, whole and at most once, or by a marshal.  Detections implements   *)
(* this.                                                                   *)
(***************************************************************************)
EXTENDS StageRuns

CONSTANT Passings   \* [gate, entry, at]; entry is NoCar at a light barrier

\* A gate is named by its role on the stage, and a split gate by itself.
Gates == {"start", "finish", "combined"} \cup SplitGates
NoCar == "unidentified"

\* Slot stages, where a start passing only adds evidence, are in StageRuns.
PassingsAssumption ==
  /\ Passings \subseteq [gate : Gates, entry : Entries \cup {NoCar}, at : Times]
  /\ SplitGates \cap {"start", "finish", "combined"} = {}
  /\ StartMode = "GATE"

VARIABLE timed   \* the passings that have changed the run table

\* Whether the rules change anything for this passing.
Changes(p, e) ==
  /\ status = "ACTIVE" /\ InEvent(e)
  /\ \/ p.gate = "start" /\ MayStart(e, p.at)
     \/ p.gate = "finish" /\ MayFinish(e, p.at)
     \/ p.gate = "combined" /\ \/ MayStart(e, p.at)
                               \/ /\ MayFinish(e, p.at)
                                  /\ \A r \in OpenRuns(e) : p.at - r.start >= MinDuration
     \/ p.gate \in SplitGates /\ SplitRuns(e, p.gate, p.at) # {}

\* applyRules, for a passing that changes something.
Apply(p, e) ==
  \/ p.gate = "start" /\ PassStart(e, p.at)
  \/ p.gate = "finish" /\ PassFinish(e, p.at)
  \/ p.gate = "combined" /\ PassStartFinish(e, p.at)
  \/ p.gate \in SplitGates /\ PassSplit(e, p.gate, p.at)

Time(p) ==
  /\ p \notin timed
  /\ \E e \in IF p.entry = NoCar THEN Entries ELSE {p.entry} : Apply(p, e)
  /\ timed' = timed \cup {p}

Marshal ==
  /\ \/ Activate \/ Close
     \/ \E r \in runs : VoidRun(r) \/ MarkDnf(r)
  /\ UNCHANGED timed

TimeInit == Init /\ timed = {}
TimeNext == (\E p \in Passings : Time(p)) \/ Marshal
TimeSpec == TimeInit /\ [][TimeNext]_<<vars, timed>>
=============================================================================

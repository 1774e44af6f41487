--------------------------- MODULE StageLifecycle ---------------------------
(***************************************************************************)
(* The rally day: stages with their gates and start lists from creation to *)
(* closing, and the rally's own status.  A gate may be planned for several *)
(* stages and be live on one; activating a stage can take a gate from the  *)
(* stage it is live on, which is then closed.                              *)
(*                                                                         *)
(* Activating, closing and unfreezing a stage and closing the rally read,  *)
(* decide and write in several queries, each a step here; with SQLite      *)
(* (Interleaved = FALSE) nothing runs in between but a crash can still     *)
(* end them.  A saved stage is saved whole, with the start list as read.   *)
(*                                                                         *)
(* Of the run table only each car's standing on each stage is kept.        *)
(***************************************************************************)
EXTENDS Integers, FiniteSets

CONSTANTS
  Stages, Gates, Cars,
  Overall,      \* the stages scored OVERALL; the others are qualifying stages
  Roles,        \* the gate roles in use
  Marshals,     \* requests the server may be handling at the same time
  MaxCrashes,   \* bound on crashes
  Interleaved   \* requests interleave at their awaits (PostgreSQL)

\* No stage: what a request has in place of one it is not about.
Nobody == "none"

ASSUME LifecycleAssumption ==
  /\ Nobody \notin Stages
  /\ Overall \subseteq Stages
  /\ Roles \subseteq {"start", "finish", "combined", "split"}
  /\ MaxCrashes \in Nat /\ Interleaved \in BOOLEAN

VARIABLES
  status,    \* of each stage; "absent" before it is created
  plan,      \* gate assignments
  live,      \* those with active = true
  order,     \* each stage's frozen start list, NotFrozen without one
  rally,     \* the rally's status
  cars,      \* the cars in the event
  standing,  \* of each car on each stage
  work,      \* the request each marshal waits for
  crashes

world == <<status, plan, live, order, rally, cars, standing>>
all == <<world, work, crashes>>

\* A stage's start list: empty until it is frozen, then a set of one list,
\* which is kept as the set of its cars.
NotFrozen == {}
Frozen(list) == {list}
Lists == {NotFrozen} \cup {Frozen(list) : list \in SUBSET Cars}
Idle == [op |-> "idle"]
Assignment == [stage : Stages, gate : Gates, role : Roles]
Standings == {"none", "started", "finished", "dnf", "dns"}

\* stage, force and seen belong to an activation or an unfreeze; closing and
\* read to the stage being closed, todo are the stages still to close.
Request == [op : {"activate", "close", "unfreeze", "closeRally"},
            step : {"conflicts", "switch", "save", "freeze", "thaw", "count",
                    "close", "write", "end"},
            stage : Stages \cup {Nobody}, force : BOOLEAN,
            seen : Lists, todo : SUBSET Stages,
            closing : Stages \cup {Nobody}, read : Lists]

LifecycleTypeOK ==
  /\ status \in [Stages -> {"absent", "NOT_STARTED", "ACTIVE", "CLOSED"}]
  /\ plan \subseteq Assignment /\ live \subseteq plan
  /\ order \in [Stages -> Lists]
  /\ rally \in {"SETUP", "RUNNING", "CLOSED"}
  /\ cars \subseteq Cars
  /\ standing \in [Stages -> [Cars -> Standings]]
  /\ work \in [Marshals -> {Idle} \cup Request]
  /\ crashes \in 0 .. MaxCrashes

Of(s) == {a \in plan : a.stage = s}
LiveOn(g) == {a \in live : a.gate = g}
Free == Interleaved \/ \A m \in Marshals : work[m] = Idle

-----------------------------------------------------------------------------
(* Requests *)

At(m, step) == work[m] # Idle /\ work[m].step = step
Goto(m, step) == work' = [work EXCEPT ![m].step = step]
Return(m) == work' = [work EXCEPT ![m] = Idle]

Ask(m, op, step, s, force, todo) ==
  /\ work[m] = Idle /\ Free
  /\ work' = [work EXCEPT ![m] =
       [op |-> op, step |-> step, stage |-> s, force |-> force,
        seen |-> IF s = Nobody THEN NotFrozen ELSE order[s], todo |-> todo,
        closing |-> Nobody, read |-> NotFrozen]]
  /\ UNCHANGED <<world, crashes>>

\* What follows once every stage on the list is closed.
AfterClosing(op) ==
  CASE op = "activate" -> "save" [] op = "closeRally" -> "end" [] OTHER -> "idle"

\* Mutant: a closed stage may be activated.
AskActivateClosed(m, s, force) ==
  /\ status[s] # "absent"
  /\ rally # "CLOSED" /\ (s \in Overall => rally # "SETUP")
  /\ Ask(m, "activate", "conflicts", s, force, {})

\* activate: the checks, all before the first write.
AskActivate(m, s, force) ==
  /\ status[s] \in {"NOT_STARTED", "ACTIVE"}
  /\ rally # "CLOSED" /\ (s \in Overall => rally # "SETUP")
  /\ Ask(m, "activate", "conflicts", s, force, {})

\* findConflictingStageIds.
Conflicting(s) ==
  {a.stage : a \in {b \in live : b.stage # s /\ \E o \in Of(s) : o.gate = b.gate}}

Conflicts(m) ==
  LET found == Conflicting(work[m].stage) IN
  /\ At(m, "conflicts")
  /\ IF found # {} /\ ~work[m].force
     THEN Return(m)
     ELSE work' = [work EXCEPT ![m].step = "switch", ![m].todo = found]
  /\ UNCHANGED <<world, crashes>>

\* Mutant: the gates stay live on the stages they are taken from.
SwitchOnly(m) ==
  /\ At(m, "switch")
  /\ live' = live \cup Of(work[m].stage)
  /\ Goto(m, IF work[m].todo = {} THEN "save" ELSE "close")
  /\ UNCHANGED <<status, plan, order, rally, cars, standing, crashes>>

\* activateForStage's transaction.
Switch(m) ==
  /\ At(m, "switch")
  /\ live' = {a \in live : a.stage \notin work[m].todo} \cup Of(work[m].stage)
  /\ Goto(m, IF work[m].todo = {} THEN "save" ELSE "close")
  /\ UNCHANGED <<status, plan, order, rally, cars, standing, crashes>>

\* save(stage): ACTIVE, and the rest of the row as it was read.
Save(m) ==
  LET s == work[m].stage IN
  /\ At(m, "save")
  /\ status' = [status EXCEPT ![s] = "ACTIVE"]
  /\ order' = [order EXCEPT ![s] = work[m].seen]
  /\ Goto(m, "freeze")
  /\ UNCHANGED <<plan, live, rally, cars, standing, crashes>>

\* Mutant: the list is computed again at activation.
FreezeAgain(m) ==
  /\ At(m, "freeze")
  /\ order' = [order EXCEPT ![work[m].stage] = Frozen(cars)]
  /\ Return(m)
  /\ UNCHANGED <<status, plan, live, rally, cars, standing, crashes>>

\* freezeOnActivation: the list is frozen unless it was when it was read.
FreezeOnActivation(m) ==
  /\ At(m, "freeze")
  /\ order' = IF work[m].seen = NotFrozen
              THEN [order EXCEPT ![work[m].stage] = Frozen(cars)] ELSE order
  /\ Return(m)
  /\ UNCHANGED <<status, plan, live, rally, cars, standing, crashes>>

AskClose(m, s) ==
  status[s] # "absent" /\ Ask(m, "close", "close", s, FALSE, {s})

\* close: the stage is read and its gates go dead.
CloseBegin(m) ==
  /\ At(m, "close")
  /\ \E s \in work[m].todo :
       /\ live' = live \ Of(s)
       /\ work' = [work EXCEPT ![m].step = "write", ![m].closing = s, ![m].read = order[s]]
  /\ UNCHANGED <<status, plan, order, rally, cars, standing, crashes>>

\* writeClose: a car still out is DNF, one that never started DNS.
CloseWrite(m) ==
  LET s == work[m].closing
      rest == work[m].todo \ {s}
  IN /\ At(m, "write")
     /\ status' = [status EXCEPT ![s] = "CLOSED"]
     /\ order' = [order EXCEPT ![s] = work[m].read]
     /\ standing' = [standing EXCEPT ![s] = [c \in Cars |->
          IF @[c] = "started" THEN "dnf"
          ELSE IF @[c] = "none" /\ c \in cars THEN "dns" ELSE @[c]]]
     /\ IF rest = {} /\ work[m].op = "close"
        THEN Return(m)
        ELSE work' = [work EXCEPT ![m].todo = rest, ![m].closing = Nobody,
               ![m].step = IF rest = {} THEN AfterClosing(work[m].op) ELSE "close"]
     /\ UNCHANGED <<plan, live, rally, cars, crashes>>

\* unfreeze checks the status, then clears the list.
AskUnfreeze(m, s) ==
  status[s] = "NOT_STARTED" /\ Ask(m, "unfreeze", "thaw", s, FALSE, {})

Thaw(m) ==
  /\ At(m, "thaw")
  /\ order' = [order EXCEPT ![work[m].stage] = NotFrozen]
  /\ Return(m)
  /\ UNCHANGED <<status, plan, live, rally, cars, standing, crashes>>

\* RallyStatusService.close: the running stages, and whether a car is out.
AskCloseRally(m) ==
  /\ rally = "RUNNING"
  /\ Ask(m, "closeRally", "count", Nobody, FALSE, {s \in Stages : status[s] = "ACTIVE"})

\* Mutant: nobody counts.
CountNobody(m) ==
  /\ At(m, "count")
  /\ Goto(m, IF work[m].todo = {} THEN "end" ELSE "close")
  /\ UNCHANGED <<world, crashes>>

Count(m) ==
  /\ At(m, "count")
  /\ IF \E s \in work[m].todo, c \in Cars : standing[s][c] = "started"
     THEN Return(m)
     ELSE Goto(m, IF work[m].todo = {} THEN "end" ELSE "close")
  /\ UNCHANGED <<world, crashes>>

EndRally(m) ==
  /\ At(m, "end")
  /\ rally' = "CLOSED"
  /\ Return(m)
  /\ UNCHANGED <<status, plan, live, order, cars, standing, crashes>>

\* The server process ends and starts again.
Crash ==
  /\ crashes < MaxCrashes /\ crashes' = crashes + 1
  /\ work' = [m \in Marshals |-> Idle]
  /\ UNCHANGED world

-----------------------------------------------------------------------------
(* Requests that are one step *)

Create(s) ==
  /\ Free /\ status[s] = "absent"
  /\ status' = [status EXCEPT ![s] = "NOT_STARTED"]
  /\ UNCHANGED <<plan, live, order, rally, cars, standing, work, crashes>>

\* Only a stage that never ran; its assignments go with it.
Remove(s) ==
  /\ Free /\ status[s] = "NOT_STARTED"
  /\ status' = [status EXCEPT ![s] = "absent"]
  /\ plan' = plan \ Of(s) /\ live' = live \ Of(s)
  /\ order' = [order EXCEPT ![s] = NotFrozen]
  /\ UNCHANGED <<rally, cars, standing, work, crashes>>

\* assertStartFinishFits.
Ends == {"start", "finish", "combined"}
Fits(s, role) ==
  role \in Ends => \A a \in Of(s) :
    a.role \in Ends => role # "combined" /\ a.role # "combined"

Assign(s, g, role) ==
  /\ Free /\ status[s] = "NOT_STARTED" /\ Fits(s, role)
  /\ plan' = plan \cup {[stage |-> s, gate |-> g, role |-> role]}
  /\ UNCHANGED <<status, live, order, rally, cars, standing, work, crashes>>

\* Mutant: the plan and the live gates are kept apart and only one is cleared.
UnassignPlanOnly(a) ==
  /\ Free /\ status[a.stage] = "NOT_STARTED"
  /\ plan' = plan \ {a}
  /\ UNCHANGED <<status, live, order, rally, cars, standing, work, crashes>>

Unassign(a) ==
  /\ Free /\ status[a.stage] = "NOT_STARTED"
  /\ plan' = plan \ {a} /\ live' = live \ {a}
  /\ UNCHANGED <<status, order, rally, cars, standing, work, crashes>>

\* removeAllForGate, when the gate is deleted.
RemoveGate(g) ==
  LET mine == {a \in plan : a.gate = g} IN
  /\ Free /\ \A a \in mine : status[a.stage] = "NOT_STARTED"
  /\ plan' = plan \ mine /\ live' = live \ mine
  /\ UNCHANGED <<status, order, rally, cars, standing, work, crashes>>

Freeze(s) ==
  /\ Free /\ status[s] # "absent" /\ order[s] = NotFrozen
  /\ order' = [order EXCEPT ![s] = Frozen(cars)]
  /\ UNCHANGED <<status, plan, live, rally, cars, standing, work, crashes>>

StartRally ==
  /\ Free /\ rally = "SETUP" /\ rally' = "RUNNING"
  /\ UNCHANGED <<status, plan, live, order, cars, standing, work, crashes>>

ReopenRally ==
  /\ Free /\ rally = "CLOSED" /\ rally' = "RUNNING"
  /\ UNCHANGED <<status, plan, live, order, cars, standing, work, crashes>>

Enter(c) ==
  /\ Free /\ c \notin cars /\ cars' = cars \cup {c}
  /\ UNCHANGED <<status, plan, live, order, rally, standing, work, crashes>>

Withdraw(c) ==
  /\ Free /\ rally # "CLOSED" /\ cars' = cars \ {c} /\ c \in cars
  /\ UNCHANGED <<status, plan, live, order, rally, standing, work, crashes>>

\* A passing at a live gate of an active stage.
Drive(c, a) ==
  LET s == a.stage IN
  /\ Free /\ a \in live /\ status[s] = "ACTIVE" /\ c \in cars
  /\ \/ /\ a.role \in {"start", "combined"} /\ standing[s][c] \in {"none", "dns"}
        /\ standing' = [standing EXCEPT ![s][c] = "started"]
     \/ /\ a.role \in {"finish", "combined"} /\ standing[s][c] = "started"
        /\ standing' = [standing EXCEPT ![s][c] = "finished"]
  /\ UNCHANGED <<status, plan, live, order, rally, cars, work, crashes>>

\* createManual, with a finish or without: it asks whether the stage is closed,
\* not whether it runs.
Record(s, c) ==
  /\ Free /\ rally # "CLOSED" /\ status[s] # "absent" /\ c \in cars
  /\ standing[s][c] \in {"none", "dns"}
  /\ \E result \in {"finished", IF status[s] = "CLOSED" THEN "dnf" ELSE "started"} :
       standing' = [standing EXCEPT ![s][c] = result]
  /\ UNCHANGED <<status, plan, live, order, rally, cars, work, crashes>>

-----------------------------------------------------------------------------
LifecycleInit ==
  /\ status = [s \in Stages |-> "absent"]
  /\ plan = {} /\ live = {} /\ cars = {} /\ rally = "SETUP" /\ crashes = 0
  /\ order = [s \in Stages |-> NotFrozen]
  /\ standing = [s \in Stages |-> [c \in Cars |-> "none"]]
  /\ work = [m \in Marshals |-> Idle]

Step(m) ==
  \/ Conflicts(m) \/ Switch(m) \/ Save(m) \/ FreezeOnActivation(m) \/ Thaw(m)
  \/ CloseBegin(m) \/ CloseWrite(m) \/ Count(m) \/ EndRally(m)

Asking(m) ==
  \/ AskCloseRally(m)
  \/ \E s \in Stages : \/ AskClose(m, s) \/ AskUnfreeze(m, s)
                       \/ \E force \in BOOLEAN : AskActivate(m, s, force)

Planning ==
  \/ \E s \in Stages : \/ Create(s) \/ Remove(s) \/ Freeze(s)
                       \/ \E g \in Gates, role \in Roles : Assign(s, g, role)
  \/ \E a \in plan : Unassign(a)
  \/ \E g \in Gates : RemoveGate(g)
  \/ StartRally \/ ReopenRally

Driving ==
  \E c \in Cars : \/ Enter(c) \/ Withdraw(c)
                  \/ \E a \in live : Drive(c, a)
                  \/ \E s \in Stages : Record(s, c)

LifecycleNext == Planning \/ Driving \/ Crash \/ \E m \in Marshals : Step(m) \/ Asking(m)

LifecycleSpec == LifecycleInit /\ [][LifecycleNext]_all

-----------------------------------------------------------------------------
(* Properties *)

\* A gate is live on at most one stage, crashes or not, so a passing has one
\* meaning however stages are activated over one another.
GateTimesOneStage ==
  \A g \in Gates : \A a, b \in LiveOn(g) : a.stage = b.stage

\* "Closing is terminal": no request makes a closed stage anything else.
ClosedIsFinal ==
  [][\A s \in Stages : status[s] = "CLOSED" => status'[s] = "CLOSED"]_all

\* A frozen list never becomes another list; it is dropped only by unfreezing
\* it before the stage runs, or with the stage.
PostedListStays ==
  [][\A s \in Stages : (order[s] # NotFrozen /\ order'[s] # order[s]) =>
       /\ order'[s] = NotFrozen /\ status[s] = "NOT_STARTED"
       /\ \/ status'[s] = "absent"
          \/ \E m \in Marshals : At(m, "thaw") /\ work[m].stage = s]_all

\* No stage runs in a closed rally, and none that counts before its start.
RallyGovernsStages ==
  \A s \in Stages : status[s] = "ACTIVE" =>
    rally # "CLOSED" /\ (s \in Overall => rally # "SETUP")

\* Closing the rally never makes a car on stage a DNF nobody decided on.
RallyCloseStrandsNobody ==
  [][\A s \in Stages, c \in Cars :
       (standing[s][c] = "started" /\ standing'[s][c] = "dnf") =>
         \E m \in Marshals : /\ At(m, "write") /\ work[m].closing = s
                             /\ work[m].op # "closeRally"]_all

-----------------------------------------------------------------------------
(* What docs and comments say and the code does not keep *)

\* "exactly one active assignment per gate"
OneLiveAssignment == \A g \in Gates : Cardinality(LiveOn(g)) <= 1

\* Deleting a stage would "orphan history instead of a plan that was never used"
NoOrphanRun ==
  \A s \in Stages : status[s] = "absent" => \A c \in Cars : standing[s][c] = "none"

=============================================================================

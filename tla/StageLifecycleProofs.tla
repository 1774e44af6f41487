------------------------- MODULE StageLifecycleProofs -------------------------
(***************************************************************************)
(* The rally day with the default database (requests do not interleave),   *)
(* for any stages, gates, cars and marshals and any number of crashes: a   *)
(* gate is live on one stage, a closed stage stays closed, a posted list   *)
(* stays as posted, and closing the rally strands nobody.                  *)
(*                                                                         *)
(* All rest on what a request knows between two of its queries still being *)
(* so.  Sound: the stages found in conflict are all there are when the     *)
(* gates are switched, and the stage being activated is not among those    *)
(* the activation closes.  ReadInv: a list that is written back is the     *)
(* list there is, and nobody is out on a stage the rally's closing closes. *)
(* With PostgreSQL Alone fails, and with it the theorems:                  *)
(* gate_on_two_stages.cfg, reactivated.cfg, posted_list_lost.cfg and       *)
(* stranded.cfg.                                                           *)
(***************************************************************************)
EXTENDS StageLifecycle, TLAPS

\* Every step of a request but the closing of a stage is of one operation.
Sound(w) ==
  /\ w.step \in {"conflicts", "switch", "save", "freeze"} => w.op = "activate"
  /\ w.op = "activate" =>
       /\ w.stage \in Stages /\ status[w.stage] # "CLOSED"
       /\ w.stage \notin w.todo
  /\ w.step = "switch" => Conflicting(w.stage) \subseteq w.todo
  /\ w.step \in {"close", "write"} => w.op # "unfreeze"
  /\ w.step = "write" => w.closing \in w.todo
  /\ w.step \in {"count", "end"} => w.op = "closeRally"

Alone == \A m, n \in Marshals : work[m] # Idle /\ work[n] # Idle => m = n

DayInv ==
  /\ LifecycleTypeOK /\ GateTimesOneStage /\ Alone
  /\ \A m \in Marshals : work[m] # Idle => Sound(work[m])

-----------------------------------------------------------------------------
LEMMA DayInit == LifecycleInit => DayInv
<1> SUFFICES ASSUME LifecycleInit PROVE DayInv
    OBVIOUS
<1>1. LifecycleTypeOK
      BY LifecycleAssumption DEF LifecycleInit, LifecycleTypeOK, Lists, NotFrozen, Standings
<1>2. \A m \in Marshals : work[m] = Idle
      BY DEF LifecycleInit
<1> QED BY <1>1, <1>2 DEF LifecycleInit, DayInv, Alone, GateTimesOneStage, LiveOn

\* The request of one marshal goes on as v, and is again sound.
LEMMA Continues ==
  ASSUME DayInv, NEW m \in Marshals, NEW v \in {Idle} \cup Request,
         work' = [work EXCEPT ![m] = v],
         \A n \in Marshals : n # m => work[n] = Idle,
         v # Idle => Sound(v)'
  PROVE  /\ work' \in [Marshals -> {Idle} \cup Request] /\ Alone'
         /\ \A n \in Marshals : work'[n] # Idle => Sound(work[n])'
<1>1. work \in [Marshals -> {Idle} \cup Request]
      BY DEF DayInv, LifecycleTypeOK
<1>2. \A n \in Marshals : work'[n] = IF n = m THEN v ELSE Idle
      BY <1>1
<1>3. work' \in [Marshals -> {Idle} \cup Request] /\ Alone'
      BY <1>1, <1>2 DEF Alone
<1>4. ASSUME NEW n \in Marshals, work'[n] # Idle
      PROVE  Sound(work[n])'
  <2>1. n = m /\ work'[n] = v
        BY <1>2, <1>4
  <2> QED BY <2>1, <1>4 DEF Sound
<1> QED BY <1>3, <1>4

LEMMA Returns ==
  ASSUME DayInv, NEW m \in Marshals, Return(m), \A n \in Marshals : n # m => work[n] = Idle
  PROVE  /\ work' \in [Marshals -> {Idle} \cup Request] /\ Alone'
         /\ \A n \in Marshals : work'[n] # Idle => Sound(work[n])'
  BY Continues DEF Return

LEMMA AtStep ==
  ASSUME DayInv, NEW m \in Marshals, NEW s, At(m, s)
  PROVE  /\ work[m] \in Request /\ work[m].step = s /\ Sound(work[m])
         /\ \A n \in Marshals : n # m => work[n] = Idle
  BY DEF DayInv, LifecycleTypeOK, At, Alone

\* A stage in conflict is another one, with a live gate.
LEMMA ConflictsAreOthers ==
  ASSUME LifecycleTypeOK, NEW s
  PROVE  Conflicting(s) \subseteq Stages \ {s}
  BY DEF LifecycleTypeOK, Conflicting, Assignment

-----------------------------------------------------------------------------
(* Activation *)

LEMMA ConflictsKeeps ==
  ASSUME DayInv, NEW m \in Marshals, Conflicts(m)
  PROVE  DayInv'
<1>1. At(m, "conflicts") /\ UNCHANGED <<world, crashes>>
      BY DEF Conflicts
<1> PICK w \in Request : w = work[m]
    BY <1>1, AtStep
<1> PICK found \in SUBSET Stages : found = Conflicting(w.stage)
    BY ConflictsAreOthers DEF DayInv
<1> DEFINE v == [w EXCEPT !.step = "switch", !.todo = found]
<1>2. /\ Sound(w) /\ w.step = "conflicts" /\ \A n \in Marshals : n # m => work[n] = Idle
      /\ Return(m) \/ work' = [work EXCEPT ![m] = v]
      BY <1>1, AtStep DEF Conflicts
<1>3. w.stage \notin found
      BY ConflictsAreOthers DEF DayInv
<1>4. /\ v \in Request /\ v.step = "switch" /\ v.op = w.op
      /\ v.stage = w.stage /\ v.todo = found
      BY DEF Request
<1> HIDE DEF v
<1>5. Sound(v)'
  <2>1. UNCHANGED <<status, live, plan>>
        BY <1>1 DEF world
  <2> QED BY <1>2, <1>3, <1>4, <2>1 DEF Sound, Conflicting, Of
<1>6. /\ work' \in [Marshals -> {Idle} \cup Request] /\ Alone'
      /\ \A n \in Marshals : work'[n] # Idle => Sound(work[n])'
      BY <1>2, <1>4, <1>5, Continues, Returns
<1> QED BY <1>1, <1>6 DEF DayInv, LifecycleTypeOK, GateTimesOneStage, LiveOn, world

\* The gates go to this stage: whoever else had them is on the list.
LEMMA SwitchKeeps ==
  ASSUME DayInv, NEW m \in Marshals, Switch(m)
  PROVE  DayInv'
<1>1. At(m, "switch") /\ UNCHANGED <<status, plan, order, rally, cars, standing, crashes>>
      BY DEF Switch
<1> PICK w \in Request : w = work[m]
    BY <1>1, AtStep
<1> DEFINE next == IF w.todo = {} THEN "save" ELSE "close"
           v == [w EXCEPT !.step = next]
<1>2. /\ Sound(w) /\ w.step = "switch" /\ \A n \in Marshals : n # m => work[n] = Idle
      /\ work' = [work EXCEPT ![m] = v]
      /\ live' = {a \in live : a.stage \notin w.todo} \cup Of(w.stage)
      BY <1>1, AtStep DEF Switch, Goto
<1>3. v \in Request /\ v.op = w.op /\ v.stage = w.stage /\ v.todo = w.todo /\ v.step = next
      BY DEF Request
<1> HIDE DEF v
<1>4. Sound(v)'
      BY <1>1, <1>2, <1>3 DEF Sound
<1>5. /\ work' \in [Marshals -> {Idle} \cup Request] /\ Alone'
      /\ \A n \in Marshals : work'[n] # Idle => Sound(work[n])'
      BY <1>2, <1>3, <1>4, Continues
<1>6. live' \subseteq plan'
      BY <1>1, <1>2 DEF DayInv, LifecycleTypeOK, Of
<1>7. GateTimesOneStage'
  <2> SUFFICES ASSUME NEW a \in live', NEW b \in live', a.gate = b.gate,
                      a.stage # b.stage
               PROVE  FALSE
      BY DEF GateTimesOneStage, LiveOn
  <2>1. a.gate \in Gates
        BY <1>1, <1>6 DEF DayInv, LifecycleTypeOK, Assignment
  <2>2. CASE a \in live /\ b \in live
        BY <2>1, <2>2 DEF DayInv, GateTimesOneStage, LiveOn
  <2>3. ASSUME NEW c \in live, c.stage \notin w.todo, c.stage # w.stage,
               NEW o \in Of(w.stage), o.gate = c.gate
        PROVE  FALSE
    <3>1. c.stage \in Conflicting(w.stage)
          BY <2>3 DEF Conflicting
    <3> QED BY <1>2, <2>3, <3>1 DEF Sound
  <2> QED BY <1>2, <2>2, <2>3 DEF Of
<1> QED BY <1>1, <1>5, <1>6, <1>7 DEF DayInv, LifecycleTypeOK

LEMMA SaveKeeps ==
  ASSUME DayInv, NEW m \in Marshals, Save(m)
  PROVE  DayInv'
<1>1. At(m, "save") /\ UNCHANGED <<plan, live, rally, cars, standing, crashes>>
      BY DEF Save
<1> PICK w \in Request : w = work[m]
    BY <1>1, AtStep
<1> DEFINE v == [w EXCEPT !.step = "freeze"]
<1>2. /\ Sound(w) /\ w.step = "save" /\ \A n \in Marshals : n # m => work[n] = Idle
      /\ work' = [work EXCEPT ![m] = v]
      /\ status' = [status EXCEPT ![w.stage] = "ACTIVE"]
      /\ order' = [order EXCEPT ![w.stage] = w.seen]
      BY <1>1, AtStep DEF Save, Goto
<1>3. v \in Request /\ v.op = w.op /\ v.stage = w.stage /\ v.todo = w.todo /\ v.step = "freeze"
      BY DEF Request
<1> HIDE DEF v
<1>4. Sound(v)'
      BY <1>1, <1>2, <1>3 DEF Sound, DayInv, LifecycleTypeOK
<1>5. /\ work' \in [Marshals -> {Idle} \cup Request] /\ Alone'
      /\ \A n \in Marshals : work'[n] # Idle => Sound(work[n])'
      BY <1>2, <1>3, <1>4, Continues
<1>6. /\ status' \in [Stages -> {"absent", "NOT_STARTED", "ACTIVE", "CLOSED"}]
      /\ order' \in [Stages -> Lists]
      BY <1>2 DEF DayInv, LifecycleTypeOK, Request
<1> QED BY <1>1, <1>5, <1>6 DEF DayInv, LifecycleTypeOK, GateTimesOneStage, LiveOn

-----------------------------------------------------------------------------
(* The steps that end a request, and closing *)

LEMMA EndingKeeps ==
  ASSUME DayInv, NEW m \in Marshals, FreezeOnActivation(m) \/ Thaw(m) \/ EndRally(m)
  PROVE  DayInv'
<1>1. /\ At(m, "freeze") \/ At(m, "thaw") \/ At(m, "end")
      /\ Return(m) /\ UNCHANGED <<status, plan, live, cars, standing, crashes>>
      BY DEF FreezeOnActivation, Thaw, EndRally
<1>2. /\ order' \in [Stages -> Lists] /\ rally' \in {"SETUP", "RUNNING", "CLOSED"}
  <2>1. /\ order \in [Stages -> Lists] /\ rally \in {"SETUP", "RUNNING", "CLOSED"}
        /\ cars \subseteq Cars
        BY DEF DayInv, LifecycleTypeOK
  <2>2. Frozen(cars) \in Lists /\ NotFrozen \in Lists
        BY <2>1 DEF Lists
  <2>3. CASE FreezeOnActivation(m)
        BY <2>1, <2>2, <2>3 DEF FreezeOnActivation
  <2>4. CASE Thaw(m)
        BY <2>1, <2>2, <2>4 DEF Thaw
  <2>5. CASE EndRally(m)
        BY <2>1, <2>5 DEF EndRally
  <2> QED BY <2>3, <2>4, <2>5
<1>3. \A n \in Marshals : n # m => work[n] = Idle
      BY <1>1, AtStep
<1>4. /\ work' \in [Marshals -> {Idle} \cup Request] /\ Alone'
      /\ \A n \in Marshals : work'[n] # Idle => Sound(work[n])'
      BY <1>1, <1>3, Returns
<1> QED BY <1>1, <1>2, <1>4 DEF DayInv, LifecycleTypeOK, GateTimesOneStage, LiveOn

LEMMA CountKeeps ==
  ASSUME DayInv, NEW m \in Marshals, Count(m)
  PROVE  DayInv'
<1>1. At(m, "count") /\ UNCHANGED <<world, crashes>>
      BY DEF Count
<1> PICK w \in Request : w = work[m]
    BY <1>1, AtStep
<1> DEFINE next == IF w.todo = {} THEN "end" ELSE "close"
           v == [w EXCEPT !.step = next]
<1>2. /\ Sound(w) /\ w.step = "count" /\ \A n \in Marshals : n # m => work[n] = Idle
      /\ Return(m) \/ work' = [work EXCEPT ![m] = v]
      BY <1>1, AtStep DEF Count, Goto
<1>3. v \in Request /\ v.op = w.op /\ v.stage = w.stage /\ v.todo = w.todo /\ v.step = next
      BY DEF Request
<1> HIDE DEF v
<1>4. Sound(v)'
      BY <1>1, <1>2, <1>3 DEF Sound, world
<1>5. /\ work' \in [Marshals -> {Idle} \cup Request] /\ Alone'
      /\ \A n \in Marshals : work'[n] # Idle => Sound(work[n])'
      BY <1>2, <1>3, <1>4, Continues, Returns
<1> QED BY <1>1, <1>5 DEF DayInv, LifecycleTypeOK, GateTimesOneStage, LiveOn, world

LEMMA CloseBeginKeeps ==
  ASSUME DayInv, NEW m \in Marshals, CloseBegin(m)
  PROVE  DayInv'
<1>1. At(m, "close") /\ UNCHANGED <<status, plan, order, rally, cars, standing, crashes>>
      BY DEF CloseBegin
<1> PICK w \in Request : w = work[m]
    BY <1>1, AtStep
<1>2. /\ Sound(w) /\ w.step = "close" /\ \A n \in Marshals : n # m => work[n] = Idle
      BY <1>1, AtStep
<1> PICK s \in w.todo : /\ live' = live \ Of(s)
                        /\ work' = [work EXCEPT ![m].step = "write", ![m].closing = s,
                                                ![m].read = order[s]]
    BY DEF CloseBegin
<1>3. s \in Stages
      BY DEF Request
<1> PICK list \in Lists : list = order[s]
    BY <1>3 DEF DayInv, LifecycleTypeOK
<1> DEFINE v == [w EXCEPT !.step = "write", !.closing = s, !.read = list]
<1>4. work' = [work EXCEPT ![m] = v]
      OBVIOUS
<1>5. /\ v \in Request /\ v.op = w.op /\ v.stage = w.stage /\ v.todo = w.todo
      /\ v.step = "write" /\ v.closing = s
      BY <1>3 DEF Request
<1> HIDE DEF v
<1>6. Sound(v)'
      BY <1>1, <1>2, <1>5 DEF Sound
<1>7. /\ work' \in [Marshals -> {Idle} \cup Request] /\ Alone'
      /\ \A n \in Marshals : work'[n] # Idle => Sound(work[n])'
      BY <1>2, <1>4, <1>5, <1>6, Continues
<1> QED BY <1>1, <1>7 DEF DayInv, LifecycleTypeOK, GateTimesOneStage, LiveOn

\* A stage being activated is not on the list, so it is not the one closed.
LEMMA CloseWriteKeeps ==
  ASSUME DayInv, NEW m \in Marshals, CloseWrite(m)
  PROVE  DayInv'
<1>1. At(m, "write") /\ UNCHANGED <<plan, live, rally, cars, crashes>>
      BY DEF CloseWrite
<1> PICK w \in Request : w = work[m]
    BY <1>1, AtStep
<1> DEFINE s == w.closing
           rest == w.todo \ {s}
           next == IF rest = {} THEN AfterClosing(w.op) ELSE "close"
           v == [w EXCEPT !.todo = rest, !.closing = Nobody, !.step = next]
<1>2. /\ Sound(w) /\ w.step = "write" /\ \A n \in Marshals : n # m => work[n] = Idle
      /\ status' = [status EXCEPT ![s] = "CLOSED"]
      /\ order' = [order EXCEPT ![s] = w.read]
      /\ IF rest = {} /\ w.op = "close" THEN Return(m) ELSE work' = [work EXCEPT ![m] = v]
      BY <1>1, AtStep DEF CloseWrite
<1>3. s \in Stages /\ s \in w.todo
      BY <1>2 DEF Sound, Request
<1>4. standing' \in [Stages -> [Cars -> Standings]]
  <2> DEFINE verdicts == [c \in Cars |->
                IF standing[s][c] = "started" THEN "dnf"
                ELSE IF standing[s][c] = "none" /\ c \in cars THEN "dns" ELSE standing[s][c]]
  <2>1. standing' = [standing EXCEPT ![s] = verdicts]
        BY DEF CloseWrite
  <2>2. standing \in [Stages -> [Cars -> Standings]]
        BY DEF DayInv, LifecycleTypeOK
  <2>3. verdicts \in [Cars -> Standings]
        BY <1>3, <2>2 DEF Standings
  <2> QED BY <2>1, <2>2, <2>3
<1>5. /\ status' \in [Stages -> {"absent", "NOT_STARTED", "ACTIVE", "CLOSED"}]
      /\ order' \in [Stages -> Lists]
      BY <1>2 DEF DayInv, LifecycleTypeOK, Request
<1>6. ASSUME ~(rest = {} /\ w.op = "close")
      PROVE  /\ v \in Request /\ v.op = w.op /\ v.stage = w.stage /\ v.todo = rest
             /\ v.step = next /\ next \in {"save", "end", "close"}
             /\ next = "save" => w.op = "activate"
             /\ next = "end" => w.op = "closeRally"
  <2>1. w.op \in {"activate", "close", "closeRally"}
        BY <1>2 DEF Sound, Request
  <2>2. /\ next \in {"save", "end", "close"}
        /\ next = "save" => w.op = "activate"
        /\ next = "end" => w.op = "closeRally"
        BY <1>6, <2>1 DEF AfterClosing
  <2> HIDE DEF next
  <2> QED BY <2>2 DEF Request
<1>7. ASSUME ~(rest = {} /\ w.op = "close")
      PROVE  Sound(v)'
  <2> HIDE DEF v, next
  <2> QED BY <1>1, <1>2, <1>3, <1>6, <1>7 DEF Sound, DayInv, LifecycleTypeOK
<1> HIDE DEF v
<1>8. /\ work' \in [Marshals -> {Idle} \cup Request] /\ Alone'
      /\ \A n \in Marshals : work'[n] # Idle => Sound(work[n])'
  <2>1. CASE rest = {} /\ w.op = "close"
        BY <1>2, <2>1, Returns
  <2>2. CASE ~(rest = {} /\ w.op = "close")
        BY <1>2, <1>6, <1>7, <2>2, Continues
  <2> QED BY <2>1, <2>2
<1> QED BY <1>1, <1>4, <1>5, <1>8 DEF DayInv, LifecycleTypeOK, GateTimesOneStage, LiveOn

-----------------------------------------------------------------------------
(* New requests, and everything that is one step *)

LEMMA AllIdle ==
  ASSUME DayInv, ~Interleaved, Free
  PROVE  \A m \in Marshals : work[m] = Idle
  BY DEF Free

LEMMA AskKeeps ==
  ASSUME DayInv, ~Interleaved, NEW m \in Marshals, Asking(m)
  PROVE  DayInv'
<1>1. /\ Free /\ UNCHANGED <<world, crashes>>
      BY DEF Asking, AskCloseRally, AskClose, AskUnfreeze, AskActivate, Ask
<1>2. \A n \in Marshals : work[n] = Idle
      BY <1>1, AllIdle
<1>3. \E v \in Request : work' = [work EXCEPT ![m] = v] /\ Sound(v)
  <2>1. /\ order \in [Stages -> Lists] /\ NotFrozen \in Lists
        BY DEF DayInv, LifecycleTypeOK, Lists
  <2> HIDE DEF NotFrozen
  <2>2. CASE AskCloseRally(m)
    <3> PICK running \in SUBSET Stages : running = {s \in Stages : status[s] = "ACTIVE"}
        OBVIOUS
    <3> DEFINE v == [op |-> "closeRally", step |-> "count", stage |-> Nobody, force |-> FALSE,
                     seen |-> NotFrozen, todo |-> running, closing |-> Nobody, read |-> NotFrozen]
    <3>1. work' = [work EXCEPT ![m] = v]
          BY <2>2 DEF AskCloseRally, Ask
    <3>2. v \in Request /\ Sound(v)
          BY <2>1 DEF Request, Sound
    <3> QED BY <3>1, <3>2
  <2>3. ASSUME NEW s \in Stages, NEW op \in {"activate", "close", "unfreeze"},
               NEW step \in {"conflicts", "close", "thaw"}, NEW force \in BOOLEAN,
               NEW todo \in SUBSET Stages, Ask(m, op, step, s, force, todo),
               \/ op = "activate" /\ step = "conflicts" /\ status[s] # "CLOSED" /\ todo = {}
               \/ op = "close" /\ step = "close"
               \/ op = "unfreeze" /\ step = "thaw"
        PROVE  \E v \in Request : work' = [work EXCEPT ![m] = v] /\ Sound(v)
    <3> PICK seen \in Lists : seen = IF s = Nobody THEN NotFrozen ELSE order[s]
        BY <2>1
    <3> DEFINE v == [op |-> op, step |-> step, stage |-> s, force |-> force, seen |-> seen,
                     todo |-> todo, closing |-> Nobody, read |-> NotFrozen]
    <3>1. work' = [work EXCEPT ![m] = v]
          BY <2>3 DEF Ask
    <3>2. v \in Request /\ Sound(v)
          BY <2>1, <2>3 DEF Request, Sound
    <3> QED BY <3>1, <3>2
  <2>4. CASE \E s \in Stages : AskClose(m, s)
    <3> PICK s \in Stages : AskClose(m, s)
        BY <2>4
    <3> PICK todo \in SUBSET Stages : todo = {s}
        OBVIOUS
    <3>1. Ask(m, "close", "close", s, FALSE, todo)
          BY DEF AskClose
    <3> QED BY <3>1, <2>3
  <2>5. CASE \E s \in Stages : AskUnfreeze(m, s)
    <3> PICK s \in Stages : AskUnfreeze(m, s)
        BY <2>5
    <3> PICK todo \in SUBSET Stages : todo = {}
        OBVIOUS
    <3>1. Ask(m, "unfreeze", "thaw", s, FALSE, todo)
          BY DEF AskUnfreeze
    <3> QED BY <3>1, <2>3
  <2>6. CASE \E s \in Stages, force \in BOOLEAN : AskActivate(m, s, force)
    <3> PICK s \in Stages, force \in BOOLEAN : AskActivate(m, s, force)
        BY <2>6
    <3> PICK todo \in SUBSET Stages : todo = {}
        OBVIOUS
    <3>1. Ask(m, "activate", "conflicts", s, force, todo) /\ status[s] # "CLOSED"
          BY DEF AskActivate
    <3> QED BY <3>1, <2>3
  <2> QED BY <2>2, <2>4, <2>5, <2>6 DEF Asking
<1> PICK v \in Request : work' = [work EXCEPT ![m] = v] /\ Sound(v)
    BY <1>3
<1>4. Sound(v)'
      BY <1>1 DEF Sound, Conflicting, Of, world
<1>5. /\ work' \in [Marshals -> {Idle} \cup Request] /\ Alone'
      /\ \A n \in Marshals : work'[n] # Idle => Sound(work[n])'
      BY <1>2, <1>4, Continues
<1> QED BY <1>1, <1>5 DEF DayInv, LifecycleTypeOK, GateTimesOneStage, LiveOn, world

LEMMA PlanningKeeps ==
  ASSUME DayInv, ~Interleaved, Planning \/ Driving
  PROVE  DayInv'
<1>1. Free /\ UNCHANGED <<work, crashes>>
      BY DEF Planning, Driving, Create, Remove, Freeze, Assign, Unassign, RemoveGate,
             StartRally, ReopenRally, Enter, Withdraw, Drive, Record
<1>2. \A m \in Marshals : work[m] = Idle /\ work'[m] = Idle
      BY <1>1, AllIdle
<1>3. /\ live' \subseteq live /\ live' \subseteq plan' /\ plan' \subseteq Assignment
      /\ status' \in [Stages -> {"absent", "NOT_STARTED", "ACTIVE", "CLOSED"}]
      /\ order' \in [Stages -> Lists]
      /\ rally' \in {"SETUP", "RUNNING", "CLOSED"} /\ cars' \subseteq Cars
      /\ standing' \in [Stages -> [Cars -> Standings]]
  <2> USE DEF DayInv, LifecycleTypeOK
  <2>1. CASE \E s \in Stages : Create(s) \/ Remove(s)
    <3>1. NotFrozen \in Lists
          BY DEF Lists
    <3> HIDE DEF NotFrozen
    <3> QED BY <2>1, <3>1 DEF Create, Remove
  <2>2. CASE \E s \in Stages : Freeze(s)
    <3>1. Frozen(cars) \in Lists
          BY DEF Lists
    <3> QED BY <2>2, <3>1 DEF Freeze
  <2>3. CASE \E s \in Stages, g \in Gates, role \in Roles : Assign(s, g, role)
        BY <2>3 DEF Assign, Assignment
  <2>4. CASE (\E a \in plan : Unassign(a)) \/ \E g \in Gates : RemoveGate(g)
        BY <2>4 DEF Unassign, RemoveGate
  <2>5. CASE StartRally \/ ReopenRally \/ \E c \in Cars : Enter(c) \/ Withdraw(c)
        BY <2>5 DEF StartRally, ReopenRally, Enter, Withdraw
  <2>6. CASE \E c \in Cars, a \in live : Drive(c, a)
        BY <2>6 DEF Drive, Standings, Assignment
  <2>7. CASE \E c \in Cars, s \in Stages : Record(s, c)
        BY <2>7 DEF Record, Standings
  <2> QED BY <2>1, <2>2, <2>3, <2>4, <2>5, <2>6, <2>7 DEF Planning, Driving
<1> QED BY <1>1, <1>2, <1>3 DEF DayInv, LifecycleTypeOK, GateTimesOneStage, LiveOn, Alone

LEMMA DayNext == ~Interleaved /\ DayInv /\ [LifecycleNext]_all => DayInv'
<1> SUFFICES ASSUME ~Interleaved, DayInv, [LifecycleNext]_all PROVE DayInv'
    OBVIOUS
<1>1. CASE Planning \/ Driving
      BY <1>1, PlanningKeeps
<1>2. CASE \E m \in Marshals : Step(m)
      BY <1>2, ConflictsKeeps, SwitchKeeps, SaveKeeps, EndingKeeps, CountKeeps,
         CloseBeginKeeps, CloseWriteKeeps DEF Step
<1>3. CASE \E m \in Marshals : Asking(m)
      BY <1>3, AskKeeps
<1>4. CASE Crash
  <2>1. /\ UNCHANGED world /\ crashes' \in 0 .. MaxCrashes
        /\ work' \in [Marshals -> {Idle}] /\ \A m \in Marshals : work'[m] = Idle
        BY <1>4, LifecycleAssumption DEF Crash, DayInv, LifecycleTypeOK
  <2> QED BY <2>1 DEF DayInv, LifecycleTypeOK, GateTimesOneStage, LiveOn, Alone, world
<1>5. CASE UNCHANGED all
      BY <1>5 DEF all, world, DayInv, LifecycleTypeOK, GateTimesOneStage, LiveOn, Alone,
         Sound, Conflicting, Of
<1> QED BY <1>1, <1>2, <1>3, <1>4, <1>5 DEF LifecycleNext

-----------------------------------------------------------------------------
(* What a request has read is still what is stored *)

\* An activation and a closing save the start list they read; a list is
\* cleared on the status found when that was asked for; the rally closes its
\* stages on the strength of one count.
ReadSound(w) ==
  /\ w.op = "activate" => w.seen = order[w.stage]
  /\ w.step = "write" => w.read = order[w.closing]
  /\ w.step = "thaw" => w.stage \in Stages /\ status[w.stage] = "NOT_STARTED"
  /\ w.op = "closeRally" /\ w.step \in {"close", "write"} =>
       \A s \in w.todo, c \in Cars : standing[s][c] # "started"

ReadInv == \A m \in Marshals : work[m] # Idle => ReadSound(work[m])

LEMMA ReadContinues ==
  ASSUME DayInv, NEW m \in Marshals, NEW v, work' = [work EXCEPT ![m] = v],
         \A n \in Marshals : n # m => work[n] = Idle,
         v # Idle => ReadSound(v)'
  PROVE  ReadInv'
<1>1. \A n \in Marshals : work'[n] = IF n = m THEN v ELSE Idle
      BY DEF DayInv, LifecycleTypeOK
<1> SUFFICES ASSUME NEW n \in Marshals, work'[n] # Idle
             PROVE  ReadSound(work[n])'
    BY DEF ReadInv
<1>2. work'[n] = v /\ ReadSound(v)'
      BY <1>1
<1> QED BY <1>2 DEF ReadSound

\* Nothing that was read changes under the steps that only read or switch.
LEMMA ReadingKeepsReads ==
  ASSUME DayInv, ReadInv, NEW m \in Marshals,
         Conflicts(m) \/ Switch(m) \/ Count(m) \/ CloseBegin(m)
  PROVE  ReadInv'
<1>1. UNCHANGED <<status, order, standing>>
      BY DEF Conflicts, Switch, Count, CloseBegin, world
<1>2. \E s : At(m, s)
      BY DEF Conflicts, Switch, Count, CloseBegin
<1> PICK w \in Request : w = work[m]
    BY <1>2, AtStep
<1>3. ReadSound(w) /\ Sound(w) /\ \A n \in Marshals : n # m => work[n] = Idle
      BY <1>2, AtStep DEF ReadInv, At
<1>4. CASE Return(m)
      BY <1>3, <1>4, ReadContinues DEF Return
<1>5. ASSUME NEW next \in {"switch", "save", "close", "end"}, NEW todo \in SUBSET Stages,
             work' = [work EXCEPT ![m] = [w EXCEPT !.step = next, !.todo = todo]],
             w.op = "closeRally" /\ next = "close" =>
               \A s \in todo, c \in Cars : standing[s][c] # "started"
      PROVE  ReadInv'
  <2> DEFINE v == [w EXCEPT !.step = next, !.todo = todo]
  <2>1. work' = [work EXCEPT ![m] = v]
        BY <1>5
  <2>2. /\ v.op = w.op /\ v.stage = w.stage /\ v.seen = w.seen /\ v.step = next
        /\ v.todo = todo
        BY DEF Request
  <2> HIDE DEF v
  <2>3. ReadSound(v)'
        BY <1>1, <1>3, <1>5, <2>2 DEF ReadSound
  <2> QED BY <1>3, <2>1, <2>3, ReadContinues
<1>6. CASE Conflicts(m)
  <2>1. CASE ~Return(m)
    <3> PICK found \in SUBSET Stages : found = Conflicting(w.stage)
        BY ConflictsAreOthers DEF DayInv
    <3>1. work' = [work EXCEPT ![m] = [w EXCEPT !.step = "switch", !.todo = found]]
          BY <1>6, <2>1 DEF Conflicts
    <3> QED BY <3>1, <1>5
  <2> QED BY <2>1, <1>4
<1>7. ASSUME Switch(m) \/ Count(m), ~Return(m)
      PROVE  ReadInv'
  <2> PICK next \in {"save", "close", "end"} :
          /\ work' = [work EXCEPT ![m].step = next]
          /\ w.op = "closeRally" /\ next = "close" => Count(m)
      BY <1>3, <1>7 DEF Switch, Count, Goto, At, Sound
  <2>1. work' = [work EXCEPT ![m] = [w EXCEPT !.step = next, !.todo = w.todo]]
    <3>1. [w EXCEPT !.step = next] = [w EXCEPT !.step = next, !.todo = w.todo]
          BY DEF Request
    <3>2. work' = [work EXCEPT ![m] = [w EXCEPT !.step = next]]
          OBVIOUS
    <3> QED BY <3>1, <3>2
  <2>2. Count(m) => \A s \in w.todo, c \in Cars : standing[s][c] # "started"
        BY <1>7 DEF Count
  <2>3. w.todo \in SUBSET Stages
        BY DEF Request
  <2> QED BY <2>1, <2>2, <2>3, <1>5
<1>8. CASE CloseBegin(m)
  <2> PICK s \in w.todo :
        work' = [work EXCEPT ![m].step = "write", ![m].closing = s, ![m].read = order[s]]
      BY <1>8 DEF CloseBegin
  <2> PICK list : list = order[s]
      OBVIOUS
  <2> DEFINE v == [w EXCEPT !.step = "write", !.closing = s, !.read = list]
  <2>1. work' = [work EXCEPT ![m] = v]
        OBVIOUS
  <2>2. /\ v.op = w.op /\ v.stage = w.stage /\ v.seen = w.seen /\ v.step = "write"
        /\ v.todo = w.todo /\ v.closing = s /\ v.read = list
        BY DEF Request
  <2> HIDE DEF v
  <2>3. w.step = "close"
        BY <1>8 DEF CloseBegin, At
  <2>4. ReadSound(v)'
        BY <1>1, <1>3, <2>2, <2>3 DEF ReadSound
  <2> QED BY <1>3, <2>1, <2>4, ReadContinues
<1> QED BY <1>4, <1>6, <1>7, <1>8

\* Saving a stage, active or closed, puts back the start list that is there.
LEMMA SavingKeepsReads ==
  ASSUME DayInv, ReadInv, NEW m \in Marshals, Save(m) \/ CloseWrite(m)
  PROVE  ReadInv' /\ order' = order
<1>1. \E s : At(m, s)
      BY DEF Save, CloseWrite
<1> PICK w \in Request : w = work[m]
    BY <1>1, AtStep
<1>2. ReadSound(w) /\ Sound(w) /\ \A n \in Marshals : n # m => work[n] = Idle
      BY <1>1, AtStep DEF ReadInv, At
<1>3. order \in [Stages -> Lists]
      BY DEF DayInv, LifecycleTypeOK
<1>4. CASE Save(m)
  <2>1. /\ w.step = "save" /\ w.op = "activate"
        /\ order' = [order EXCEPT ![w.stage] = w.seen]
        /\ work' = [work EXCEPT ![m].step = "freeze"]
        BY <1>2, <1>4 DEF Save, At, Goto, Sound
  <2>2. order' = order
        BY <1>2, <1>3, <2>1 DEF ReadSound
  <2> DEFINE v == [w EXCEPT !.step = "freeze"]
  <2>3. work' = [work EXCEPT ![m] = v]
        BY <2>1
  <2>4. v.op = w.op /\ v.stage = w.stage /\ v.seen = w.seen /\ v.step = "freeze"
        BY DEF Request
  <2> HIDE DEF v
  <2>5. ReadSound(v)'
        BY <1>2, <2>1, <2>2, <2>4 DEF ReadSound
  <2> QED BY <1>2, <2>2, <2>3, <2>5, ReadContinues
<1>5. CASE CloseWrite(m)
  <2> DEFINE s == w.closing
             rest == w.todo \ {s}
             next == IF rest = {} THEN AfterClosing(w.op) ELSE "close"
             v == [w EXCEPT !.todo = rest, !.closing = Nobody, !.step = next]
  <2>1. /\ w.step = "write" /\ order' = [order EXCEPT ![s] = w.read]
        /\ IF rest = {} /\ w.op = "close" THEN Return(m) ELSE work' = [work EXCEPT ![m] = v]
        BY <1>5 DEF CloseWrite, At
  <2>2. s \in Stages
        BY <1>2, <2>1 DEF Sound, Request
  <2>3. order' = order
        BY <1>2, <1>3, <2>1, <2>2 DEF ReadSound
  <2>4. CASE Return(m)
        BY <1>2, <2>3, <2>4, ReadContinues DEF Return
  <2>5. CASE ~Return(m)
    <3>1. w.op \in {"activate", "close", "closeRally"}
          BY <1>2, <2>1 DEF Sound, Request
    <3>2. next \notin {"write", "thaw"}
          BY <2>1, <2>5, <3>1 DEF AfterClosing
    <3>3. /\ v.op = w.op /\ v.stage = w.stage /\ v.seen = w.seen /\ v.step = next
          /\ v.todo = rest
          BY DEF Request
    <3>4. \A t \in Stages \ {s} : standing'[t] = standing[t]
          BY <1>5 DEF CloseWrite, DayInv, LifecycleTypeOK
    <3>5. rest \subseteq Stages \ {s} /\ rest \subseteq w.todo
          BY DEF Request
    <3> HIDE DEF v, next, rest
    <3>6. ReadSound(v)'
          BY <1>2, <2>1, <2>3, <3>2, <3>3, <3>4, <3>5 DEF ReadSound
    <3> QED BY <1>2, <2>1, <2>3, <2>5, <3>6, ReadContinues
  <2> QED BY <2>3, <2>4, <2>5
<1> QED BY <1>4, <1>5

LEMMA EndingKeepsReads ==
  ASSUME DayInv, NEW m \in Marshals, FreezeOnActivation(m) \/ Thaw(m) \/ EndRally(m)
  PROVE  ReadInv'
<1>1. Return(m) /\ \E s : At(m, s)
      BY DEF FreezeOnActivation, Thaw, EndRally
<1>2. \A n \in Marshals : n # m => work[n] = Idle
      BY <1>1, AtStep
<1> QED BY <1>1, <1>2, ReadContinues DEF Return

LEMMA AskKeepsReads ==
  ASSUME DayInv, ~Interleaved, NEW m \in Marshals, Asking(m)
  PROVE  ReadInv'
<1>1. Free /\ UNCHANGED world
      BY DEF Asking, AskCloseRally, AskClose, AskUnfreeze, AskActivate, Ask
<1>2. \A n \in Marshals : work[n] = Idle
      BY <1>1, AllIdle
<1>3. ASSUME NEW s \in Stages, NEW op \in {"activate", "close", "unfreeze"},
             NEW step \in {"conflicts", "close", "thaw"}, NEW force, NEW todo,
             Ask(m, op, step, s, force, todo),
             step = "thaw" => status[s] = "NOT_STARTED"
      PROVE  ReadInv'
  <2> PICK list : list = order[s]
      OBVIOUS
  <2> DEFINE v == [op |-> op, step |-> step, stage |-> s, force |-> force, seen |-> list,
                   todo |-> todo, closing |-> Nobody, read |-> NotFrozen]
  <2>1. work' = [work EXCEPT ![m] = v]
        BY <1>3, LifecycleAssumption DEF Ask
  <2>2. v.op = op /\ v.step = step /\ v.stage = s /\ v.seen = list
        OBVIOUS
  <2> HIDE DEF v
  <2>3. ReadSound(v)'
        BY <1>1, <1>3, <2>2 DEF ReadSound, world
  <2> QED BY <1>2, <2>1, <2>3, ReadContinues
<1>4. CASE AskCloseRally(m)
  <2> PICK running : Ask(m, "closeRally", "count", Nobody, FALSE, running)
      BY <1>4 DEF AskCloseRally
  <2> DEFINE v == [op |-> "closeRally", step |-> "count", stage |-> Nobody, force |-> FALSE,
                   seen |-> NotFrozen, todo |-> running, closing |-> Nobody, read |-> NotFrozen]
  <2>1. work' = [work EXCEPT ![m] = v]
        BY DEF Ask
  <2>2. ReadSound(v)'
        BY DEF ReadSound
  <2> HIDE DEF v
  <2> QED BY <1>2, <2>1, <2>2, ReadContinues
<1>5. CASE \E s \in Stages : AskClose(m, s)
      BY <1>3, <1>5 DEF AskClose
<1>6. CASE \E s \in Stages : AskUnfreeze(m, s)
      BY <1>3, <1>6 DEF AskUnfreeze
<1>7. CASE \E s \in Stages, force \in BOOLEAN : AskActivate(m, s, force)
      BY <1>3, <1>7 DEF AskActivate
<1> QED BY <1>4, <1>5, <1>6, <1>7 DEF Asking

LEMMA ReadInit == LifecycleInit => ReadInv
  BY DEF LifecycleInit, ReadInv

LEMMA ReadNext == ~Interleaved /\ DayInv /\ ReadInv /\ [LifecycleNext]_all => ReadInv'
<1> SUFFICES ASSUME ~Interleaved, DayInv, ReadInv, [LifecycleNext]_all PROVE ReadInv'
    OBVIOUS
<1>1. CASE Planning \/ Driving
  <2>1. Free /\ UNCHANGED work
        BY <1>1 DEF Planning, Driving, Create, Remove, Freeze, Assign, Unassign, RemoveGate,
           StartRally, ReopenRally, Enter, Withdraw, Drive, Record
  <2> QED BY <2>1, AllIdle DEF ReadInv
<1>2. CASE \E m \in Marshals : Step(m)
      BY <1>2, ReadingKeepsReads, SavingKeepsReads, EndingKeepsReads DEF Step
<1>3. CASE \E m \in Marshals : Asking(m)
      BY <1>3, AskKeepsReads
<1>4. CASE Crash
      BY <1>4 DEF Crash, ReadInv
<1>5. CASE UNCHANGED all
      BY <1>5 DEF all, world, ReadInv, ReadSound
<1> QED BY <1>1, <1>2, <1>3, <1>4, <1>5 DEF LifecycleNext

-----------------------------------------------------------------------------
\* Every record of the rally day keeps its type, crashes or not.
THEOREM LifecycleTyped ==
  ASSUME ~Interleaved
  PROVE  LifecycleSpec => []LifecycleTypeOK
<1>1. DayInv => LifecycleTypeOK
      BY DEF DayInv
<1> QED BY DayInit, DayNext, <1>1, PTL DEF LifecycleSpec

\* "Exactly one active assignment per gate", as far as stages go: however they
\* are activated over one another, and wherever a crash cuts an activation off.
THEOREM GateTimesOneStageHolds ==
  ASSUME ~Interleaved
  PROVE  LifecycleSpec => []GateTimesOneStage
<1>1. DayInv => GateTimesOneStage
      BY DEF DayInv
<1> QED BY DayInit, DayNext, <1>1, PTL DEF LifecycleSpec

\* "Closing is terminal": an activation under way never brings a stage back
\* that was closed since it was asked for, because none can be.
THEOREM ClosedIsFinalHolds ==
  ASSUME ~Interleaved
  PROVE  LifecycleSpec => ClosedIsFinal
<1>1. ASSUME DayInv, [LifecycleNext]_all
      PROVE  [\A s \in Stages : status[s] = "CLOSED" => status'[s] = "CLOSED"]_all
  <2> SUFFICES ASSUME LifecycleNext, NEW s \in Stages, status[s] = "CLOSED"
               PROVE  status'[s] = "CLOSED"
      BY <1>1
  <2>1. status \in [Stages -> {"absent", "NOT_STARTED", "ACTIVE", "CLOSED"}]
        BY <1>1 DEF DayInv, LifecycleTypeOK
  <2>2. CASE \E t \in Stages : Create(t) \/ Remove(t)
        BY <2>1, <2>2 DEF Create, Remove
  <2>3. CASE \E m \in Marshals : Save(m)
    <3> PICK m \in Marshals : Save(m)
        BY <2>3
    <3>1. At(m, "save") /\ status' = [status EXCEPT ![work[m].stage] = "ACTIVE"]
          BY DEF Save
    <3>2. work[m].op = "activate" /\ status[work[m].stage] # "CLOSED"
          BY <1>1, <3>1, AtStep DEF Sound
    <3> QED BY <2>1, <3>1, <3>2
  <2>4. CASE \E m \in Marshals : CloseWrite(m)
        BY <2>1, <2>4 DEF CloseWrite
  <2>5. CASE UNCHANGED status
        BY <2>5
  <2> QED BY <2>2, <2>3, <2>4, <2>5 DEF LifecycleNext, Planning, Driving, Step, Asking,
        Crash, world, Freeze, Assign, Unassign, RemoveGate, StartRally, ReopenRally, Enter,
        Withdraw, Drive, Record, Conflicts, Switch, FreezeOnActivation, Thaw, CloseBegin,
        Count, EndRally, AskCloseRally, AskClose, AskUnfreeze, AskActivate, Ask
<1> QED BY DayInit, DayNext, <1>1, PTL DEF LifecycleSpec, ClosedIsFinal

\* The list drivers were shown stays as it is until somebody takes it back
\* before the stage runs: every other save of a stage writes the same list.
THEOREM PostedListStaysHolds ==
  ASSUME ~Interleaved
  PROVE  LifecycleSpec => PostedListStays
<1> DEFINE Taken(s) == /\ order'[s] = NotFrozen /\ status[s] = "NOT_STARTED"
                       /\ \/ status'[s] = "absent"
                          \/ \E m \in Marshals : At(m, "thaw") /\ work[m].stage = s
           Kept == \A s \in Stages : (order[s] # NotFrozen /\ order'[s] # order[s]) => Taken(s)
<1>1. ASSUME DayInv, ReadInv, [LifecycleNext]_all
      PROVE  [Kept]_all
  <2> SUFFICES ASSUME LifecycleNext, NEW s \in Stages, order[s] # NotFrozen,
                      order'[s] # order[s]
               PROVE  Taken(s)
      BY <1>1
  <2>1. /\ order \in [Stages -> Lists]
        /\ status \in [Stages -> {"absent", "NOT_STARTED", "ACTIVE", "CLOSED"}]
        BY <1>1 DEF DayInv, LifecycleTypeOK
  <2>2. CASE \E t \in Stages : Remove(t)
        BY <2>1, <2>2 DEF Remove
  <2>3. CASE \E t \in Stages : Freeze(t)
        BY <2>1, <2>3 DEF Freeze
  <2>4. CASE \E m \in Marshals : Save(m) \/ CloseWrite(m)
        BY <1>1, <2>4, SavingKeepsReads
  <2>5. ASSUME NEW m \in Marshals, FreezeOnActivation(m)
        PROVE  FALSE
    <3>1. At(m, "freeze")
          BY <2>5 DEF FreezeOnActivation
    <3>2. work[m].op = "activate" /\ work[m].seen = order[work[m].stage]
          BY <1>1, <3>1, AtStep DEF Sound, ReadInv, ReadSound, At
    <3>3. s = work[m].stage /\ work[m].seen = NotFrozen
          BY <2>1, <2>5 DEF FreezeOnActivation
    <3> QED BY <3>2, <3>3
  <2>6. ASSUME NEW m \in Marshals, Thaw(m)
        PROVE  Taken(s)
    <3>1. At(m, "thaw") /\ order' = [order EXCEPT ![work[m].stage] = NotFrozen]
          BY <2>6 DEF Thaw
    <3>2. work[m].stage \in Stages /\ status[work[m].stage] = "NOT_STARTED"
          BY <1>1, <3>1 DEF ReadInv, ReadSound, At
    <3>3. s = work[m].stage /\ order'[s] = NotFrozen
          BY <2>1, <3>1
    <3> QED BY <3>1, <3>2, <3>3
  <2>7. CASE UNCHANGED order
        BY <2>7
  <2> QED BY <2>2, <2>3, <2>4, <2>5, <2>6, <2>7 DEF LifecycleNext, Planning, Driving, Step,
        Asking, Crash, world, Create, Assign, Unassign, RemoveGate, StartRally, ReopenRally,
        Enter, Withdraw, Drive, Record, Conflicts, Switch, CloseBegin, Count, EndRally,
        AskCloseRally, AskClose, AskUnfreeze, AskActivate, Ask
<1> QED BY DayInit, DayNext, ReadInit, ReadNext, <1>1, PTL DEF LifecycleSpec, PostedListStays

\* Nobody starts between the count that found no car out and the closing of
\* the last stage, so closing the rally turns no car on stage into a DNF.
THEOREM RallyCloseStrandsNobodyHolds ==
  ASSUME ~Interleaved
  PROVE  LifecycleSpec => RallyCloseStrandsNobody
<1> DEFINE Decided == \A s \in Stages, c \in Cars :
             (standing[s][c] = "started" /\ standing'[s][c] = "dnf") =>
               \E m \in Marshals : /\ At(m, "write") /\ work[m].closing = s
                                   /\ work[m].op # "closeRally"
<1>1. ASSUME DayInv, ReadInv, [LifecycleNext]_all
      PROVE  [Decided]_all
  <2> SUFFICES ASSUME LifecycleNext, NEW s \in Stages, NEW c \in Cars,
                      standing[s][c] = "started", standing'[s][c] = "dnf"
               PROVE  \E m \in Marshals : /\ At(m, "write") /\ work[m].closing = s
                                          /\ work[m].op # "closeRally"
      BY <1>1
  <2>1. standing \in [Stages -> [Cars -> Standings]]
        BY <1>1 DEF DayInv, LifecycleTypeOK
  <2>2. CASE \E d \in Cars, a \in live : Drive(d, a)
        BY <2>1, <2>2 DEF Drive
  <2>3. CASE \E d \in Cars, t \in Stages : Record(t, d)
        BY <2>1, <2>3 DEF Record
  <2>4. ASSUME NEW m \in Marshals, CloseWrite(m)
        PROVE  At(m, "write") /\ work[m].closing = s /\ work[m].op # "closeRally"
    <3>1. At(m, "write")
          BY <2>4 DEF CloseWrite
    <3>2. work[m].closing = s
          BY <2>1, <2>4 DEF CloseWrite
    <3>3. Sound(work[m]) /\ ReadSound(work[m])
          BY <1>1, <3>1, AtStep DEF ReadInv, At
    <3> QED BY <3>1, <3>2, <3>3 DEF Sound, ReadSound, At
  <2>5. CASE UNCHANGED standing
        BY <2>5
  <2> QED BY <2>2, <2>3, <2>4, <2>5 DEF LifecycleNext, Planning, Driving, Step,
        Asking, Crash, world, Create, Remove, Freeze, Assign, Unassign, RemoveGate, StartRally,
        ReopenRally, Enter, Withdraw, Conflicts, Switch, Save, FreezeOnActivation, Thaw,
        CloseBegin, Count, EndRally, AskCloseRally, AskClose, AskUnfreeze, AskActivate, Ask
<1> QED BY DayInit, DayNext, ReadInit, ReadNext, <1>1, PTL
    DEF LifecycleSpec, RallyCloseStrandsNobody
=============================================================================

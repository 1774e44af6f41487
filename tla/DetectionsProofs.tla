--------------------------- MODULE DetectionsProofs ---------------------------
(***************************************************************************)
(* For any passings, any number of deliveries handled at once, marshals    *)
(* and failures:                                                           *)
(*   - No passing is lost between the gate and the database, on either     *)
(*     driver.  The argument is HandlersInv: whoever is past the insert    *)
(*     works on a stored passing, and only such a handler lets the broker  *)
(*     acknowledge.  What the rules do to the run table plays no part.     *)
(*   - A redelivery undoes nothing that was settled: what a handler read   *)
(*     of a record is still so when it saves the whole of it (AsRead),     *)
(*     because the handler was alone meanwhile (Alone) or because only     *)
(*     passings of unknown cars are ever listed (OnlyUnknownCars).         *)
(*   - The pipeline refines TimeKeeping on the default driver: a passing   *)
(*     that was timed has left its evidence in the run table, the evidence *)
(*     lasts (RowsLast), and the rules find nothing to do where it is.     *)
(*   - No finish is given up there while it could still end a run: on a    *)
(*     stage of one run each, what cannot be finished stays so (GivenUp).  *)
(***************************************************************************)
EXTENDS Detections, StageRunsProofs

IngestWork == [step : Steps, passing : Passings, listed : BOOLEAN]
DeskWork == [step : DeskSteps, passing : Passings, entry : Entries, done : BOOLEAN]

HandlersInv ==
  \A h \in Handlers : work[h] # Idle =>
    /\ Subject(h) \in made
    /\ work[h].step \notin {"check", "insert"} => Subject(h) \in stored

PipeInv ==
  /\ made \subseteq Passings /\ outbox \subseteq made /\ stored \subseteq made
  /\ awaiting \subseteq stored /\ processed \subseteq stored /\ aged \subseteq stored
  /\ work \in [Handlers -> {Idle} \cup IngestWork \cup DeskWork]
  /\ batch \subseteq [passing : stored, listed : BOOLEAN]
  /\ failures \in 0 .. MaxFailures
  /\ timed \subseteq stored
  /\ HandlersInv
  /\ NoPassingLost

-----------------------------------------------------------------------------
LEMMA IdleOrAt ==
  ASSUME PipeInv, NEW h \in Handlers, NEW s \in Steps, At(h, s)
  PROVE  /\ work[h] \in IngestWork /\ work[h] # Idle
         /\ Subject(h) \in Passings /\ Subject(h) \in made
         /\ s \notin {"check", "insert"} => Subject(h) \in stored
  BY DEF PipeInv, HandlersInv, At, Idle, IngestWork, DeskWork, Steps, DeskSteps, Subject

LEMMA AtDesk ==
  ASSUME PipeInv, NEW h \in Handlers, NEW s \in DeskSteps, At(h, s)
  PROVE  /\ work[h] \in DeskWork /\ work[h] # Idle
         /\ Subject(h) \in Passings /\ Subject(h) \in made /\ Subject(h) \in stored
  BY DEF PipeInv, HandlersInv, At, Idle, IngestWork, DeskWork, Steps, DeskSteps, Subject

\* Starting, going on with and ending a request keep the handlers well typed.
LEMMA WorkKept ==
  ASSUME PipeInv, NEW h \in Handlers, NEW v \in {Idle} \cup IngestWork \cup DeskWork,
         work' = [work EXCEPT ![h] = v],
         stored \subseteq stored', made \subseteq made',
         v # Idle => /\ v.passing \in made'
                     /\ v.step \notin {"check", "insert"} => v.passing \in stored'
  PROVE  /\ work' \in [Handlers -> {Idle} \cup IngestWork \cup DeskWork]
         /\ HandlersInv'
  BY DEF PipeInv, HandlersInv, Subject

\* The same, step by step of one request.
LEMMA GoesOn ==
  ASSUME PipeInv, NEW h \in Handlers, NEW from \in Steps, NEW to \in Steps,
         At(h, from), Goto(h, to), stored' = stored, made' = made,
         to = "insert" \/ from \notin {"check", "insert"}
  PROVE  /\ work' \in [Handlers -> {Idle} \cup IngestWork \cup DeskWork]
         /\ HandlersInv'
<1> DEFINE v == [work[h] EXCEPT !.step = to]
<1>1. /\ work[h] \in IngestWork /\ Subject(h) \in made
      /\ from \notin {"check", "insert"} => Subject(h) \in stored
      BY IdleOrAt
<1>2. v \in IngestWork /\ v.passing = Subject(h) /\ v.step = to
      BY <1>1 DEF IngestWork, Subject
<1>3. work' = [work EXCEPT ![h] = v]
      BY DEF Goto
<1> HIDE DEF v
<1>4. /\ v.passing \in made'
      /\ v.step \notin {"check", "insert"} => v.passing \in stored'
      BY <1>1, <1>2
<1> QED BY <1>2, <1>3, <1>4, WorkKept
LEMMA Returns ==
  ASSUME PipeInv, NEW h \in Handlers, Return(h), stored \subseteq stored', made' = made
  PROVE  /\ work' \in [Handlers -> {Idle} \cup IngestWork \cup DeskWork]
         /\ HandlersInv'
  BY WorkKept DEF Return

\* An acknowledgement takes one stored passing off the gate's queue.
LEMMA Acknowledged ==
  ASSUME PipeInv, NEW h \in Handlers, Subject(h) \in stored, Acknowledge(h),
         stored \subseteq stored', made' = made
  PROVE  /\ outbox' \subseteq made' /\ failures' \in 0 .. MaxFailures
         /\ NoPassingLost'
<1>1. outbox' \subseteq outbox /\ outbox \subseteq outbox' \cup {Subject(h)}
      BY DEF Acknowledge
<1>2. failures' \in 0 .. MaxFailures
      BY DetectionsAssumption DEF Acknowledge, FailOnce, PipeInv
<1> QED BY <1>1, <1>2 DEF PipeInv, NoPassingLost

-----------------------------------------------------------------------------
LEMMA PipeInit == DetectionsInit => PipeInv
<1> SUFFICES ASSUME DetectionsInit PROVE PipeInv
    OBVIOUS
<1>1. work \in [Handlers -> {Idle}]
      BY DEF DetectionsInit
<1>2. failures \in 0 .. MaxFailures
      BY DetectionsAssumption DEF DetectionsInit
<1> QED BY <1>1, <1>2 DEF DetectionsInit, PipeInv, HandlersInv, NoPassingLost

\* The five steps of an ingest, a retry included.
LEMMA StepKeeps ==
  ASSUME PipeInv, NEW h \in Handlers, Step(h)
  PROVE  PipeInv'
<1>1. CASE Check(h)
  <2>1. CASE Subject(h) \in stored
    <3>1. Return(h) /\ Acknowledge(h) /\ UNCHANGED <<made, stored, awaiting, processed, aged, batch, timed>>
          BY <1>1, <2>1 DEF Check
    <3> QED BY <2>1, <3>1, Returns, Acknowledged DEF PipeInv
  <2>2. CASE Subject(h) \notin stored
    <3>1. /\ At(h, "check") /\ Goto(h, "insert")
          /\ UNCHANGED <<outbox, failures, made, stored, awaiting, processed, aged, batch, timed>>
          BY <1>1, <2>2 DEF Check
    <3>2. /\ work' \in [Handlers -> {Idle} \cup IngestWork \cup DeskWork]
          /\ HandlersInv'
          BY <3>1, GoesOn DEF Steps
    <3> QED BY <3>1, <3>2 DEF PipeInv, NoPassingLost
  <2> QED BY <2>1, <2>2
<1>2. CASE Insert(h)
  <2> DEFINE p == Subject(h)
             v == [step |-> "rules", passing |-> p, listed |-> MustWait(p)]
  <2>1. p \in Passings /\ p \in made
        BY <1>2, IdleOrAt DEF Insert, Steps
  <2>2. CASE p \in stored
    <3>1. Return(h) /\ Acknowledge(h) /\ UNCHANGED <<made, stored, awaiting, processed, aged, batch, timed>>
          BY <1>2, <2>2 DEF Insert
    <3> QED BY <2>2, <3>1, Returns, Acknowledged DEF PipeInv
  <2>3. CASE p \notin stored
    <3>1. /\ stored' = stored \cup {p} /\ work' = [work EXCEPT ![h] = v]
          /\ awaiting' \subseteq awaiting \cup {p}
          /\ UNCHANGED <<outbox, failures, made, processed, aged, batch, timed>>
          BY <1>2, <2>3 DEF Insert
    <3>2. v \in IngestWork /\ v.passing = p
          BY <2>1 DEF IngestWork, Steps, MustWait
    <3> HIDE DEF v, p
    <3>3. /\ work' \in [Handlers -> {Idle} \cup IngestWork \cup DeskWork]
          /\ HandlersInv'
          BY <2>1, <3>1, <3>2, WorkKept
    <3>4. batch' \subseteq [passing : stored', listed : BOOLEAN]
          BY <3>1 DEF PipeInv
    <3> QED BY <2>1, <3>1, <3>3, <3>4 DEF PipeInv, NoPassingLost
  <2> QED BY <2>2, <2>3
<1>3. CASE Rules(h)
  <2>1. /\ At(h, "rules") /\ (Goto(h, "mark") \/ Goto(h, "await"))
        /\ timed' \subseteq timed \cup {Subject(h)}
        /\ UNCHANGED <<made, outbox, stored, awaiting, processed, aged, batch, failures>>
        BY <1>3 DEF Rules
  <2>2. Subject(h) \in stored
        BY <2>1, IdleOrAt DEF Steps
  <2>3. /\ work' \in [Handlers -> {Idle} \cup IngestWork \cup DeskWork]
        /\ HandlersInv'
        BY <2>1, GoesOn DEF Steps
  <2> QED BY <2>1, <2>2, <2>3 DEF PipeInv, NoPassingLost
<1>4. CASE Await(h)
  <2>1. At(h, "await") /\ Subject(h) \in stored
        BY <1>4, IdleOrAt DEF Await, Steps
  <2>2. CASE Goto(h, "mark") /\ UNCHANGED <<outbox, failures>>
    <3>1. /\ work' \in [Handlers -> {Idle} \cup IngestWork \cup DeskWork]
          /\ HandlersInv'
          BY <1>4, <2>1, <2>2, GoesOn DEF Steps, Await
    <3> QED BY <1>4, <2>2, <3>1 DEF PipeInv, NoPassingLost, Await
  <2>3. CASE Return(h) /\ Acknowledge(h)
        BY <1>4, <2>1, <2>3, Returns, Acknowledged DEF PipeInv, Await
  <2> QED BY <1>4, <2>2, <2>3 DEF Await
<1>5. CASE Mark(h)
  <2>1. Subject(h) \in stored
        BY <1>5, IdleOrAt DEF Mark, Steps
  <2>2. /\ processed' \subseteq processed \cup {Subject(h)}
        /\ awaiting' \subseteq awaiting \cup {Subject(h)}
        /\ Return(h) /\ Acknowledge(h) /\ UNCHANGED <<made, stored, aged, batch, timed>>
        BY <1>5 DEF Mark
  <2> QED BY <2>1, <2>2, Returns, Acknowledged DEF PipeInv
<1> QED BY <1>1, <1>2, <1>3, <1>4, <1>5 DEF Step

\* Only a handler past the insert has the broker acknowledge when it fails.
LEMMA FailKeeps ==
  ASSUME PipeInv, NEW h \in Handlers, Fail(h)
  PROVE  PipeInv'
<1>1. /\ work[h] # Idle /\ Return(h) /\ failures' \in 0 .. MaxFailures
      /\ UNCHANGED <<made, stored, awaiting, processed, aged, batch, timed>>
      BY DetectionsAssumption DEF Fail, FailOnce, PipeInv
<1>2. outbox' \subseteq outbox /\ outbox \subseteq outbox' \cup stored
      BY <1>1 DEF Fail, PipeInv, HandlersInv
<1> QED BY <1>1, <1>2, Returns DEF PipeInv, NoPassingLost

LEMMA DeliverKeeps ==
  ASSUME PipeInv, NEW w \in Workers, NEW p \in Passings, Deliver(w, p)
  PROVE  PipeInv'
<1> DEFINE v == [step |-> "check", passing |-> p, listed |-> FALSE]
<1>1. /\ p \in made /\ w \in Handlers /\ work' = [work EXCEPT ![w] = v]
      /\ UNCHANGED <<made, outbox, stored, awaiting, processed, aged, batch, failures, timed>>
      BY DEF Deliver, PipeInv, Handlers
<1>2. v \in IngestWork /\ v.passing = p /\ v.step = "check"
      BY DEF IngestWork, Steps
<1> HIDE DEF v
<1>3. /\ work' \in [Handlers -> {Idle} \cup IngestWork \cup DeskWork]
      /\ HandlersInv'
      BY <1>1, <1>2, WorkKept
<1> QED BY <1>1, <1>3 DEF PipeInv, NoPassingLost

LEMMA SweepNextKeeps ==
  ASSUME PipeInv, NEW r \in batch, SweepNext(r)
  PROVE  PipeInv'
<1> DEFINE v == [step |-> "rules", passing |-> r.passing, listed |-> r.listed]
<1>1. /\ r.passing \in stored /\ r.passing \in Passings /\ r.listed \in BOOLEAN
      BY DEF PipeInv
<1>2. /\ "sweep" \in Handlers /\ work' = [work EXCEPT !["sweep"] = v] /\ batch' \subseteq batch
      /\ UNCHANGED <<made, outbox, stored, awaiting, processed, aged, failures, timed>>
      BY DEF SweepNext, Retry, Handlers
<1>3. v \in IngestWork /\ v.passing = r.passing
      BY <1>1 DEF IngestWork, Steps
<1> HIDE DEF v
<1>4. /\ work' \in [Handlers -> {Idle} \cup IngestWork \cup DeskWork]
      /\ HandlersInv'
      BY <1>1, <1>2, <1>3, WorkKept DEF PipeInv
<1> QED BY <1>2, <1>4 DEF PipeInv, NoPassingLost

\* Making a passing, the sweep's list, ageing, restarts and crashes.
LEMMA RestKeeps ==
  ASSUME PipeInv,
         \/ RestartGate \/ Crash \/ SweepStart
         \/ \E p \in Passings : Pass(p) \/ Age(p)
  PROVE  PipeInv'
<1>1. CASE RestartGate
      BY <1>1 DEF RestartGate, PipeInv, HandlersInv, NoPassingLost, Subject
<1>2. CASE Crash
  <2>1. /\ work' \in [Handlers -> {Idle}] /\ batch' = {} /\ failures' \in 0 .. MaxFailures
        /\ \A h \in Handlers : work'[h] = Idle
        /\ UNCHANGED <<made, outbox, stored, awaiting, processed, aged, timed>>
        BY <1>2, DetectionsAssumption DEF Crash, FailOnce, PipeInv
  <2> QED BY <2>1 DEF PipeInv, HandlersInv, NoPassingLost
<1>3. CASE SweepStart
  <2>1. /\ batch' = {Record(p) : p \in stored \ processed}
        /\ UNCHANGED <<made, outbox, stored, awaiting, processed, aged, work, failures, timed>>
        BY <1>3 DEF SweepStart
  <2>2. ASSUME NEW r \in batch'
        PROVE  r \in [passing : stored, listed : BOOLEAN]
    <3> PICK p \in stored : r = Record(p)
        BY <2>1
    <3>1. r = [passing |-> p, listed |-> p \in awaiting]
        BY DEF Record
    <3>2. (p \in awaiting) \in BOOLEAN
        OBVIOUS
    <3> QED BY <3>1, <3>2
  <2> QED BY <2>1, <2>2 DEF PipeInv, HandlersInv, NoPassingLost, Subject
<1>4. CASE \E p \in Passings : Pass(p)
      BY <1>4 DEF Pass, PipeInv, HandlersInv, NoPassingLost, Subject
<1>5. CASE \E p \in Passings : Age(p)
      BY <1>5 DEF Age, PipeInv, HandlersInv, NoPassingLost, Subject
<1> QED BY <1>1, <1>2, <1>3, <1>4, <1>5

\* The marshals' requests: they start from the list, which is stored.
LEMMA DeskKeeps ==
  ASSUME PipeInv, (\E m \in Marshals : DeskStep(m)) \/ Desk \/ RedFlag
  PROVE  PipeInv'
<1>1. CASE Requests
  <2> PICK m \in Marshals, p \in Passings, e \in Entries, step \in {"assign", "dismiss"} :
        Ask(m, p, e, step)
      BY <1>1 DEF Requests
  <2> DEFINE v == [step |-> step, passing |-> p, entry |-> e, done |-> p \in processed]
  <2>1. /\ p \in stored /\ m \in Handlers /\ work' = [work EXCEPT ![m] = v]
        /\ UNCHANGED <<made, outbox, stored, awaiting, processed, aged, batch, failures, timed>>
        BY DEF Ask, PipeInv, Handlers
  <2>2. v \in DeskWork /\ v.passing = p
        BY DEF DeskWork, DeskSteps
  <2> HIDE DEF v
  <2>3. /\ work' \in [Handlers -> {Idle} \cup IngestWork \cup DeskWork]
        /\ HandlersInv'
        BY <2>1, <2>2, WorkKept DEF PipeInv
  <2> QED BY <2>1, <2>3 DEF PipeInv, NoPassingLost
<1>2. CASE \E m \in Marshals : AssignRules(m)
  <2> PICK m \in Marshals : AssignRules(m)
      BY <1>2
  <2>1. /\ m \in Handlers /\ At(m, "assign")
        /\ UNCHANGED <<made, outbox, stored, awaiting, processed, aged, batch, failures>>
        /\ \/ Goto(m, "save") /\ timed' \in {timed, timed \cup {Subject(m)}}
           \/ Return(m) /\ UNCHANGED timed
        BY DEF AssignRules, Handlers
  <2>2. work[m] \in DeskWork /\ Subject(m) \in stored /\ Subject(m) \in made
        BY <2>1, AtDesk DEF DeskSteps
  <2>3. CASE Return(m) /\ UNCHANGED timed
        BY <2>1, <2>3, Returns DEF PipeInv, NoPassingLost
  <2>4. CASE Goto(m, "save") /\ timed' \in {timed, timed \cup {Subject(m)}}
    <3> DEFINE v == [work[m] EXCEPT !.step = "save"]
    <3>1. v \in DeskWork /\ v.passing = Subject(m) /\ work' = [work EXCEPT ![m] = v]
          BY <2>2, <2>4 DEF DeskWork, DeskSteps, Subject, Goto
    <3> HIDE DEF v
    <3>2. /\ work' \in [Handlers -> {Idle} \cup IngestWork \cup DeskWork]
          /\ HandlersInv'
          BY <2>1, <2>2, <3>1, WorkKept
    <3> QED BY <2>1, <2>2, <2>4, <3>2 DEF PipeInv, NoPassingLost
  <2> QED BY <2>1, <2>3, <2>4
<1>3. CASE \E m \in Marshals : AssignSave(m) \/ Dismiss(m)
  <2> PICK m \in Marshals : AssignSave(m) \/ Dismiss(m)
      BY <1>3
  <2>1. m \in Handlers /\ Subject(m) \in stored
        BY AtDesk DEF AssignSave, Dismiss, DeskSteps, Handlers
  <2>2. /\ Return(m) /\ awaiting' \subseteq awaiting
        /\ processed' \subseteq processed \cup {Subject(m)}
        /\ UNCHANGED <<made, outbox, stored, aged, batch, failures, timed>>
        BY DEF AssignSave, Dismiss
  <2> QED BY <2>1, <2>2, Returns DEF PipeInv, NoPassingLost
<1>4. CASE ActivateStage \/ CloseStage \/ RedFlag
      BY <1>4 DEF ActivateStage, CloseStage, RedFlag, pipe, PipeInv, HandlersInv,
                  NoPassingLost, Subject
<1> QED BY <1>1, <1>2, <1>3, <1>4 DEF Desk, DeskStep

LEMMA PipeNext == PipeInv /\ [DetectionsNext]_all => PipeInv'
<1> SUFFICES ASSUME PipeInv, [DetectionsNext]_all PROVE PipeInv'
    OBVIOUS
<1>1. CASE UNCHANGED all
      BY <1>1 DEF all, pipe, PipeInv, HandlersInv, NoPassingLost, Subject
<1>2. CASE Pipeline
      BY <1>2, StepKeeps, FailKeeps, DeliverKeeps, SweepNextKeeps, RestKeeps DEF Pipeline
<1>3. CASE (\E m \in Marshals : DeskStep(m)) \/ Desk \/ RedFlag
      BY <1>3, DeskKeeps
<1> QED BY <1>1, <1>2, <1>3 DEF DetectionsNext

-----------------------------------------------------------------------------
\* The pipeline's records keep their types, whatever fails and interleaves.
THEOREM DetectionsTyped == DetectionsSpec => []DetectionsTypeOK
<1>1. PipeInv => DetectionsTypeOK
      BY DEF PipeInv, DetectionsTypeOK, IngestWork, DeskWork
<1> QED BY PipeInit, PipeNext, <1>1, PTL DEF DetectionsSpec

\* "The broker only acknowledges a detection once it is stored": whatever is
\* lost, resent or cut off, and in any interleaving of handlers.
THEOREM NoPassingLostHolds == DetectionsSpec => []NoPassingLost
<1>1. PipeInv => NoPassingLost
      BY DEF PipeInv
<1> QED BY PipeInit, PipeNext, <1>1, PTL DEF DetectionsSpec
-----------------------------------------------------------------------------
(* The pipeline implements AtLeastOnce: each step is one of its or none.    *)

LEMMA QuietSteps ==
  ASSUME UNCHANGED <<made, outbox, stored>>
  PROVE  UNCHANGED Gate!ledger
  BY DEF Gate!ledger

\* What leaves the queue while nothing is stored is released.
LEMMA ReleasingSteps ==
  ASSUME PipeInv, outbox' \subseteq outbox, outbox \subseteq outbox' \cup stored,
         UNCHANGED <<made, stored>>
  PROVE  [Gate!LedgerNext]_(Gate!ledger)
<1> DEFINE done == outbox \ outbox'
<1>1. done \in SUBSET Passings
      BY DEF PipeInv
<1>2. Gate!Release(done)
      BY DEF Gate!Release
<1> QED BY <1>1, <1>2 DEF Gate!LedgerNext

LEMMA AcknowledgingSteps ==
  ASSUME PipeInv, NEW h \in Handlers, Acknowledge(h), Subject(h) \in stored,
         UNCHANGED <<made, stored>>
  PROVE  [Gate!LedgerNext]_(Gate!ledger)
<1>1. outbox' \subseteq outbox /\ outbox \subseteq outbox' \cup stored
      BY DEF Acknowledge
<1> QED BY <1>1, ReleasingSteps

LEMMA IngestSteps ==
  ASSUME PipeInv, NEW h \in Handlers, Step(h)
  PROVE  [Gate!LedgerNext]_(Gate!ledger)
<1>1. CASE Check(h)
      BY <1>1, AcknowledgingSteps, QuietSteps DEF Check
<1>2. CASE Insert(h)
  <2>1. Subject(h) \in Passings /\ Subject(h) \in made
        BY <1>2, IdleOrAt DEF Insert, Steps
  <2>2. CASE Subject(h) \in stored
        BY <1>2, <2>2, AcknowledgingSteps DEF Insert
  <2>3. CASE Subject(h) \notin stored
    <3>1. stored' = stored \cup {Subject(h)} /\ UNCHANGED <<made, outbox>>
          BY <1>2, <2>3 DEF Insert
    <3>2. Gate!Receive(Subject(h))
          BY <2>1, <3>1 DEF Gate!Receive
    <3> QED BY <2>1, <3>2 DEF Gate!LedgerNext
  <2> QED BY <2>2, <2>3
<1>3. CASE Rules(h)
      BY <1>3, QuietSteps DEF Rules
<1>4. CASE Await(h)
  <2>1. Subject(h) \in stored
        BY <1>4, IdleOrAt DEF Await, Steps
  <2> QED BY <1>4, <2>1, AcknowledgingSteps, QuietSteps DEF Await
<1>5. CASE Mark(h)
  <2>1. Subject(h) \in stored
        BY <1>5, IdleOrAt DEF Mark, Steps
  <2> QED BY <1>5, <2>1, AcknowledgingSteps DEF Mark
<1> QED BY <1>1, <1>2, <1>3, <1>4, <1>5 DEF Step

LEMMA LedgerSteps ==
  PipeInv /\ [DetectionsNext]_all => [Gate!LedgerNext]_(Gate!ledger)
<1> SUFFICES ASSUME PipeInv, [DetectionsNext]_all
             PROVE  [Gate!LedgerNext]_(Gate!ledger)
    OBVIOUS
<1>1. CASE \E p \in Passings : Pass(p)
  <2> PICK p \in Passings : Pass(p)
      BY <1>1
  <2>1. Gate!Promise(p)
        BY DEF Pass, Gate!Promise, PipeInv
  <2> QED BY <2>1 DEF Gate!LedgerNext
<1>2. CASE RestartGate
  <2>1. outbox \in SUBSET Passings
        BY DEF PipeInv
  <2>2. Gate!Lose(outbox)
        BY <1>2 DEF RestartGate, Gate!Lose, PipeInv
  <2> QED BY <2>1, <2>2 DEF Gate!LedgerNext
<1>3. CASE \E h \in Handlers : Step(h)
      BY <1>3, IngestSteps
<1>4. CASE \E h \in Handlers : Fail(h)
  <2> PICK h \in Handlers : Fail(h)
      BY <1>4
  <2>1. /\ outbox' \subseteq outbox /\ outbox \subseteq outbox' \cup stored
        /\ UNCHANGED <<made, stored>>
        BY DEF Fail, PipeInv, HandlersInv
  <2> QED BY <2>1, ReleasingSteps
<1>5. CASE \/ Crash \/ SweepStart \/ \E r \in batch : SweepNext(r)
           \/ \E p \in Passings : Age(p)
           \/ \E p \in Passings, w \in Workers : Deliver(w, p)
      BY <1>5, QuietSteps DEF Crash, SweepStart, SweepNext, Age, Deliver
<1>6. CASE (\E m \in Marshals : DeskStep(m)) \/ Desk \/ RedFlag \/ UNCHANGED all
      BY <1>6, QuietSteps DEF DeskStep, AssignRules, AssignSave, Dismiss, Desk, Requests,
         Ask, ActivateStage, CloseStage, RedFlag, pipe, all
<1> QED BY <1>1, <1>2, <1>3, <1>4, <1>5, <1>6 DEF DetectionsNext, Pipeline

\* The queue of the gate, the broker and the ingest implement AtLeastOnce, with
\* either database: what a gate announces it keeps until it is stored, unless
\* it restarts.
THEOREM DeliversAtLeastOnceHolds == DetectionsSpec => DeliversAtLeastOnce
<1>1. DetectionsInit => Gate!LedgerInit
      BY DEF DetectionsInit, Gate!LedgerInit
<1> QED BY PipeInit, PipeNext, <1>1, LedgerSteps, PTL DEF DetectionsSpec, DeliversAtLeastOnce, Gate!LedgerSpec

-----------------------------------------------------------------------------
(* What a step does to the handlers *)

\* Past the duplicate check and not yet done.
Busy(h) == work[h] # Idle /\ ~At(h, "check")

\* Past the insert: the handler holds a record as it read or wrote it.
Holds(h) == work[h].step \in {"rules", "await", "mark"}
AtDeskStep(h) == work[h].step \in DeskSteps

LEMMA HolderTyped ==
  ASSUME PipeInv, NEW h \in Handlers
  PROVE  /\ Holds(h) => work[h] \in IngestWork /\ Busy(h)
         /\ AtDeskStep(h) => work[h] \in DeskWork /\ Busy(h) 
         /\ Busy(h) <=> At(h, "insert") \/ Holds(h) \/ AtDeskStep(h)
         /\ ~(Holds(h) /\ AtDeskStep(h))
  BY DEF Holds, AtDeskStep, Busy, At, PipeInv, Idle, IngestWork, DeskWork, Steps, DeskSteps

LEMMA GotoAt ==
  ASSUME PipeInv, NEW h \in Handlers, work[h] # Idle, NEW to, Goto(h, to)
  PROVE  /\ work'[h].step = to /\ work'[h].passing = work[h].passing
         /\ work[h] \in IngestWork => work'[h].listed = work[h].listed
         /\ \A o \in Handlers \ {h} : work'[o] = work[o]
<1>1. work[h] \in IngestWork \/ work[h] \in DeskWork
      BY DEF PipeInv
<1>2. /\ work'[h] = [work[h] EXCEPT !.step = to]
      /\ \A o \in Handlers \ {h} : work'[o] = work[o]
      BY DEF PipeInv, Goto
<1>3. CASE work[h] \in IngestWork
      BY <1>2, <1>3 DEF IngestWork
<1>4. CASE work[h] \in DeskWork
      BY <1>2, <1>4 DEF DeskWork, IngestWork
<1> QED BY <1>1, <1>3, <1>4

LEMMA ReturnAt ==
  ASSUME PipeInv, NEW h \in Handlers, Return(h)
  PROVE  work'[h] = Idle /\ \A o \in Handlers \ {h} : work'[o] = work[o]
  BY DEF PipeInv, Return

\* Only its own step, its failure or a crash moves a handler.
LEMMA OthersRest ==
  ASSUME PipeInv, NEW h \in Handlers,
         Step(h) \/ AssignRules(h) \/ AssignSave(h) \/ Dismiss(h)
  PROVE  batch' = batch /\ \A o \in Handlers \ {h} : work'[o] = work[o]
<1>1. CASE Check(h) \/ Await(h)
  <2>1. (\E to : Goto(h, to)) \/ Return(h)
        BY <1>1 DEF Check, Await
  <2> QED BY <1>1, <2>1 DEF Check, Await, Goto, Return, PipeInv
<1>2. CASE Insert(h)
      BY <1>2 DEF Insert, Return, PipeInv
<1>3. CASE Rules(h) \/ AssignRules(h)
      BY <1>3 DEF Rules, AssignRules, Goto, Return, PipeInv
<1>4. CASE Mark(h) \/ AssignSave(h) \/ Dismiss(h)
      BY <1>4 DEF Mark, AssignSave, Dismiss, Return, PipeInv
<1> QED BY <1>1, <1>2, <1>3, <1>4 DEF Step

-----------------------------------------------------------------------------
(* Who is on the list of passings that wait for a marshal *)

\* Only passings no car is known for: on the list, and in every copy a handler
\* or the sweep has of the record.
OnlyUnknownCars ==
  /\ \A p \in awaiting : p.entry = NoCar
  /\ \A r \in batch : r.listed => r.passing.entry = NoCar
  /\ \A h \in Handlers :
       (Holds(h) /\ work[h].listed) \/ AtDeskStep(h) => Subject(h).entry = NoCar

\* A handler that moved on, or took up a passing, with the others as they were.
LEMMA UnknownMoves ==
  ASSUME OnlyUnknownCars, batch' \subseteq batch, NEW h \in Handlers,
         \A o \in Handlers \ {h} : work'[o] = work[o],
         (work'[h].step \in {"rules", "await", "mark"} /\ work'[h].listed)
           \/ work'[h].step \in DeskSteps => work'[h].passing.entry = NoCar,
         \A p \in awaiting' \ awaiting : p.entry = NoCar
  PROVE  OnlyUnknownCars'
  BY DEF OnlyUnknownCars, Holds, AtDeskStep, Subject

LEMMA UnknownRests ==
  ASSUME OnlyUnknownCars, batch' \subseteq batch, work' = work, awaiting' \subseteq awaiting
  PROVE  OnlyUnknownCars'
  BY DEF OnlyUnknownCars, Holds, AtDeskStep, Subject

LEMMA UnknownStep ==
  ASSUME PipeInv, OnlyUnknownCars, NEW h \in Handlers, Step(h)
  PROVE  OnlyUnknownCars'
<1>0. batch' = batch /\ \A o \in Handlers \ {h} : work'[o] = work[o]
      BY OthersRest
<1>1. CASE Return(h) /\ awaiting' = awaiting
  <2>1. work'[h].step = "idle"
        BY <1>1, ReturnAt DEF Idle
  <2> QED BY <1>0, <1>1, <2>1, UnknownMoves DEF DeskSteps
<1>2. CASE Check(h) /\ Goto(h, "insert")
  <2>1. work'[h].step = "insert" /\ awaiting' = awaiting
        BY <1>2, GotoAt DEF Check, At, Idle
  <2> QED BY <1>0, <2>1, UnknownMoves DEF DeskSteps
<1>3. CASE Insert(h) /\ Subject(h) \notin stored
  <2> DEFINE p == Subject(h)
  <2>1. /\ work'[h] = [step |-> "rules", passing |-> p, listed |-> MustWait(p)]
        /\ awaiting' = IF MustWait(p) THEN awaiting \cup {p} ELSE awaiting
        BY <1>3 DEF Insert, PipeInv
  <2> HIDE DEF p
  <2>2. MustWait(p) => p.entry = NoCar
        BY DEF MustWait
  <2>3. /\ work'[h].step = "rules" /\ work'[h].passing = p
        /\ work'[h].listed => MustWait(p)
        BY <2>1
  <2>4. \A q \in awaiting' \ awaiting : q.entry = NoCar
        BY <2>1, <2>2
  <2> QED BY <1>0, <2>2, <2>3, <2>4, UnknownMoves DEF DeskSteps
<1>4. CASE (Rules(h) \/ Await(h)) /\ \E to \in {"await", "mark"} : Goto(h, to)
  <2>1. PICK to \in {"await", "mark"} : Goto(h, to)
        BY <1>4
  <2>2. Holds(h) /\ work[h] # Idle
        BY <1>4 DEF Rules, Await, At, Holds, Idle
  <2>3. /\ work'[h].step = to /\ work'[h].passing = Subject(h)
        /\ work'[h].listed = work[h].listed
        BY <2>1, <2>2, GotoAt, HolderTyped DEF Subject
  <2>4. awaiting' = awaiting
        BY <1>4 DEF Rules, Await
  <2> QED BY <1>0, <2>2, <2>3, <2>4, UnknownMoves DEF DeskSteps, OnlyUnknownCars
<1>5. CASE Mark(h)
  <2>1. work'[h].step = "idle"
        BY <1>5, ReturnAt DEF Mark, Idle
  <2>2. \A p \in awaiting' \ awaiting : p.entry = NoCar
        BY <1>5 DEF Mark, OnlyUnknownCars, Holds, At
  <2> QED BY <1>0, <2>1, <2>2, UnknownMoves DEF DeskSteps
<1>6. Insert(h) /\ Subject(h) \in stored => Return(h) /\ awaiting' = awaiting
      BY DEF Insert
<1> QED BY <1>1, <1>2, <1>3, <1>4, <1>5, <1>6 DEF Step, Check, Rules, Await

LEMMA UnknownNext == PipeInv /\ OnlyUnknownCars /\ [DetectionsNext]_all => OnlyUnknownCars'
<1> SUFFICES ASSUME PipeInv, OnlyUnknownCars, [DetectionsNext]_all
             PROVE  OnlyUnknownCars'
    OBVIOUS
<1>1. CASE UNCHANGED all
      BY <1>1, UnknownRests DEF all, pipe
<1>2. CASE RestartGate \/ \E p \in Passings : Pass(p) \/ Age(p)
      BY <1>2, UnknownRests DEF RestartGate, Pass, Age
<1>3. CASE Crash
      BY <1>3 DEF Crash, OnlyUnknownCars, Holds, AtDeskStep, Idle, DeskSteps
<1>4. CASE SweepStart
  <2>1. /\ batch' = {Record(p) : p \in stored \ processed}
        /\ work' = work /\ awaiting' = awaiting
        BY <1>4 DEF SweepStart
  <2>2. ASSUME NEW r \in batch', r.listed
        PROVE  r.passing.entry = NoCar
    <3> PICK p \in stored : r = [passing |-> p, listed |-> p \in awaiting]
        BY <2>1 DEF Record
    <3> QED BY <2>2 DEF OnlyUnknownCars
  <2> QED BY <2>1, <2>2 DEF OnlyUnknownCars, Holds, AtDeskStep, Subject
<1>5. CASE \E r \in batch : SweepNext(r)
  <2> PICK r \in batch : SweepNext(r)
      BY <1>5
  <2>1. /\ "sweep" \in Handlers /\ batch' \subseteq batch /\ awaiting' = awaiting
        /\ work'["sweep"] = [step |-> "rules", passing |-> r.passing, listed |-> r.listed]
        /\ \A o \in Handlers \ {"sweep"} : work'[o] = work[o]
        BY DEF SweepNext, Retry, Handlers, PipeInv
  <2>2. r.listed => r.passing.entry = NoCar
        BY DEF OnlyUnknownCars
  <2> QED BY <2>1, <2>2, UnknownMoves DEF DeskSteps
<1>6. CASE \E p \in Passings, w \in Workers : Deliver(w, p)
  <2> PICK p \in Passings, w \in Workers : Deliver(w, p)
      BY <1>6
  <2>1. /\ w \in Handlers /\ batch' = batch /\ awaiting' = awaiting
        /\ work'[w].step = "check"
        /\ \A o \in Handlers \ {w} : work'[o] = work[o]
        BY DEF Deliver, Handlers, PipeInv
  <2> QED BY <2>1, UnknownMoves DEF DeskSteps
<1>7. CASE \E h \in Handlers : Step(h)
      BY <1>7, UnknownStep
<1>8. ASSUME NEW h \in Handlers, Return(h), batch' = batch, awaiting' \subseteq awaiting
      PROVE  OnlyUnknownCars'
  <2>1. work'[h].step = "idle" /\ \A o \in Handlers \ {h} : work'[o] = work[o]
        BY <1>8, ReturnAt DEF Idle
  <2> QED BY <1>8, <2>1, UnknownMoves DEF DeskSteps
<1>9. CASE \E h \in Handlers : Fail(h)
      BY <1>8, <1>9 DEF Fail
<1>10. CASE \E m \in Marshals : AssignSave(m) \/ Dismiss(m)
      BY <1>8, <1>10 DEF AssignSave, Dismiss, Handlers
<1>11. CASE \E m \in Marshals : AssignRules(m)
  <2> PICK m \in Marshals : AssignRules(m)
      BY <1>11
  <2>1. m \in Handlers /\ AtDeskStep(m) /\ batch' = batch /\ awaiting' = awaiting
        BY DEF AssignRules, At, AtDeskStep, DeskSteps, Handlers
  <2>2. CASE Return(m)
        BY <1>8, <2>1, <2>2
  <2>3. CASE Goto(m, "save")
    <3>1. /\ work'[m].step = "save" /\ work'[m].passing = Subject(m)
          /\ \A o \in Handlers \ {m} : work'[o] = work[o]
          BY <2>1, <2>3, GotoAt DEF AtDeskStep, DeskSteps, Idle, Subject
    <3> QED BY <2>1, <3>1, UnknownMoves DEF OnlyUnknownCars
  <2> QED BY <2>2, <2>3 DEF AssignRules
<1>12. CASE Requests
  <2> PICK m \in Marshals, p \in Passings, e \in Entries, step \in {"assign", "dismiss"} :
        Ask(m, p, e, step)
      BY <1>12 DEF Requests
  <2>1. /\ m \in Handlers /\ batch' = batch /\ awaiting' = awaiting /\ p \in awaiting
        /\ work'[m] = [step |-> step, passing |-> p, entry |-> e, done |-> p \in processed]
        /\ \A o \in Handlers \ {m} : work'[o] = work[o]
        BY DEF Ask, Handlers, PipeInv
  <2>2. work'[m].passing.entry = NoCar
        BY <2>1 DEF OnlyUnknownCars
  <2>3. work'[m].step \in {"assign", "dismiss"}
        BY <2>1
  <2> QED BY <2>1, <2>2, <2>3, UnknownMoves
<1>13. CASE ActivateStage \/ CloseStage \/ RedFlag
      BY <1>13, UnknownRests DEF ActivateStage, CloseStage, RedFlag, pipe
<1> QED BY <1>1, <1>2, <1>3, <1>4, <1>5, <1>6, <1>7, <1>9, <1>10, <1>11, <1>12, <1>13
        DEF DetectionsNext, Pipeline, Desk, DeskStep

-----------------------------------------------------------------------------
(* One handler at a time: without interleaving, the awaits of a handler are *)
(* no place for another to step in.                                         *)

Alone ==
  /\ \A h, o \in Handlers : Busy(h) /\ Busy(o) => h = o
  /\ \A h \in Handlers : Busy(h) /\ batch # {} => h = "sweep"

LEMMA StillAlone ==
  ASSUME Alone, \A h \in Handlers : (Busy(h))' => Busy(h), batch' \subseteq batch
  PROVE  Alone'
  BY DEF Alone

LEMMA OneAlone ==
  ASSUME NEW h, \A o \in Handlers \ {h} : ~(Busy(o))', h = "sweep" \/ batch' = {}
  PROVE  Alone'
  BY DEF Alone

LEMMA RunsAlone ==
  ASSUME ~Interleaved, NEW h, Runs(h)
  PROVE  (\A o \in Handlers \ {h} : ~Busy(o)) /\ (h = "sweep" \/ batch = {})
  BY DEF Runs, Busy

LEMMA AloneNext ==
  ~Interleaved /\ PipeInv /\ Alone /\ [DetectionsNext]_all => Alone'
<1> SUFFICES ASSUME ~Interleaved, PipeInv, Alone, [DetectionsNext]_all
             PROVE  Alone'
    OBVIOUS
<1>1. CASE work' = work /\ batch' = batch
      BY <1>1, StillAlone DEF Busy, At
<1>2. CASE (\E h \in Handlers : Step(h)) \/ \E m \in Marshals : DeskStep(m)
  <2> PICK h \in Handlers : Runs(h) /\ (Step(h) \/ AssignRules(h) \/ AssignSave(h) \/ Dismiss(h))
      BY <1>2 DEF Step, DeskStep, Handlers
  <2>1. batch' = batch /\ \A o \in Handlers \ {h} : work'[o] = work[o]
        BY OthersRest
  <2>2. \A o \in Handlers \ {h} : ~(Busy(o))'
        BY <2>1, RunsAlone DEF Busy, At
  <2> QED BY <2>1, <2>2, RunsAlone, OneAlone
<1>3. CASE \E h \in Handlers : Fail(h)
  <2> PICK h \in Handlers : Fail(h)
      BY <1>3
  <2>1. /\ work'[h] = Idle /\ batch' = batch
        /\ \A o \in Handlers \ {h} : work'[o] = work[o]
        BY ReturnAt DEF Fail
  <2>2. \A o \in Handlers : (Busy(o))' => Busy(o)
        BY <2>1 DEF Busy, At
  <2> QED BY <2>1, <2>2, StillAlone
<1>4. CASE Crash
  <2>1. batch' = {} /\ \A h \in Handlers : ~(Busy(h))'
        BY <1>4 DEF Crash, Busy
  <2> QED BY <2>1, StillAlone
<1>5. CASE \E p \in Passings, w \in Workers : Deliver(w, p)
  <2> PICK p \in Passings, w \in Workers : Deliver(w, p)
      BY <1>5
  <2>1. /\ w \in Handlers /\ batch' = batch /\ work'[w].step = "check"
        /\ \A o \in Handlers \ {w} : work'[o] = work[o]
        BY DEF Deliver, Handlers, PipeInv
  <2>2. \A o \in Handlers : (Busy(o))' => Busy(o)
        BY <2>1 DEF Busy, At
  <2> QED BY <2>1, <2>2, StillAlone
<1>6. CASE Runs("sweep") /\ SweepStart
  <2>1. work' = work /\ \A o \in Handlers \ {"sweep"} : ~Busy(o)
        BY <1>6, RunsAlone DEF SweepStart
  <2>2. \A o \in Handlers \ {"sweep"} : ~(Busy(o))'
        BY <2>1 DEF Busy, At
  <2> QED BY <2>2, OneAlone
<1>7. CASE \E r \in batch : SweepNext(r)
  <2>1. /\ batch # {}
        /\ \A o \in Handlers \ {"sweep"} : work'[o] = work[o]
        BY <1>7 DEF SweepNext, Retry, PipeInv
  <2>2. \A o \in Handlers \ {"sweep"} : ~(Busy(o))'
        BY <2>1 DEF Alone, Busy, At
  <2> QED BY <2>2, OneAlone
<1>8. CASE Runs("desk") /\ Requests
  <2> PICK m \in Marshals, p \in Passings, e \in Entries, step \in {"assign", "dismiss"} :
        Ask(m, p, e, step)
      BY <1>8 DEF Requests
  <2>1. m \in Handlers /\ batch' = batch /\ \A o \in Handlers \ {m} : work'[o] = work[o]
        BY DEF Ask, Handlers, PipeInv
  <2>2. "desk" \notin Handlers /\ "desk" # "sweep"
        BY DetectionsAssumption DEF Handlers
  <2>3. batch = {} /\ \A o \in Handlers : ~Busy(o)
        BY <1>8, <2>2, RunsAlone
  <2>4. \A o \in Handlers \ {m} : ~(Busy(o))'
        BY <2>1, <2>3 DEF Busy, At
  <2> QED BY <2>1, <2>3, <2>4, OneAlone
<1>9. \/ ActivateStage \/ CloseStage \/ RedFlag \/ RestartGate \/ UNCHANGED all
      \/ \E p \in Passings : Pass(p) \/ Age(p)
      => work' = work /\ batch' = batch
      BY DEF ActivateStage, CloseStage, RedFlag, RestartGate, Pass, Age, all, pipe
<1> QED BY <1>1, <1>2, <1>3, <1>4, <1>5, <1>6, <1>7, <1>8, <1>9
        DEF DetectionsNext, Pipeline, Desk

-----------------------------------------------------------------------------
(* What a handler read is still so when it writes. *)

AsRead ==
  /\ \A h \in Handlers : Holds(h) /\ work[h].listed => Subject(h) \in awaiting
  /\ \A r \in batch : r.listed => r.passing \in awaiting
  /\ \A h \in Handlers : At(h, "dismiss") /\ ~work[h].done => Subject(h) \notin processed

\* Nothing was taken off the list and nothing was processed meanwhile.
LEMMA ReadStays ==
  ASSUME AsRead, batch' \subseteq batch, awaiting \subseteq awaiting',
         processed' = processed, NEW h \in Handlers,
         \A o \in Handlers \ {h} : work'[o] = work[o],
         work'[h].step \in {"rules", "await", "mark"} /\ work'[h].listed
           => work'[h].passing \in awaiting',
         work'[h].step = "dismiss" /\ ~work'[h].done
           => work'[h].passing \notin processed'
  PROVE  AsRead'
  BY DEF AsRead, Holds, At, Subject

\* The last write of a handler that was alone.
LEMMA LastWrite ==
  ASSUME PipeInv, Alone, NEW h \in Handlers, Busy(h), Return(h),
         batch' = batch, h = "sweep" \/ batch = {}, batch = {} \/ awaiting \subseteq awaiting',
         AsRead
  PROVE  AsRead'
<1>1. work'[h] = Idle /\ \A o \in Handlers \ {h} : work'[o] = work[o] /\ ~Busy(o)
      BY ReturnAt DEF Alone
<1>2. \A o \in Handlers : ~(Busy(o))'
      BY <1>1 DEF Busy, At
<1>3. \A o \in Handlers : ~(Holds(o))' /\ ~(At(o, "dismiss"))'
      BY <1>2 DEF Busy, Holds, At, Idle
<1> QED BY <1>3 DEF AsRead

LEMMA AsReadStep ==
  ASSUME ~Interleaved, PipeInv, Alone, AsRead, NEW h \in Handlers, Step(h)
  PROVE  AsRead'
<1>0. batch' = batch /\ \A o \in Handlers \ {h} : work'[o] = work[o]
      BY OthersRest
<1>1. CASE Return(h) /\ awaiting' = awaiting /\ processed' = processed
  <2>1. work'[h].step = "idle"
        BY <1>1, ReturnAt DEF Idle
  <2> QED BY <1>0, <1>1, <2>1, ReadStays
<1>2. CASE Check(h) /\ Goto(h, "insert")
  <2>1. work'[h].step = "insert" /\ awaiting' = awaiting /\ processed' = processed
        BY <1>2, GotoAt DEF Check, At, Idle
  <2> QED BY <1>0, <2>1, ReadStays
<1>3. CASE Insert(h) /\ Subject(h) \notin stored
  <2> DEFINE p == Subject(h)
  <2>1. /\ work'[h] = [step |-> "rules", passing |-> p, listed |-> MustWait(p)]
        /\ awaiting' = IF MustWait(p) THEN awaiting \cup {p} ELSE awaiting
        /\ processed' = processed
        BY <1>3 DEF Insert, PipeInv
  <2> HIDE DEF p
  <2>2. /\ work'[h].step = "rules" /\ work'[h].passing = p
        /\ work'[h].listed => MustWait(p)
        BY <2>1
  <2> QED BY <1>0, <2>1, <2>2, ReadStays
<1>4. CASE (Rules(h) \/ Await(h)) /\ \E to \in {"await", "mark"} : Goto(h, to)
  <2>1. PICK to \in {"await", "mark"} : Goto(h, to)
        BY <1>4
  <2>2. Holds(h) /\ work[h] # Idle
        BY <1>4 DEF Rules, Await, At, Holds, Idle
  <2>3. /\ work'[h].step = to /\ work'[h].passing = Subject(h)
        /\ work'[h].listed = work[h].listed
        BY <2>1, <2>2, GotoAt, HolderTyped DEF Subject
  <2>4. awaiting' = awaiting /\ processed' = processed
        BY <1>4 DEF Rules, Await
  <2> QED BY <1>0, <2>2, <2>3, <2>4, ReadStays DEF AsRead
<1>5. CASE Mark(h)
  <2>1. Busy(h) /\ Return(h) /\ awaiting \subseteq awaiting'
        BY <1>5 DEF Mark, Busy, At, Idle
  <2>2. h = "sweep" \/ batch = {}
        BY RunsAlone DEF Step
  <2> QED BY <1>0, <2>1, <2>2, LastWrite
<1>6. Insert(h) /\ Subject(h) \in stored
        => Return(h) /\ awaiting' = awaiting /\ processed' = processed
      BY DEF Insert
<1> QED BY <1>1, <1>2, <1>3, <1>4, <1>5, <1>6 DEF Step, Check, Rules, Await

LEMMA AsReadNext ==
  ~Interleaved /\ PipeInv /\ Alone /\ AsRead /\ [DetectionsNext]_all => AsRead'
<1> SUFFICES ASSUME ~Interleaved, PipeInv, Alone, AsRead, [DetectionsNext]_all
             PROVE  AsRead'
    OBVIOUS
<1>1. CASE UNCHANGED <<work, batch, awaiting, processed>>
      BY <1>1 DEF AsRead, Holds, At, Subject
<1>2. CASE \E h \in Handlers : Step(h)
      BY <1>2, AsReadStep
<1>3. CASE \E m \in Marshals : DeskStep(m)
  <2> PICK m \in Marshals : DeskStep(m)
      BY <1>3
  <2>1. m \in Handlers /\ m # "sweep" /\ batch' = batch
        BY DetectionsAssumption DEF Handlers, DeskStep, AssignRules, AssignSave, Dismiss
  <2>2. batch = {}
        BY <2>1, RunsAlone DEF DeskStep
  <2>3. CASE AssignSave(m) \/ Dismiss(m) \/ Return(m)
    <3>1. Busy(m) /\ Return(m)
          BY <2>3 DEF DeskStep, AssignRules, AssignSave, Dismiss, Busy, At, Idle
    <3> QED BY <2>1, <2>2, <3>1, LastWrite
  <2>4. CASE AssignRules(m) /\ Goto(m, "save")
    <3>1. /\ work'[m].step = "save" /\ awaiting' = awaiting /\ processed' = processed
          /\ \A o \in Handlers \ {m} : work'[o] = work[o]
          BY <2>1, <2>4, GotoAt DEF AssignRules, At, Idle
    <3> QED BY <2>1, <3>1, ReadStays
  <2> QED BY <2>3, <2>4 DEF DeskStep, AssignRules
<1>4. CASE \E h \in Handlers : Fail(h)
  <2> PICK h \in Handlers : Fail(h)
      BY <1>4
  <2>1. /\ work'[h].step = "idle" /\ batch' = batch /\ awaiting' = awaiting
        /\ processed' = processed /\ \A o \in Handlers \ {h} : work'[o] = work[o]
        BY ReturnAt DEF Fail, Idle
  <2> QED BY <2>1, ReadStays
<1>5. CASE Crash
      BY <1>5 DEF Crash, AsRead, Holds, At, Idle
<1>6. CASE \E p \in Passings, w \in Workers : Deliver(w, p)
  <2> PICK p \in Passings, w \in Workers : Deliver(w, p)
      BY <1>6
  <2>1. /\ w \in Handlers /\ batch' = batch /\ work'[w].step = "check"
        /\ awaiting' = awaiting /\ processed' = processed
        /\ \A o \in Handlers \ {w} : work'[o] = work[o]
        BY DEF Deliver, Handlers, PipeInv
  <2> QED BY <2>1, ReadStays
<1>7. CASE SweepStart
  <2>1. /\ batch' = {Record(p) : p \in stored \ processed}
        /\ UNCHANGED <<work, awaiting, processed>>
        BY <1>7 DEF SweepStart
  <2>2. ASSUME NEW r \in batch', r.listed
        PROVE  r.passing \in awaiting
    <3> PICK p \in stored : r = [passing |-> p, listed |-> p \in awaiting]
        BY <2>1 DEF Record
    <3> QED BY <2>2
  <2> QED BY <2>1, <2>2 DEF AsRead, Holds, At, Subject
<1>8. CASE \E r \in batch : SweepNext(r)
  <2> PICK r \in batch : SweepNext(r)
      BY <1>8
  <2>1. /\ "sweep" \in Handlers /\ batch' \subseteq batch
        /\ awaiting' = awaiting /\ processed' = processed
        /\ work'["sweep"] = [step |-> "rules", passing |-> r.passing, listed |-> r.listed]
        /\ \A o \in Handlers \ {"sweep"} : work'[o] = work[o]
        BY DEF SweepNext, Retry, Handlers, PipeInv
  <2> QED BY <2>1, ReadStays DEF AsRead
<1>9. CASE Runs("desk") /\ (Requests \/ CloseStage)
  <2>1. "desk" \notin Handlers /\ "desk" # "sweep"
        BY DetectionsAssumption DEF Handlers
  <2>2. batch = {} /\ \A o \in Handlers : ~Busy(o)
        BY <1>9, <2>1, RunsAlone
  <2>3. CASE CloseStage
    <3>1. \A o \in Handlers : ~Holds(o) /\ ~At(o, "dismiss")
          BY <2>2, HolderTyped DEF AtDeskStep, DeskSteps, At
    <3> QED BY <2>2, <2>3, <3>1 DEF CloseStage, AsRead, Holds, At
  <2>4. CASE Requests
    <3> PICK m \in Marshals, p \in Passings, e \in Entries, step \in {"assign", "dismiss"} :
          Ask(m, p, e, step)
        BY <2>4 DEF Requests
    <3>1. /\ m \in Handlers /\ batch' = batch /\ awaiting' = awaiting /\ processed' = processed
          /\ work'[m] = [step |-> step, passing |-> p, entry |-> e, done |-> p \in processed]
          /\ \A o \in Handlers \ {m} : work'[o] = work[o]
          BY DEF Ask, Handlers, PipeInv
    <3>2. work'[m].step \in {"assign", "dismiss"} /\ work'[m].passing = p
          BY <3>1
    <3>3. ~work'[m].done => p \notin processed
      <4> DEFINE known == p \in processed
      <4>1. work'[m] = [step |-> step, passing |-> p, entry |-> e, done |-> known]
            BY <3>1
      <4> HIDE DEF known
      <4>2. work'[m].done = known
            BY <4>1
      <4> QED BY <4>2 DEF known
    <3> QED BY <3>1, <3>2, <3>3, ReadStays
  <2> QED BY <1>9, <2>3, <2>4
<1>10. \/ ActivateStage \/ RedFlag \/ RestartGate \/ UNCHANGED all
       \/ \E p \in Passings : Pass(p) \/ Age(p)
       => UNCHANGED <<work, batch, awaiting, processed>>
      BY DEF ActivateStage, RedFlag, RestartGate, Pass, Age, all, pipe
<1> QED BY <1>1, <1>2, <1>3, <1>4, <1>5, <1>6, <1>7, <1>8, <1>9, <1>10
        DEF DetectionsNext, Pipeline, Desk

\* What a step does to the records, given that what was read is still so.
Settled == /\ processed \subseteq processed'
           /\ awaiting' \ awaiting \subseteq stored' \ stored

LEMMA RecordsSettle ==
  ASSUME PipeInv, AsRead, [DetectionsNext]_all
  PROVE  Settled
<1>1. CASE \E h \in Handlers : Step(h)
  <2> PICK h \in Handlers : Step(h)
      BY <1>1
  <2>1. CASE Mark(h)
        BY <2>1 DEF Mark, AsRead, Holds, At, Settled
  <2>2. CASE Insert(h)
        BY <2>2 DEF Insert, Settled
  <2> QED BY <2>1, <2>2 DEF Step, Check, Rules, Await, Settled
<1>2. CASE \E m \in Marshals : DeskStep(m)
      BY <1>2 DEF DeskStep, AssignRules, AssignSave, Dismiss, AsRead, At, Settled, Handlers
<1>3. CASE \/ ActivateStage \/ RedFlag \/ RestartGate \/ UNCHANGED all \/ Crash \/ SweepStart
           \/ \E p \in Passings : Pass(p) \/ Age(p) \/ \E w \in Workers : Deliver(w, p)
           \/ \E r \in batch : SweepNext(r)
           \/ \E h \in Handlers : Fail(h)
           \/ Requests \/ CloseStage
      BY <1>3 DEF ActivateStage, RedFlag, RestartGate, Pass, Age, all, pipe, Crash, SweepStart,
         Deliver, SweepNext, Fail, Requests, Ask, CloseStage, Settled
<1> QED BY <1>1, <1>2, <1>3 DEF DetectionsNext, Pipeline, Desk

\* Without passings to assign there is nothing to read and nothing to undo.
LEMMA KnownAsRead ==
  ASSUME PipeInv, OnlyUnknownCars, \A p \in Passings : p.entry # NoCar
  PROVE  AsRead
<1>1. \A r \in batch : r.passing \in Passings
      BY DEF PipeInv
<1>2. \A h \in Handlers : Holds(h) \/ At(h, "dismiss") => Subject(h) \in Passings
      BY HolderTyped DEF At, AtDeskStep, DeskSteps, IngestWork, DeskWork, Subject
<1> QED BY <1>1, <1>2 DEF OnlyUnknownCars, AsRead, At, AtDeskStep, DeskSteps

\* A second copy of a passing, redelivered or still in a handler, undoes
\* nothing: on SQLite whatever marshals assign and dismiss meanwhile, and on
\* PostgreSQL as long as every gate knows its cars.
THEOREM SettledStaysHolds ==
  ASSUME ~Interleaved \/ \A p \in Passings : p.entry # NoCar
  PROVE  DetectionsSpec => SettledStays
<1>1. DetectionsInit => OnlyUnknownCars /\ Alone /\ AsRead
      BY DEF DetectionsInit, OnlyUnknownCars, Holds, AtDeskStep, DeskSteps, Idle, Alone, Busy, AsRead, At
<1>2. CASE ~Interleaved
      BY <1>1, <1>2, PipeInit, PipeNext, AloneNext, AsReadNext, RecordsSettle, PTL
      DEF DetectionsSpec, SettledStays, Settled
<1>3. CASE \A p \in Passings : p.entry # NoCar
  <2>1. PipeInv /\ OnlyUnknownCars => AsRead
        BY <1>3, KnownAsRead
  <2> QED BY <1>1, <2>1, PipeInit, PipeNext, UnknownNext, RecordsSettle, PTL
          DEF DetectionsSpec, SettledStays, Settled
<1> QED BY <1>2, <1>3

-----------------------------------------------------------------------------
(* TimeKeeping's run table is this one. *)

LEMMA KeeperQueries ==
  /\ \A r : Keeper!Open(r) <=> Open(r)
  /\ \A e : Keeper!OpenRuns(e) = OpenRuns(e)
  /\ \A e, at : Keeper!MayStart(e, at) <=> MayStart(e, at)
  /\ \A e, at : Keeper!MayFinish(e, at) <=> MayFinish(e, at)
  /\ \A e, g, at : Keeper!SplitRuns(e, g, at) = SplitRuns(e, g, at)
  /\ \A e : Keeper!InEvent(e) <=> InEvent(e)
BY DEF Keeper!Open, Open, Keeper!OpenRuns, OpenRuns, Keeper!RunsOf, RunsOf, Keeper!MayStart,
   MayStart, Keeper!FinishedRuns, FinishedRuns, Keeper!DoneRuns, DoneRuns, Keeper!MayFinish,
   MayFinish, Keeper!SplitRuns, SplitRuns, Keeper!InEvent, InEvent, Keeper!NoTime, NoTime

LEMMA KeeperWrites ==
  /\ \A e, at : Keeper!StartRun(e, at) <=> StartRun(e, at)
  /\ \A e, at : Keeper!FinishRun(e, at) <=> FinishRun(e, at)
  /\ \A e, g, at : Keeper!PassSplit(e, g, at) <=> PassSplit(e, g, at)
<1>1. \A e, n, start, slot : Keeper!NewRun(e, n, start, slot) = NewRun(e, n, start, slot)
  BY DEF Keeper!NewRun, NewRun, Keeper!NoTime, NoTime
<1>2. \A e, n : Keeper!IsNextAttempt(e, n) <=> IsNextAttempt(e, n)
  BY DEF Keeper!IsNextAttempt, IsNextAttempt, Keeper!RunsOf, RunsOf
<1>3. Keeper!Attempts = Attempts /\ Keeper!NoTime = NoTime
  BY DEF Keeper!Attempts, Attempts, Keeper!NoTime, NoTime
<1>4. \A e, at : Keeper!StartRun(e, at) <=> StartRun(e, at)
  BY <1>1, <1>2, <1>3, KeeperQueries DEF Keeper!StartRun, StartRun
<1>5. \A s, f : Keeper!Duration(s, f) = Duration(s, f)
  BY DEF Keeper!Duration, Duration, Keeper!NoTime, NoTime
<1>6. \A e, at : Keeper!FinishRun(e, at) <=> FinishRun(e, at)
  BY <1>5, KeeperQueries DEF Keeper!FinishRun, FinishRun, Keeper!Replace, Replace
<1>7. \A e, g, at : Keeper!PassSplit(e, g, at) <=> PassSplit(e, g, at)
  BY KeeperQueries DEF Keeper!PassSplit, PassSplit, Keeper!Timed, Timed
<1>. QED  BY <1>4, <1>6, <1>7

\* What the rules may do for a passing.
LEMMA ApplyWrites ==
  ASSUME NEW p \in Passings, NEW e, Keeper!Apply(p, e)
  PROVE  /\ status = "ACTIVE" /\ UNCHANGED <<crew, status, firstStart>> /\ InEvent(e)
         /\ \/ p.gate \in {"start", "combined"} /\ StartRun(e, p.at)
            \/ p.gate \in {"finish", "combined"} /\ FinishRun(e, p.at)
            \/ p.gate \in SplitGates /\ PassSplit(e, p.gate, p.at)
<1>0. StartMode = "GATE"
  BY DetectionsAssumption DEF Keeper!PassingsAssumption
<1>1. CASE p.gate = "start" /\ Keeper!PassStart(e, p.at)
  BY <1>0, <1>1, KeeperWrites, KeeperQueries DEF Keeper!PassStart, Keeper!Timed
<1>2. CASE p.gate = "finish" /\ Keeper!PassFinish(e, p.at)
  BY <1>2, KeeperWrites, KeeperQueries DEF Keeper!PassFinish, Keeper!Timed
<1>3. CASE p.gate = "combined" /\ Keeper!PassStartFinish(e, p.at)
  BY <1>0, <1>3, KeeperWrites, KeeperQueries
  DEF Keeper!PassStartFinish, Keeper!StartOrFinishRun, Keeper!Timed
<1>4. CASE p.gate \in SplitGates /\ Keeper!PassSplit(e, p.gate, p.at)
  BY <1>4, KeeperWrites, KeeperQueries DEF Keeper!PassSplit, Keeper!Timed
<1>. QED  BY <1>1, <1>2, <1>3, <1>4 DEF Keeper!Apply

LEMMA ChangesNeeds ==
  ASSUME NEW p, NEW e, Keeper!Changes(p, e)
  PROVE  /\ status = "ACTIVE" /\ InEvent(e)
         /\ \/ p.gate \in {"start", "combined"} /\ MayStart(e, p.at)
            \/ p.gate \in {"finish", "combined"} /\ MayFinish(e, p.at)
            \/ p.gate \in SplitGates /\ SplitRuns(e, p.gate, p.at) # {}
BY KeeperQueries DEF Keeper!Changes

LEMMA KeeperMarshal ==
  /\ Keeper!Init <=> Init
  /\ Keeper!Activate <=> Activate
  /\ Keeper!Close <=> Close
<1>1. /\ \A e : Keeper!RunsOf(e) = RunsOf(e)
      /\ \A r : Keeper!Open(r) <=> Open(r)
      /\ \A e : Keeper!InEvent(e) <=> InEvent(e)
      /\ \A r : Keeper!HasSplit(r) <=> HasSplit(r)
      /\ \A r : Keeper!Untouched(r) <=> Untouched(r)
      /\ \A e, n, start, slot : Keeper!NewRun(e, n, start, slot) = NewRun(e, n, start, slot)
  BY DEF Keeper!RunsOf, RunsOf, Keeper!Open, Open, Keeper!InEvent, InEvent, Keeper!HasSplit,
     HasSplit, Keeper!Untouched, Untouched, Keeper!NewRun, NewRun, Keeper!NoTime, NoTime
<1>2. StartMode = "GATE"
  BY DetectionsAssumption DEF Keeper!PassingsAssumption
<1>3. Keeper!Init <=> Init
  BY DEF Keeper!Init, Init
<1>4. Keeper!Activate <=> Activate
  BY <1>1, <1>2 DEF Keeper!Activate, Activate, Keeper!Times, Times
<1>5. Keeper!Close <=> Close
  BY <1>1 DEF Keeper!Close, Close
<1>. QED  BY <1>3, <1>4, <1>5

-----------------------------------------------------------------------------
(* The run table of a stage that goes as it is meant to *)

\* Every car is in the event, no row is voided, a DNF is what closing made of a
\* run, and on a shakedown a car's open run began after its finished ones.
RunningTable ==
  /\ \A e \in Entries : InEvent(e)
  /\ \A r \in runs : ~r.voided /\ r.slot = NoTime /\ (r.dnf => status = "CLOSED")
  /\ status = "CLOSED" => \A r \in runs : ~Open(r)
  /\ Shakedown => \A r, o \in runs :
       (r.entry = o.entry /\ r.finish # NoTime /\ Open(o)) => o.start > r.finish

\* No row goes, nor any time but that of a finish still to come.
RowsLast ==
  /\ \A r \in runs : \E s \in runs' :
       /\ SameRun(r, s) /\ s.start = r.start /\ s.voided = r.voided
       /\ r.finish # NoTime => s.finish = r.finish
  /\ splits \subseteq splits'

LEMMA RowsRest == ASSUME runs' = runs, splits' = splits  PROVE RowsLast
BY DEF RowsLast, SameRun

LEMMA StartTable ==
  ASSUME TableInvariant, RunningTable, NEW e \in Entries, NEW at \in Times, StartRun(e, at),
         UNCHANGED <<crew, status, firstStart>>, status = "ACTIVE"
  PROVE  /\ RunningTable' /\ RowsLast
         /\ \E r \in runs' : r.entry = e /\ r.start = at
<1>1. PICK n \in Attempts : runs' = runs \cup {NewRun(e, n, at, NoTime)}
  BY DEF StartRun
<1> DEFINE new == NewRun(e, n, at, NoTime)
<1>2. /\ new.entry = e /\ new.start = at /\ ~new.voided /\ ~new.dnf
      /\ new.slot = NoTime /\ new.finish = NoTime
  BY DEF NewRun
<1>. HIDE DEF new
<1>3. runs' = runs \cup {new}
  BY <1>1 DEF new
<1>4. Shakedown => \A r \in runs : (r.entry = e /\ r.finish # NoTime) => at > r.finish
  BY DEF StartRun, MayStart, FinishedRuns, RunsOf, RunningTable
<1>5. RunningTable'
  <2>1. (\A f \in Entries : InEvent(f))'
    BY DEF RunningTable, InEvent
  <2>2. (\A r \in runs : ~r.voided /\ r.slot = NoTime /\ (r.dnf => status = "CLOSED"))'
    BY <1>2, <1>3 DEF RunningTable
  <2>3. (Shakedown => \A r, o \in runs :
         (r.entry = o.entry /\ r.finish # NoTime /\ Open(o)) => o.start > r.finish)'
    BY <1>2, <1>3, <1>4 DEF RunningTable
  <2>. QED  BY <2>1, <2>2, <2>3 DEF RunningTable
<1>6. RowsLast
  BY <1>3 DEF RowsLast, SameRun, StartRun
<1>. QED  BY <1>2, <1>3, <1>5, <1>6

LEMMA FinishTable ==
  ASSUME TableInvariant, RunningTable, NEW e \in Entries, NEW at \in Times, FinishRun(e, at),
         UNCHANGED <<crew, status, firstStart>>, status = "ACTIVE"
  PROVE  /\ RunningTable' /\ RowsLast
         /\ \E r \in runs' : r.entry = e /\ r.finish = at
<1>1. PICK r \in OpenRuns(e) :
        Replace(r, [r EXCEPT !.finish = at, !.duration = Duration(r.start, at)])
  BY DEF FinishRun
<1> DEFINE s == [r EXCEPT !.finish = at, !.duration = Duration(r.start, at)]
<1>2. r \in runs /\ r \in Run /\ r.entry = e /\ Open(r)
  BY <1>1 DEF OpenRuns, RunsOf, TableInvariant, TypeOK
<1>3. /\ s.entry = e /\ s.attempt = r.attempt /\ s.start = r.start /\ s.voided = r.voided
      /\ s.dnf = r.dnf /\ s.slot = r.slot /\ s.finish = at /\ at # NoTime
  BY <1>2 DEF Run, Times, NoTime
<1>. HIDE DEF s
<1>4. runs' = (runs \ {r}) \cup {s}
  BY <1>1 DEF Replace, s
<1>5. \A o \in runs \ {r} : o.entry = e => ~Open(o)
  BY <1>2 DEF TableInvariant, GoodTable, IndexesHold, RunningTable
<1>6. RunningTable'
  <2>1. (\A f \in Entries : InEvent(f))'
    BY DEF RunningTable, InEvent
  <2>2. (\A q \in runs : ~q.voided /\ q.slot = NoTime /\ (q.dnf => status = "CLOSED"))'
    BY <1>2, <1>3, <1>4 DEF RunningTable
  <2>3. (Shakedown => \A q, o \in runs :
         (q.entry = o.entry /\ q.finish # NoTime /\ Open(o)) => o.start > q.finish)'
    BY <1>2, <1>3, <1>4, <1>5 DEF RunningTable, Open
  <2>. QED  BY <2>1, <2>2, <2>3 DEF RunningTable
<1>7. RowsLast
  BY <1>2, <1>3, <1>4 DEF RowsLast, SameRun, Open, FinishRun
<1>. QED  BY <1>3, <1>4, <1>6, <1>7

LEMMA MarshalTable ==
  ASSUME TableInvariant, RunningTable, Activate \/ Close
  PROVE  TableInvariant' /\ RunningTable' /\ RowsLast
<1>0. StartMode = "GATE"
  BY DetectionsAssumption DEF Keeper!PassingsAssumption
<1>1. TableInvariant'
  BY TableStep DEF Next, StageStep
<1>2. CASE Activate
  <2>1. UNCHANGED <<runs, splits, crew>> /\ status # "CLOSED" /\ status' # "CLOSED"
    BY <1>0, <1>2 DEF Activate
  <2>. QED  BY <1>1, <2>1, RowsRest DEF RunningTable, InEvent, Open
<1>3. CASE Close
  <2> DEFINE closed(r) == [r EXCEPT !.dnf = TRUE]
             open == {r \in runs : Open(r)}
  <2>1. \A r \in runs : ~Untouched(r)
    BY DEF RunningTable, Untouched
  <2>2. runs' = (runs \ open) \cup {closed(r) : r \in open}
    BY <1>3, <2>1 DEF Close
  <2>3. status' = "CLOSED" /\ splits' = splits /\ crew' = crew
    BY <1>3 DEF Close
  <2>4. \A r \in runs : LET s == closed(r) IN
          /\ SameRun(r, s) /\ s.start = r.start /\ s.voided = r.voided
          /\ s.slot = r.slot /\ s.finish = r.finish /\ s.dnf
    BY DEF TableInvariant, TypeOK, Run, SameRun
  <2>. HIDE DEF closed
  <2>5. \A s \in runs' : \/ s \in runs /\ ~Open(s)
                         \/ \E r \in open : s = closed(r)
    BY <2>2
  <2>6. \A s \in runs' : ~s.voided /\ s.slot = NoTime /\ ~Open(s)
    BY <2>4, <2>5 DEF RunningTable, Open
  <2>7. RunningTable'
    BY <2>3, <2>6 DEF RunningTable, InEvent, Open
  <2>8. RowsLast
    BY <2>2, <2>3, <2>4 DEF RowsLast, SameRun
  <2>. QED  BY <1>1, <2>7, <2>8
<1>. QED  BY <1>2, <1>3

\* What a timed passing leaves in the table: its time in the role of its gate.
Evidence(p) ==
  \E r \in runs :
    /\ r.entry = p.entry
    /\ p.gate = "start" => r.start = p.at
    /\ p.gate = "finish" => r.finish = p.at
    /\ p.gate = "combined" => r.start = p.at \/ r.finish = p.at
    /\ p.gate \in SplitGates =>
         \E s \in splits : s.entry = r.entry /\ s.attempt = r.attempt /\ s.gate = p.gate

LEMMA PassingTyped ==
  ASSUME NEW p \in Passings
  PROVE  /\ p.at \in Times /\ p.at # NoTime
         /\ p.entry # NoCar => p.entry \in Entries
         /\ p.gate \in {"start", "finish", "combined"} => p.gate \notin SplitGates
BY DetectionsAssumption DEF Keeper!PassingsAssumption, Keeper!Times, Keeper!NoCar,
   Keeper!Gates, Times, NoTime

LEMMA EvidenceLasts ==
  ASSUME RowsLast, NEW p \in Passings, Evidence(p)
  PROVE  Evidence(p)'
<1>1. PICK r \in runs :
        /\ r.entry = p.entry
        /\ p.gate = "start" => r.start = p.at
        /\ p.gate = "finish" => r.finish = p.at
        /\ p.gate = "combined" => r.start = p.at \/ r.finish = p.at
        /\ p.gate \in SplitGates =>
             \E s \in splits : s.entry = r.entry /\ s.attempt = r.attempt /\ s.gate = p.gate
  BY DEF Evidence
<1>2. PICK s \in runs' : /\ SameRun(r, s) /\ s.start = r.start
                         /\ r.finish # NoTime => s.finish = r.finish
  BY DEF RowsLast
<1>3. p.at # NoTime
  BY PassingTyped
<1>. QED  BY <1>1, <1>2, <1>3 DEF Evidence, RowsLast, SameRun

LEMMA ApplyTable ==
  ASSUME TableInvariant, RunningTable, NEW p \in Passings, NEW e \in Entries,
         Keeper!Apply(p, e)
  PROVE  TableInvariant' /\ RunningTable' /\ RowsLast /\ (p.entry = e => Evidence(p)')
<1>0. /\ status = "ACTIVE" /\ UNCHANGED <<crew, status, firstStart>>
      /\ p.at \in Times
      /\ p.gate \in {"start", "finish", "combined"} => p.gate \notin SplitGates
  BY ApplyWrites, PassingTyped
<1>1. ASSUME GoodTable(runs'), dns' \subseteq dns, splits' \subseteq Split
      PROVE  TableInvariant'
  BY <1>0, <1>1 DEF TableInvariant, TypeOK, GoodTable, GoodRow
<1>2. CASE p.gate \in {"start", "combined"} /\ StartRun(e, p.at)
  <2>1. GoodTable(runs') /\ dns' \subseteq dns /\ splits' = splits
    BY <1>0, <1>2, StartRunGood
  <2>2. /\ RunningTable' /\ RowsLast
        /\ \E r \in runs' : r.entry = e /\ r.start = p.at
    BY <1>0, <1>2, StartTable
  <2>3. TableInvariant'
    BY <1>1, <2>1 DEF TableInvariant, TypeOK
  <2>. QED  BY <1>0, <1>2, <2>2, <2>3 DEF Evidence
<1>3. CASE p.gate \in {"finish", "combined"} /\ FinishRun(e, p.at)
  <2>1. GoodTable(runs') /\ dns' = dns /\ splits' = splits
    BY <1>0, <1>3, FinishRunGood
  <2>2. /\ RunningTable' /\ RowsLast
        /\ \E r \in runs' : r.entry = e /\ r.finish = p.at
    BY <1>0, <1>3, FinishTable
  <2>3. TableInvariant'
    BY <1>1, <2>1 DEF TableInvariant, TypeOK
  <2>. QED  BY <1>0, <1>3, <2>2, <2>3 DEF Evidence
<1>4. CASE p.gate \in SplitGates /\ PassSplit(e, p.gate, p.at)
  <2>1. UNCHANGED <<runs, dns>> /\ splits \subseteq splits'
    BY <1>4 DEF PassSplit
  <2>2. splits' \subseteq Split
    BY <1>0, <1>4, SplitTyped
  <2>3. TableInvariant'
    BY <1>1, <2>1, <2>2 DEF TableInvariant
  <2>4. RunningTable' /\ RowsLast
    BY <1>0, <2>1 DEF RunningTable, RowsLast, InEvent, Open, SameRun
  <2>5. PICK r \in SplitRuns(e, p.gate, p.at) :
          [entry |-> e, attempt |-> r.attempt, gate |-> p.gate,
           at |-> p.at, elapsed |-> p.at - r.start] \in splits'
    BY <1>4 DEF PassSplit
  <2>6. r \in runs' /\ r.entry = e
    BY <2>1 DEF SplitRuns, OpenRuns, RunsOf
  <2>7. \E s \in splits' : s.entry = e /\ s.attempt = r.attempt /\ s.gate = p.gate
    BY <2>5
  <2>. QED  BY <1>0, <1>4, <2>3, <2>4, <2>6, <2>7 DEF Evidence
<1>. QED  BY <1>2, <1>3, <1>4, ApplyWrites

\* A passing whose evidence is in the table changes nothing if it comes again.
LEMMA EvidenceSpends ==
  ASSUME TableInvariant, RunningTable, NEW p \in Passings, p.entry \in Entries, Evidence(p),
         ~Shakedown \/ p.gate \notin SplitGates, Keeper!Changes(p, p.entry)
  PROVE  FALSE
<1> DEFINE e == p.entry
<1>1. PICK r \in runs :
        /\ r.entry = e
        /\ p.gate = "start" => r.start = p.at
        /\ p.gate = "finish" => r.finish = p.at
        /\ p.gate = "combined" => r.start = p.at \/ r.finish = p.at
        /\ p.gate \in SplitGates =>
             \E s \in splits : s.entry = r.entry /\ s.attempt = r.attempt /\ s.gate = p.gate
  BY DEF Evidence
<1>2. /\ GoodRow(r) /\ ~r.voided /\ ~r.dnf /\ r.start \in Nat /\ r.finish \in Nat
      /\ p.at \in Nat /\ p.at # NoTime
      /\ p.gate \in {"start", "finish", "combined"} => p.gate \notin SplitGates
  BY ChangesNeeds, PassingTyped DEF TableInvariant, GoodTable, RunningTable, GoodRow, Run,
     Times, NoTime
<1>3. r.finish # NoTime => r.finish > r.start
  BY <1>2 DEF GoodRow, Run
<1>4. ~Shakedown => \A o \in OpenRuns(e) : o = r
  BY <1>1 DEF TableInvariant, GoodTable, GoodRow, IndexesHold, RunningTable, OpenRuns, RunsOf
<1>5. r.finish = NoTime => \A o \in OpenRuns(e) : o = r
  BY <1>1, <1>2 DEF TableInvariant, GoodTable, IndexesHold, RunningTable, OpenRuns, RunsOf, Open
<1>6. (Shakedown /\ r.finish # NoTime) => \A o \in OpenRuns(e) : o.start > r.finish
  BY <1>1 DEF RunningTable, OpenRuns, RunsOf
<1>7. CASE p.gate \in {"start", "combined"} /\ MayStart(e, p.at)
  <2>1. r.finish # NoTime /\ Shakedown
    BY <1>1, <1>2, <1>7 DEF MayStart, OpenRuns, DoneRuns, RunsOf, Open
  <2>2. p.at > r.finish
    BY <1>1, <1>2, <1>7, <2>1 DEF MayStart, FinishedRuns, RunsOf
  <2>. QED  BY <1>1, <1>2, <1>3, <1>7, <2>1, <2>2
<1>8. CASE p.gate \in {"finish", "combined"} /\ MayFinish(e, p.at)
  <2>1. PICK o \in OpenRuns(e) : p.at > o.start
    BY <1>8 DEF MayFinish
  <2>2. o.start \in Nat /\ o.finish = NoTime
    BY <2>1 DEF OpenRuns, RunsOf, Open, TableInvariant, TypeOK, Run, Times
  <2>3. CASE r.finish = NoTime
    BY <1>1, <1>2, <1>5, <1>8, <2>1, <2>3
  <2>4. CASE r.finish # NoTime
    BY <1>1, <1>2, <1>3, <1>4, <1>6, <1>8, <2>1, <2>2, <2>4
  <2>. QED  BY <2>3, <2>4
<1>9. CASE p.gate \in SplitGates /\ SplitRuns(e, p.gate, p.at) # {}
  <2>1. PICK o \in SplitRuns(e, p.gate, p.at) : TRUE
    BY <1>9
  <2>2. /\ o \in OpenRuns(e)
        /\ ~ \E s \in splits : s.entry = e /\ s.attempt = o.attempt /\ s.gate = p.gate
    BY DEF SplitRuns
  <2>. QED  BY <1>1, <1>4, <1>9, <2>2
<1>. QED  BY <1>7, <1>8, <1>9, ChangesNeeds

-----------------------------------------------------------------------------
(* The pipeline beside it *)

HasEvidence == \A p \in timed : p.entry # NoCar => Evidence(p)

RunningInv ==
  /\ PipeInv /\ OnlyUnknownCars /\ Alone /\ AsRead
  /\ TableInvariant /\ RunningTable /\ HasEvidence

\* The rules time the passing of h for e, and that is all the step does to the
\* run table and to the history of timings.
Times1(h, e) ==
  /\ Keeper!Changes(Subject(h), e) /\ Keeper!Apply(Subject(h), e)
  /\ timed' = timed \cup {Subject(h)}

LEMMA RunningIsDetections == [RunningNext]_all => [DetectionsNext]_all
BY DEF RunningNext, DetectionsNext, Desk

LEMMA RunningMoves ==
  ASSUME PipeInv, OnlyUnknownCars, [RunningNext]_all
  PROVE  \/ UNCHANGED <<vars, timed>>
         \/ (Activate \/ Close) /\ UNCHANGED timed
         \/ \E h \in Handlers : /\ Rules(h) /\ Runs(h) /\ Subject(h).entry # NoCar
                                /\ Subject(h) \in Passings /\ Subject(h).entry \in Entries
                                /\ Times1(h, Subject(h).entry)
         \/ \E m \in Marshals : /\ AssignRules(m) /\ Runs(m) /\ work[m].entry \in Entries
                                /\ Subject(m) \in Passings /\ Subject(m).entry = NoCar
                                /\ Times1(m, work[m].entry)
<1>1. CASE \E h \in Handlers : Step(h)
  <2> PICK h \in Handlers : Step(h)
    BY <1>1
  <2>1. CASE Check(h) \/ Insert(h) \/ Await(h) \/ Mark(h)
    BY <2>1 DEF Check, Insert, Await, Mark
  <2>2. CASE Rules(h)
    <3>1. Subject(h) \in Passings
      BY <2>2, IdleOrAt DEF Rules, Steps
    <3>2. CASE Subject(h).entry # NoCar /\ Keeper!Changes(Subject(h), Subject(h).entry)
      <4>1. Subject(h).entry \in Entries
        BY <3>1, <3>2, PassingTyped
      <4>. QED  BY <2>2, <3>1, <3>2, <4>1 DEF Rules, Step, Times1
    <3>3. CASE ~(Subject(h).entry # NoCar /\ Keeper!Changes(Subject(h), Subject(h).entry))
      BY <2>2, <3>3 DEF Rules
    <3>. QED  BY <3>2, <3>3
  <2>. QED  BY <2>1, <2>2 DEF Step
<1>2. CASE \E m \in Marshals : DeskStep(m)
  <2> PICK m \in Marshals : DeskStep(m)
    BY <1>2
  <2>1. CASE AssignSave(m) \/ Dismiss(m)
    BY <2>1 DEF AssignSave, Dismiss
  <2>2. CASE AssignRules(m)
    <3>1. /\ m \in Handlers /\ AtDeskStep(m) /\ At(m, "assign")
      BY <2>2 DEF AssignRules, AtDeskStep, At, DeskSteps, Handlers
    <3>2. /\ work[m].entry \in Entries /\ Subject(m) \in Passings /\ Subject(m).entry = NoCar
      BY <3>1, HolderTyped DEF DeskWork, OnlyUnknownCars, Subject
    <3>. QED  BY <2>2, <3>2 DEF AssignRules, DeskStep, Times1
  <2>. QED  BY <2>1, <2>2 DEF DeskStep
<1>3. CASE \/ RestartGate \/ UNCHANGED all \/ Crash \/ SweepStart \/ Requests
           \/ \E p \in Passings : Pass(p) \/ Age(p) \/ \E w \in Workers : Deliver(w, p)
           \/ \E r \in batch : SweepNext(r)
           \/ \E h \in Handlers : Fail(h)
  BY <1>3 DEF RestartGate, Pass, Age, all, pipe, Crash, SweepStart, Deliver, SweepNext,
     Fail, Requests, Ask
<1>4. CASE ActivateStage \/ CloseStage
  BY <1>4 DEF ActivateStage, CloseStage
<1>. QED  BY <1>1, <1>2, <1>3, <1>4 DEF RunningNext, Pipeline, Desk

LEMMA RunningStarts ==
  ASSUME DetectionsInit, crew = [e \in Entries |-> "in"]
  PROVE  RunningInv
<1>1. PipeInv /\ TableInvariant
  BY PipeInit, InitTable DEF DetectionsInit
<1>2. OnlyUnknownCars /\ Alone /\ AsRead
  BY DEF DetectionsInit, OnlyUnknownCars, Holds, AtDeskStep, DeskSteps, Idle, Alone, Busy,
     AsRead, At
<1>3. RunningTable /\ HasEvidence
  BY DEF DetectionsInit, Init, RunningTable, InEvent, HasEvidence
<1>. QED  BY <1>1, <1>2, <1>3 DEF RunningInv

LEMMA RunningStep == ~Interleaved /\ RunningInv /\ [RunningNext]_all => RunningInv' /\ RowsLast
<1>. SUFFICES ASSUME ~Interleaved, RunningInv, [RunningNext]_all
     PROVE  RunningInv' /\ RowsLast
  OBVIOUS
<1>1. PipeInv' /\ OnlyUnknownCars' /\ Alone' /\ AsRead'
  BY RunningIsDetections, PipeNext, UnknownNext, AloneNext, AsReadNext DEF RunningInv
<1>2. timed \subseteq Passings
  BY DEF RunningInv, PipeInv
<1>3. ASSUME RowsLast, timed' \subseteq timed
      PROVE  HasEvidence'
  BY <1>2, <1>3, EvidenceLasts DEF RunningInv, HasEvidence
<1>4. CASE UNCHANGED <<vars, timed>>
  <2>1. TableInvariant'
    BY <1>4, TableStep DEF RunningInv
  <2>2. RunningTable' /\ RowsLast
    BY <1>4, RowsRest DEF RunningInv, vars, RunningTable, InEvent, Open
  <2>. QED  BY <1>1, <1>3, <1>4, <2>1, <2>2 DEF RunningInv
<1>5. CASE (Activate \/ Close) /\ UNCHANGED timed
  BY <1>1, <1>3, <1>5, MarshalTable DEF RunningInv
<1>6. ASSUME NEW p \in Passings, NEW e \in Entries, Keeper!Apply(p, e),
             timed' = timed \cup {p}, p.entry \in {e, NoCar}
      PROVE  RunningInv' /\ RowsLast
  <2>1. /\ TableInvariant' /\ RunningTable' /\ RowsLast
        /\ p.entry = e => Evidence(p)'
    BY <1>6, ApplyTable DEF RunningInv
  <2>2. HasEvidence'
    BY <1>2, <1>6, <2>1, EvidenceLasts DEF RunningInv, HasEvidence
  <2>. QED  BY <1>1, <2>1, <2>2 DEF RunningInv
<1>7. CASE \E h \in Handlers : /\ Subject(h) \in Passings /\ Subject(h).entry \in Entries
                               /\ Times1(h, Subject(h).entry)
  <2>. PICK h \in Handlers : /\ Subject(h) \in Passings /\ Subject(h).entry \in Entries
                             /\ Times1(h, Subject(h).entry)
    BY <1>7
  <2>. QED  BY <1>6 DEF Times1
<1>8. CASE \E m \in Marshals : /\ work[m].entry \in Entries
                               /\ Subject(m) \in Passings /\ Subject(m).entry = NoCar
                               /\ Times1(m, work[m].entry)
  <2>. PICK m \in Marshals : /\ work[m].entry \in Entries
                             /\ Subject(m) \in Passings /\ Subject(m).entry = NoCar
                             /\ Times1(m, work[m].entry)
    BY <1>8
  <2>. QED  BY <1>6 DEF Times1
<1>. QED  BY <1>4, <1>5, <1>7, <1>8, RunningMoves DEF RunningInv

-----------------------------------------------------------------------------
(* A passing assigned by a marshal is not assigned again. *)

AssignedOnce ==
  /\ \A p \in timed \cap awaiting : \E m \in Marshals : At(m, "save") /\ Subject(m) = p
  /\ \A m \in Marshals : At(m, "assign") => Subject(m) \in awaiting

\* Marshals' requests as they were, and nothing new on the list is timed.
LEMMA AssignedRests ==
  ASSUME AssignedOnce, awaiting \subseteq awaiting',
         \A p \in timed' \cap awaiting' : p \in timed \cap awaiting,
         \A m \in Marshals : \/ work'[m] = work[m]
                             \/ ~At(m, "save") /\ ~(At(m, "assign"))'
  PROVE  AssignedOnce'
BY DEF AssignedOnce, At, Subject

LEMMA AssignedNext ==
  ~Interleaved /\ ~DeskFails /\ RunningInv /\ AssignedOnce /\ [RunningNext]_all => AssignedOnce'
<1>. SUFFICES ASSUME ~Interleaved, ~DeskFails, RunningInv, AssignedOnce, [RunningNext]_all
     PROVE  AssignedOnce'
  OBVIOUS
<1>0. /\ PipeInv /\ Alone /\ AsRead /\ OnlyUnknownCars
      /\ Marshals \subseteq Handlers /\ "sweep" \notin Marshals /\ "desk" \notin Handlers
      /\ Workers \cap Marshals = {}
  BY DetectionsAssumption DEF RunningInv, Handlers
<1>1. CASE \E h \in Handlers : Step(h)
  <2>. PICK h \in Handlers : Step(h)
    BY <1>1
  <2>1. \A o \in Handlers \ {h} : work'[o] = work[o]
    BY <1>0, OthersRest
  <2>2. ~At(h, "save") /\ ~At(h, "assign")
    BY DEF Step, Check, Insert, Rules, Await, Mark, At
  <2>3. ~(At(h, "assign"))'
    <3>1. CASE Return(h)
      BY <1>0, <3>1, ReturnAt DEF At, Idle
    <3>2. CASE \E to \in {"insert", "await", "mark"} : Goto(h, to)
      <4>1. work[h] # Idle
        BY DEF Step, Check, Insert, Rules, Await, Mark, At, Idle
      <4>. QED  BY <1>0, <3>2, <4>1, GotoAt DEF At
    <3>3. CASE Insert(h) /\ Subject(h) \notin stored
      BY <1>0, <3>3 DEF Insert, At, PipeInv
    <3>4. Return(h) \/ (\E to \in {"insert", "await", "mark"} : Goto(h, to))
          \/ (Insert(h) /\ Subject(h) \notin stored)
      BY DEF Step, Check, Insert, Rules, Await, Mark
    <3>. QED  BY <3>1, <3>2, <3>3, <3>4
  <2>4. awaiting \subseteq awaiting' /\ \A p \in awaiting' \ awaiting : p \notin stored
    BY <1>0 DEF Step, Check, Insert, Rules, Await, Mark, AsRead, Holds, At
  <2>5. \A p \in timed' \ timed : p.entry # NoCar
    BY DEF Step, Check, Insert, Rules, Await, Mark
  <2>6. \A p \in awaiting : p.entry = NoCar
    BY <1>0 DEF OnlyUnknownCars
  <2>7. \A p \in timed' \cap awaiting' : p \in timed \cap awaiting
    <3>. SUFFICES ASSUME NEW p \in timed', p \in awaiting'
         PROVE  p \in timed /\ p \in awaiting
      OBVIOUS
    <3>1. p.entry = NoCar
      BY <1>0, UnknownNext, RunningIsDetections DEF OnlyUnknownCars
    <3>2. p \in timed
      BY <2>5, <3>1
    <3>. QED  BY <1>0, <2>4, <3>2 DEF PipeInv
  <2>. QED  BY <1>0, <2>1, <2>2, <2>3, <2>4, <2>7, AssignedRests
<1>2. ASSUME NEW m \in Marshals, DeskStep(m)
      PROVE  AssignedOnce'
  <2>1. \A o \in Handlers \ {m} : work'[o] = work[o] /\ ~Busy(o)
    BY <1>0, <1>2, OthersRest, RunsAlone DEF DeskStep
  <2>2. \A o \in Marshals \ {m} : /\ ~At(o, "save") /\ ~At(o, "assign")
                                  /\ ~(At(o, "save"))' /\ ~(At(o, "assign"))'
    BY <1>0, <2>1 DEF Busy, At, Idle
  <2>3. CASE AssignSave(m) \/ Dismiss(m)
    <3>1. ~(At(m, "assign"))'
      BY <1>0, <2>3, ReturnAt DEF AssignSave, Dismiss, At, Idle
    <3>2. \A p \in timed' \cap awaiting' : p \in timed \cap awaiting /\ p # Subject(m)
      BY <2>3 DEF AssignSave, Dismiss
    <3>3. \A p \in timed' \cap awaiting' : FALSE
      BY <2>2, <2>3, <3>2 DEF AssignedOnce, AssignSave, Dismiss, At
    <3>. QED  BY <2>2, <3>1, <3>3 DEF AssignedOnce
  <2>4. CASE AssignRules(m) /\ Return(m) /\ UNCHANGED timed
    <3>1. ~(At(m, "assign"))'
      BY <1>0, <2>4, ReturnAt DEF At, Idle
    <3>2. \A p \in timed \cap awaiting : FALSE
      BY <2>2, <2>4 DEF AssignedOnce, AssignRules, At
    <3>. QED  BY <2>2, <2>4, <3>1, <3>2 DEF AssignedOnce, AssignRules
  <2>5. CASE AssignRules(m) /\ Goto(m, "save") /\ timed' \in {timed, timed \cup {Subject(m)}}
    <3>1. /\ work'[m].step = "save" /\ work'[m].passing = Subject(m)
      BY <1>0, <2>5, GotoAt DEF AssignRules, At, Idle, Subject
    <3>2. \A p \in timed \cap awaiting : FALSE
      BY <2>2, <2>5 DEF AssignedOnce, AssignRules, At
    <3>3. awaiting' = awaiting
      BY <2>5 DEF AssignRules
    <3>. QED  BY <2>2, <2>5, <3>1, <3>2, <3>3 DEF AssignedOnce, At, Subject
  <2>. QED  BY <1>2, <2>3, <2>4, <2>5 DEF DeskStep, AssignRules
<1>3. CASE \E h \in Handlers : Fail(h)
  <2>. PICK h \in Handlers : Fail(h)
    BY <1>3
  <2>1. /\ ~At(h, "save") /\ work'[h] = Idle /\ UNCHANGED <<awaiting, timed>>
        /\ \A o \in Handlers \ {h} : work'[o] = work[o]
    BY <1>0, ReturnAt DEF Fail
  <2>2. ~(At(h, "assign"))'
    BY <2>1 DEF At, Idle
  <2>. QED  BY <1>0, <2>1, <2>2, AssignedRests
<1>4. CASE Crash
  <2>1. /\ \A m \in Marshals : ~At(m, "save")
        /\ UNCHANGED <<awaiting, timed>>
        /\ \A m \in Marshals : ~(At(m, "assign"))'
    BY <1>0, <1>4 DEF Crash, At, Idle
  <2>. QED  BY <2>1, AssignedRests
<1>5. CASE \E p \in Passings, w \in Workers : Deliver(w, p)
  <2>1. UNCHANGED <<awaiting, timed>> /\ \A m \in Marshals : work'[m] = work[m]
    BY <1>0, <1>5 DEF Deliver, PipeInv
  <2>. QED  BY <2>1, AssignedRests
<1>6. CASE \E r \in batch : SweepNext(r)
  <2>1. UNCHANGED <<awaiting, timed>> /\ \A m \in Marshals : work'[m] = work[m]
    BY <1>0, <1>6 DEF SweepNext, Retry, PipeInv
  <2>. QED  BY <2>1, AssignedRests
<1>7. CASE Runs("desk") /\ (Requests \/ CloseStage)
  <2>1. \A o \in Marshals : ~At(o, "save") /\ ~At(o, "assign")
    BY <1>0, <1>7, RunsAlone DEF Busy, At, Idle
  <2>2. \A p \in timed \cap awaiting : FALSE
    BY <2>1 DEF AssignedOnce
  <2>3. CASE CloseStage
    BY <2>1, <2>2, <2>3 DEF CloseStage, AssignedOnce, At
  <2>4. CASE Requests
    <3>. PICK m \in Marshals, p \in Passings, e \in Entries, step \in {"assign", "dismiss"} :
           Ask(m, p, e, step)
      BY <2>4 DEF Requests
    <3>1. /\ UNCHANGED <<awaiting, timed>> /\ p \in awaiting
          /\ work'[m] = [step |-> step, passing |-> p, entry |-> e, done |-> p \in processed]
          /\ \A o \in Marshals \ {m} : work'[o] = work[o]
      BY <1>0 DEF Ask, PipeInv
    <3>2. work'[m].passing \in awaiting'
      BY <3>1
    <3>. QED  BY <2>1, <2>2, <3>1, <3>2 DEF AssignedOnce, At, Subject
  <2>. QED  BY <1>7, <2>3, <2>4
<1>8. CASE \/ ActivateStage \/ RestartGate \/ UNCHANGED all \/ SweepStart
           \/ \E p \in Passings : Pass(p) \/ Age(p)
  <2>1. UNCHANGED <<awaiting, timed, work>>
    BY <1>8 DEF ActivateStage, RestartGate, Pass, Age, SweepStart, all, pipe
  <2>. QED  BY <2>1, AssignedRests
<1>. QED  BY <1>1, <1>2, <1>3, <1>4, <1>5, <1>6, <1>7, <1>8
          DEF RunningNext, Pipeline, Desk

LEMMA AssignedInit == DetectionsInit => AssignedOnce
BY DetectionsAssumption DEF DetectionsInit, AssignedOnce, At, Idle, Handlers

\* No passing is timed twice, so every timing is one of TimeKeeping's.
LEMMA TimesStep ==
  ASSUME ~Interleaved, ~Shakedown \/ \A p \in Passings : p.gate \notin SplitGates,
         RunningInv, AssignedOnce, [RunningNext]_all
  PROVE  [Keeper!TimeNext]_<<Keeper!vars, timed>>
<1>0. PipeInv /\ Alone /\ OnlyUnknownCars /\ TableInvariant /\ RunningTable /\ HasEvidence
  BY DEF RunningInv
<1>1. CASE UNCHANGED <<vars, timed>>
  BY <1>1 DEF vars, Keeper!vars
<1>2. CASE (Activate \/ Close) /\ UNCHANGED timed
  BY <1>2, KeeperMarshal DEF Keeper!TimeNext, Keeper!Marshal
<1>3. CASE \E h \in Handlers : /\ Subject(h) \in Passings /\ Subject(h).entry \in Entries
                               /\ Subject(h).entry # NoCar /\ Times1(h, Subject(h).entry)
  <2>. PICK h \in Handlers : /\ Subject(h) \in Passings /\ Subject(h).entry \in Entries
                             /\ Subject(h).entry # NoCar /\ Times1(h, Subject(h).entry)
    BY <1>3
  <2>. DEFINE p == Subject(h)
  <2>1. /\ p \in Passings /\ p.entry \in Entries /\ p.entry # NoCar
        /\ Keeper!Changes(p, p.entry) /\ Keeper!Apply(p, p.entry) /\ timed' = timed \cup {p}
    BY DEF Times1
  <2>. HIDE DEF p
  <2>2. p \notin timed
    BY <1>0, <2>1, EvidenceSpends DEF HasEvidence
  <2>3. Keeper!Time(p)
    BY <2>1, <2>2 DEF Keeper!Time
  <2>. QED  BY <2>1, <2>3 DEF Keeper!TimeNext
<1>4. CASE \E m \in Marshals : /\ AssignRules(m) /\ Runs(m) /\ work[m].entry \in Entries
                               /\ Subject(m) \in Passings /\ Subject(m).entry = NoCar
                               /\ Times1(m, work[m].entry)
  <2>. PICK m \in Marshals : /\ AssignRules(m) /\ Runs(m) /\ work[m].entry \in Entries
                             /\ Subject(m) \in Passings /\ Subject(m).entry = NoCar
                             /\ Times1(m, work[m].entry)
    BY <1>4
  <2>. DEFINE p == Subject(m)
              e == work[m].entry
  <2>1. /\ p \in Passings /\ p.entry = NoCar /\ e \in Entries
        /\ Keeper!Apply(p, e) /\ timed' = timed \cup {p}
    BY DEF Times1
  <2>2. \A o \in Marshals : ~At(o, "save")
    BY RunsAlone DEF Handlers, Busy, At, Idle, AssignRules
  <2>3. p \notin timed
    BY <2>2 DEF AssignedOnce, AssignRules
  <2>. HIDE DEF p, e
  <2>4. Keeper!Time(p)
    BY <2>1, <2>3, DetectionsAssumption DEF Keeper!Time
  <2>. QED  BY <2>1, <2>4 DEF Keeper!TimeNext
<1>. QED  BY <1>0, <1>1, <1>2, <1>3, <1>4, RunningMoves

\* On SQLite, where an assignment is whole, the pipeline refines TimeKeeping:
\* whatever is lost, redelivered, retried or cut short by a crash, the run
\* table changes by timing a passing, at most once each, or by a marshal.  A
\* split of a shakedown counts for the latest run, and may count again there.
THEOREM TimesEachPassingOnceHolds ==
  ASSUME ~Interleaved, ~DeskFails,
         ~Shakedown \/ \A p \in Passings : p.gate \notin SplitGates
  PROVE  RunningSpec => TimesEachPassingOnce
<1>1. RunningInit => Keeper!TimeInit
  BY KeeperMarshal DEF RunningInit, DetectionsInit, Keeper!TimeInit
<1>2. RunningInv /\ AssignedOnce /\ [RunningNext]_all
        => RunningInv' /\ AssignedOnce' /\ [Keeper!TimeNext]_<<Keeper!vars, timed>>
  BY RunningStep, AssignedNext, TimesStep
<1>3. RunningInit => RunningInv /\ AssignedOnce
  BY RunningStarts, AssignedInit DEF RunningInit
<1>. QED  BY <1>1, <1>2, <1>3, PTL DEF RunningSpec, TimesEachPassingOnce, Keeper!TimeSpec

-----------------------------------------------------------------------------
(* A finish is given up only when there is nothing left to finish. *)

\* On a stage of one run each, a car whose run this passing cannot finish
\* never gets another.
GivenUp(p) ==
  \/ status = "CLOSED"
  \/ HasRun(p.entry) /\ ~MayFinish(p.entry, p.at)

KnownFinish(p) == p.gate = "finish" /\ p.entry # NoCar

FinishInv ==
  /\ \A p \in processed \ (timed \cup aged) : KnownFinish(p) => GivenUp(p)
  /\ \A h \in Handlers : At(h, "await") /\ KnownFinish(Subject(h)) =>
       ~MayFinish(Subject(h).entry, Subject(h).at)
  /\ \A h \in Handlers : At(h, "mark") /\ KnownFinish(Subject(h)) =>
       Subject(h) \in timed \cup aged \/ GivenUp(Subject(h))

\* A car with a run on a stage of one run each does not start, so no step
\* opens a run for it.
LEMMA NoNewOpen ==
  ASSUME ~Shakedown, TableInvariant, RunningTable, NEW q \in Passings, NEW e \in Entries,
         Keeper!Apply(q, e), NEW f, HasRun(f)
  PROVE  OpenRuns(f)' \subseteq OpenRuns(f)
<1>0. /\ status = "ACTIVE" /\ q.at # NoTime
      /\ \/ StartRun(e, q.at)
         \/ FinishRun(e, q.at)
         \/ PassSplit(e, q.gate, q.at)
  BY ApplyWrites, PassingTyped
<1>1. CASE StartRun(e, q.at)
  <2>1. PICK n : runs' = runs \cup {NewRun(e, n, q.at, NoTime)}
    BY <1>1 DEF StartRun
  <2>2. e # f
    BY <1>0, <1>1 DEF StartRun, MayStart, HasRun, RunsOf, OpenRuns, DoneRuns, Open, RunningTable
  <2>3. NewRun(e, n, q.at, NoTime).entry = e
    BY DEF NewRun
  <2>. QED  BY <2>1, <2>2, <2>3 DEF OpenRuns, RunsOf, Open
<1>2. CASE FinishRun(e, q.at)
  <2>1. PICK r \in OpenRuns(e) :
          Replace(r, [r EXCEPT !.finish = q.at, !.duration = Duration(r.start, q.at)])
    BY <1>2 DEF FinishRun
  <2>. DEFINE s == [r EXCEPT !.finish = q.at, !.duration = Duration(r.start, q.at)]
  <2>2. s.finish = q.at
    BY <2>1 DEF OpenRuns, RunsOf, TableInvariant, TypeOK, Run
  <2>3. runs' = (runs \ {r}) \cup {s}
    BY <2>1 DEF Replace
  <2>. HIDE DEF s
  <2>. QED  BY <1>0, <2>2, <2>3 DEF OpenRuns, RunsOf, Open
<1>3. CASE PassSplit(e, q.gate, q.at)
  BY <1>3 DEF PassSplit, OpenRuns, RunsOf, Open
<1>. QED  BY <1>0, <1>1, <1>2, <1>3

\* Whatever is done to the table of such a stage, a finish given up stays so.
LEMMA GivenUpStays ==
  ASSUME ~Interleaved, ~Shakedown, RunningInv, [RunningNext]_all, NEW p \in Passings, GivenUp(p)
  PROVE  GivenUp(p)'
<1>0. PipeInv /\ OnlyUnknownCars /\ TableInvariant /\ RunningTable /\ RowsLast
  BY RunningStep DEF RunningInv
<1>1. CASE UNCHANGED vars
  BY <1>1 DEF vars, GivenUp, HasRun, RunsOf, MayFinish, OpenRuns, Open
<1>2. CASE Activate \/ Close
  <2>1. StartMode = "GATE"
    BY DetectionsAssumption DEF Keeper!PassingsAssumption
  <2>2. status' = "CLOSED" \/ (runs' = runs /\ status # "CLOSED")
    BY <1>2, <2>1 DEF Activate, Close
  <2>. QED  BY <2>2 DEF GivenUp, HasRun, RunsOf, MayFinish, OpenRuns, Open
<1>3. ASSUME NEW q \in Passings, NEW e \in Entries, Keeper!Apply(q, e)
      PROVE  GivenUp(p)'
  <2>1. HasRun(p.entry) /\ ~MayFinish(p.entry, p.at)
    BY <1>3, ApplyWrites DEF GivenUp
  <2>2. HasRun(p.entry)'
    BY <1>0, <2>1 DEF HasRun, RunsOf, RowsLast, SameRun
  <2>3. OpenRuns(p.entry)' \subseteq OpenRuns(p.entry)
    BY <1>0, <1>3, <2>1, NoNewOpen
  <2>. QED  BY <2>1, <2>2, <2>3 DEF GivenUp, MayFinish
<1>4. CASE \E h \in Handlers : /\ Subject(h) \in Passings /\ Subject(h).entry \in Entries
                               /\ Times1(h, Subject(h).entry)
  BY <1>3, <1>4 DEF Times1
<1>5. CASE \E m \in Marshals : /\ work[m].entry \in Entries /\ Subject(m) \in Passings
                               /\ Times1(m, work[m].entry)
  BY <1>3, <1>5 DEF Times1
<1>. QED  BY <1>0, <1>1, <1>2, <1>4, <1>5, RunningMoves

\* Who is at await or at mark after a step was there before it, with the table
\* as it was, or got there by this step.
LEMMA FinishRests ==
  ASSUME FinishInv, NEW h,
         UNCHANGED <<runs, status>>, timed \subseteq timed', aged \subseteq aged',
         \A o \in Handlers \ {h} : work'[o] = work[o] \/ work'[o].step \notin {"await", "mark"},
         work'[h].step = "await" /\ KnownFinish(work'[h].passing) =>
           ~MayFinish(work'[h].passing.entry, work'[h].passing.at),
         work'[h].step = "mark" /\ KnownFinish(work'[h].passing) =>
           work'[h].passing \in timed' \cup aged' \/ GivenUp(work'[h].passing),
         \A p \in processed' \ processed :
           KnownFinish(p) => p \in timed \cup aged \/ GivenUp(p)
  PROVE  FinishInv'
<1>1. \A p : GivenUp(p)' <=> GivenUp(p)
  BY DEF GivenUp, HasRun, RunsOf, MayFinish, OpenRuns, Open
<1>2. \A e, at : MayFinish(e, at)' <=> MayFinish(e, at)
  BY DEF MayFinish, OpenRuns, RunsOf, Open
<1>3. (\A p \in processed \ (timed \cup aged) : KnownFinish(p) => GivenUp(p))'
  BY <1>1 DEF FinishInv, KnownFinish
<1>4. (\A o \in Handlers : At(o, "await") /\ KnownFinish(Subject(o)) =>
         ~MayFinish(Subject(o).entry, Subject(o).at))'
  BY <1>2 DEF FinishInv, At, Subject, KnownFinish
<1>5. (\A o \in Handlers : At(o, "mark") /\ KnownFinish(Subject(o)) =>
         Subject(o) \in timed \cup aged \/ GivenUp(Subject(o)))'
  BY <1>1 DEF FinishInv, At, Subject, KnownFinish
<1>. QED  BY <1>3, <1>4, <1>5 DEF FinishInv

\* The table changes while nobody is at await.
LEMMA FinishMoves ==
  ASSUME ~Interleaved, ~Shakedown, RunningInv, [RunningNext]_all, FinishInv,
         processed' \subseteq Passings, timed \subseteq timed', aged' = aged,
         \A h \in Handlers : work'[h].step # "await",
         \A h \in Handlers : work'[h].step = "mark" => work'[h].passing \in timed',
         \A p \in processed' \ processed : ~KnownFinish(p)
  PROVE  FinishInv'
<1>1. \A p \in processed' : GivenUp(p) => GivenUp(p)'
  BY GivenUpStays
<1>. QED  BY <1>1 DEF FinishInv, At, Subject, KnownFinish

LEMMA FinishStep ==
  ASSUME ~Interleaved, ~Shakedown, RunningInv, [RunningNext]_all, FinishInv,
         NEW h \in Handlers, Step(h), status # "NOT_STARTED"
  PROVE  FinishInv'
<1>0. /\ PipeInv /\ Alone /\ OnlyUnknownCars /\ TableInvariant /\ RunningTable
      /\ \A o \in Handlers \ {h} : work'[o] = work[o] /\ ~Busy(o)
  BY OthersRest, RunsAlone DEF RunningInv, Step
<1>1. CASE Return(h) /\ UNCHANGED <<runs, status, timed, aged, processed>>
  <2>1. work'[h].step = "idle"
    BY <1>0, <1>1, ReturnAt DEF Idle
  <2>. QED  BY <1>0, <1>1, <2>1, FinishRests
<1>2. CASE Check(h) /\ Goto(h, "insert")
  <2>1. work'[h].step = "insert" /\ UNCHANGED <<runs, status, timed, aged, processed>>
    BY <1>0, <1>2, GotoAt DEF Check, At, Idle, vars
  <2>. QED  BY <1>0, <2>1, FinishRests
<1>3. CASE Insert(h) /\ Subject(h) \notin stored
  <2>1. work'[h].step = "rules" /\ UNCHANGED <<runs, status, timed, aged, processed>>
    BY <1>0, <1>3 DEF Insert, vars, PipeInv
  <2>. QED  BY <1>0, <2>1, FinishRests
<1>4. CASE Rules(h)
  <2>. DEFINE p == Subject(h)
              changes == p.entry # NoCar /\ Keeper!Changes(p, p.entry)
  <2>1. \A to : Goto(h, to) => work'[h].step = to /\ work'[h].passing = p
    BY <1>0, <1>4, GotoAt DEF Rules, At, Idle, Subject
  <2>2. p \in Passings
    BY <1>0, <1>4, IdleOrAt DEF Rules, Steps
  <2>3. CASE changes
    <3>1. /\ timed' = timed \cup {p} /\ Goto(h, "mark") /\ aged' = aged
          /\ processed' = processed
      BY <1>4, <2>3 DEF Rules
    <3>2. \A o \in Handlers \ {h} : work'[o].step \notin {"await", "mark"}
      BY <1>0 DEF Busy, At, Idle
    <3>. QED  BY <1>0, <2>1, <3>1, <3>2, FinishMoves DEF PipeInv
  <2>4. CASE ~changes
    <3>1. /\ UNCHANGED <<runs, status, timed, aged, processed>>
          /\ Goto(h, "await") \/ Goto(h, "mark")
          /\ Goto(h, "mark") \/ (status = "ACTIVE" /\ InEvent(p.entry))
          /\ (KnownFinish(p) /\ status = "ACTIVE" /\ InEvent(p.entry)) => Goto(h, "await")
      BY <1>4, <2>4 DEF Rules, vars, KnownFinish
    <3>2. KnownFinish(p) => p.entry \in Entries /\ InEvent(p.entry)
      BY <1>0, <2>2, PassingTyped DEF KnownFinish, RunningTable
    <3>3. KnownFinish(p) /\ status = "ACTIVE" => ~MayFinish(p.entry, p.at)
      BY <2>4, <3>2, KeeperQueries DEF KnownFinish, Keeper!Changes
    <3>4. status \in {"ACTIVE", "CLOSED"}
      BY <1>0 DEF TableInvariant, TypeOK
    <3>. HIDE DEF changes, p
    <3>5. work'[h].step = "await" /\ KnownFinish(work'[h].passing) =>
            ~MayFinish(work'[h].passing.entry, work'[h].passing.at)
      BY <2>1, <3>1, <3>2, <3>3
    <3>6. work'[h].step = "mark" /\ KnownFinish(work'[h].passing) => GivenUp(work'[h].passing)
      BY <2>1, <3>1, <3>2, <3>4 DEF GivenUp
    <3>. QED  BY <1>0, <3>1, <3>5, <3>6, FinishRests
  <2>. QED  BY <2>3, <2>4
<1>5. CASE Await(h) /\ Goto(h, "mark")
  <2>. DEFINE p == Subject(h)
  <2>1. /\ work'[h].step = "mark" /\ work'[h].passing = p
        /\ UNCHANGED <<runs, status, timed, aged, processed>>
    BY <1>0, <1>5, GotoAt DEF Await, At, Idle, Subject, vars
  <2>2. KnownFinish(p) => p \in aged \/ GivenUp(p)
    <3>1. Goto(h, "mark") => ~Return(h)
      BY <1>0, <2>1, ReturnAt DEF Idle
    <3>2. HasRun(p.entry) \/ p \in aged
      BY <1>5, <3>1 DEF Await
    <3>. QED  BY <1>5, <3>2 DEF FinishInv, GivenUp, Await
  <2>. QED  BY <1>0, <2>1, <2>2, FinishRests
<1>6. CASE Mark(h)
  <2>1. /\ work'[h].step = "idle" /\ UNCHANGED <<runs, status, timed, aged>>
        /\ processed' = processed \cup {Subject(h)}
    BY <1>0, <1>6, ReturnAt DEF Mark, Idle, vars
  <2>2. \A p \in processed' \ processed : KnownFinish(p) => p \in timed \cup aged \/ GivenUp(p)
    BY <1>6, <2>1 DEF FinishInv, Mark
  <2>. QED  BY <1>0, <2>1, <2>2, FinishRests
<1>7. /\ Check(h) => \/ Check(h) /\ Goto(h, "insert")
                     \/ Return(h) /\ UNCHANGED <<runs, status, timed, aged, processed>>
      /\ Insert(h) => \/ Subject(h) \notin stored
                      \/ Return(h) /\ UNCHANGED <<runs, status, timed, aged, processed>>
      /\ Await(h) => \/ Await(h) /\ Goto(h, "mark")
                     \/ Return(h) /\ UNCHANGED <<runs, status, timed, aged, processed>>
  BY DEF Check, Insert, Await, vars
<1>. QED  BY <1>1, <1>2, <1>3, <1>4, <1>5, <1>6, <1>7 DEF Step

LEMMA FinishNext ==
  ~Interleaved /\ ~Shakedown /\ RunningInv /\ FinishInv /\ [RunningNext]_all => FinishInv'
<1>. SUFFICES ASSUME ~Interleaved, ~Shakedown, RunningInv, FinishInv, [RunningNext]_all
     PROVE  FinishInv'
  OBVIOUS
<1>0. /\ PipeInv /\ PipeInv' /\ Alone /\ OnlyUnknownCars
      /\ Marshals \subseteq Handlers /\ "desk" \notin Handlers
      /\ "sweep" \in Handlers /\ "sweep" # "desk"
  BY DetectionsAssumption, RunningStep DEF RunningInv, Handlers
<1>1. CASE \E h \in Handlers : Step(h) /\ status # "NOT_STARTED"
  BY <1>1, FinishStep
<1>2. ASSUME NEW m \in Marshals, DeskStep(m)
      PROVE  FinishInv'
  <2>1. \A o \in Handlers \ {m} : work'[o] = work[o] /\ ~Busy(o)
    BY <1>0, <1>2, OthersRest, RunsAlone DEF DeskStep
  <2>2. \A o \in Handlers \ {m} : work'[o].step \notin {"await", "mark"}
    BY <2>1 DEF Busy, At, Idle
  <2>3. work'[m].step \in {"idle", "save"}
    <3>1. work[m] # Idle
      BY <1>2 DEF DeskStep, AssignRules, AssignSave, Dismiss, At, Idle
    <3>. QED  BY <1>0, <1>2, <3>1, ReturnAt, GotoAt
              DEF DeskStep, AssignRules, AssignSave, Dismiss, Idle
  <2>4. \A p \in processed' \ processed : ~KnownFinish(p)
    <3>1. AtDeskStep(m)
      BY <1>2 DEF DeskStep, AssignRules, AssignSave, Dismiss, At, AtDeskStep, DeskSteps
    <3>. QED  BY <1>0, <1>2, <3>1
              DEF DeskStep, AssignRules, AssignSave, Dismiss, OnlyUnknownCars, KnownFinish
  <2>5. timed \subseteq timed' /\ aged' = aged
    BY <1>2 DEF DeskStep, AssignRules, AssignSave, Dismiss
  <2>. QED  BY <1>0, <2>2, <2>3, <2>4, <2>5, FinishMoves DEF PipeInv
<1>3. CASE Runs("desk") /\ (ActivateStage \/ CloseStage)
  <2>1. \A h \in Handlers : ~Busy(h)
    BY <1>0, <1>3, RunsAlone
  <2>2. UNCHANGED <<work, processed, timed, aged>>
    BY <1>3 DEF ActivateStage, CloseStage, pipe
  <2>3. \A h \in Handlers : work'[h].step \notin {"await", "mark"}
    BY <2>1, <2>2 DEF Busy, At, Idle
  <2>. QED  BY <1>0, <2>2, <2>3, FinishMoves DEF PipeInv
<1>4. ASSUME NEW h \in Handlers, UNCHANGED <<runs, status, timed, processed>>, aged \subseteq aged',
             \A o \in Handlers \ {h} : work'[o] = work[o],
             work'[h] = work[h] \/ work'[h].step \notin {"await", "mark"}
      PROVE  FinishInv'
  <2>1. /\ work'[h].step = "await" /\ KnownFinish(work'[h].passing) =>
             ~MayFinish(work'[h].passing.entry, work'[h].passing.at)
        /\ work'[h].step = "mark" /\ KnownFinish(work'[h].passing) =>
             work'[h].passing \in timed' \cup aged' \/ GivenUp(work'[h].passing)
    BY <1>4 DEF FinishInv, At, Subject
  <2>. QED  BY <1>4, <2>1, FinishRests
<1>5. CASE \E h \in Handlers : Fail(h)
  <2>. PICK h \in Handlers : Fail(h)
    BY <1>5
  <2>1. /\ UNCHANGED <<runs, status, timed, processed, aged>>
        /\ work'[h].step = "idle" /\ \A o \in Handlers \ {h} : work'[o] = work[o]
    BY <1>0, ReturnAt DEF Fail, Idle, vars
  <2>. QED  BY <1>4, <2>1
<1>6. CASE Crash
  <2>1. /\ UNCHANGED <<runs, status, timed, processed, aged>>
        /\ \A o \in Handlers : work'[o].step = "idle"
    BY <1>6 DEF Crash, Idle, vars
  <2>. QED  BY <1>0, <2>1, FinishRests
<1>7. CASE \E p \in Passings, w \in Workers : Deliver(w, p)
  <2>. PICK p \in Passings, w \in Workers : Deliver(w, p)
    BY <1>7
  <2>1. /\ UNCHANGED <<runs, status, timed, processed, aged>> /\ w \in Handlers
        /\ work'[w].step = "check" /\ \A o \in Handlers \ {w} : work'[o] = work[o]
    BY <1>0 DEF Deliver, Handlers, PipeInv, vars
  <2>. QED  BY <1>4, <2>1
<1>8. CASE \E r \in batch : SweepNext(r)
  <2>1. /\ UNCHANGED <<runs, status, timed, processed, aged>>
        /\ work'["sweep"].step = "rules" /\ \A o \in Handlers \ {"sweep"} : work'[o] = work[o]
    BY <1>0, <1>8 DEF SweepNext, Retry, PipeInv, vars
  <2>. QED  BY <1>0, <1>4, <2>1
<1>9. CASE Requests
  <2>. PICK m \in Marshals, p \in Passings, e \in Entries, step \in {"assign", "dismiss"} :
         Ask(m, p, e, step)
    BY <1>9 DEF Requests
  <2>1. /\ UNCHANGED <<runs, status, timed, processed, aged>> /\ m \in Handlers
        /\ work'[m] = [step |-> step, passing |-> p, entry |-> e, done |-> p \in processed]
        /\ \A o \in Handlers \ {m} : work'[o] = work[o]
    BY <1>0 DEF Ask, PipeInv, vars
  <2>2. work'[m].step \in {"assign", "dismiss"}
    BY <2>1
  <2>. QED  BY <1>4, <2>1, <2>2
<1>10. CASE \/ RestartGate \/ UNCHANGED all \/ SweepStart
            \/ \E p \in Passings : Pass(p) \/ Age(p)
  <2>1. UNCHANGED <<runs, status, timed, processed, work>> /\ aged \subseteq aged'
    BY <1>10 DEF RestartGate, Pass, Age, SweepStart, all, pipe, vars
  <2>. QED  BY <1>0, <1>4, <2>1
<1>. QED  BY <1>1, <1>2, <1>3, <1>5, <1>6, <1>7, <1>8, <1>9, <1>10
          DEF RunningNext, Pipeline, Desk

\* On SQLite, on a stage of one run each, a finish that waits for its start is
\* given up only once it can finish nothing any more, or has aged: a record
\* closed before its start was recorded would be a finish lost for good.
THEOREM NoFinishMissedHolds ==
  ASSUME ~Interleaved, ~Shakedown  PROVE RunningSpec => []NoFinishMissed
<1>1. RunningInit => FinishInv
  BY DEF RunningInit, DetectionsInit, FinishInv, At, Idle
<1>2. RunningInv /\ FinishInv => NoFinishMissed
  BY DEF RunningInv, RunningTable, FinishInv, NoFinishMissed, KnownFinish, GivenUp,
     MayFinish, OpenRuns, RunsOf
<1>3. RunningInv /\ FinishInv /\ [RunningNext]_all => RunningInv' /\ FinishInv'
  BY RunningStep, FinishNext
<1>4. RunningInit => RunningInv
  BY RunningStarts DEF RunningInit
<1>. QED  BY <1>1, <1>2, <1>3, <1>4, PTL DEF RunningSpec
===============================================================================

----------------------------- MODULE Detections -----------------------------
(***************************************************************************)
(* A passing's way from the gate into the run table: the gate's outgoing   *)
(* queue (QoS 1, at least once), the broker that acknowledges only what is *)
(* stored, EventsService's ingest and rule engine, and the sweep that      *)
(* retries what was stored and not timed.  The rules write the run table   *)
(* of StageRuns.                                                           *)
(*                                                                         *)
(* A handler is a sequence of awaits; each step below ends at one, and     *)
(* steps of different handlers interleave with PostgreSQL.  The default    *)
(* SQLite driver answers synchronously, so there a handler runs to its end *)
(* before the event loop takes another (Interleaved = FALSE).  A crash of  *)
(* the server ends all handlers where they are.                            *)
(***************************************************************************)
EXTENDS StageRuns

CONSTANTS
  Passings,     \* the passings that may happen: [gate, entry, at]
  Workers,      \* deliveries the broker handles at the same time
  Marshals,     \* those who assign and dismiss, each with one request at a time
  MaxFailures,  \* bound on failed queries, lost acknowledgements and crashes
  GateRestarts, \* a gate may restart and lose its in-memory queue
  DeskFails,    \* an assignment may fail between its two writes
  Interleaved   \* handlers interleave at their awaits (PostgreSQL)

VARIABLES
  made,       \* passings a gate has published
  outbox,     \* those not acknowledged, kept for redelivery
  stored,     \* passings with a DetectionEventRecord
  awaiting,   \* records with awaitingEntry
  processed,  \* records with processed
  aged,       \* records stored more than AWAIT_START_MS ago
  work,       \* what each worker, the sweep and each marshal is running
  batch,      \* what the running sweep still has to retry
  failures,   \* failures so far
  timed       \* history: the passings that have changed the run table

\* The abstract specification, over the same run table and the passings that
\* have changed it.
Keeper == INSTANCE TimeKeeping WITH Passings <- Passings, timed <- timed
NoCar == "unidentified"

ASSUME DetectionsAssumption ==
  /\ Keeper!PassingsAssumption /\ NoCar = Keeper!NoCar
  /\ {"sweep", "desk"} \cap (Workers \cup Marshals) = {} /\ Workers \cap Marshals = {}
  /\ MaxFailures \in Nat
  /\ {GateRestarts, DeskFails, Interleaved} \subseteq BOOLEAN

pipe == <<made, outbox, stored, awaiting, processed, aged, work, batch, failures>>
all == <<pipe, timed, vars>>

Handlers == Workers \cup {"sweep"} \cup Marshals
Idle == [step |-> "idle"]
Steps == {"check", "insert", "rules", "await", "mark"}
DeskSteps == {"assign", "save", "dismiss"}

DetectionsTypeOK ==
  /\ made \subseteq Passings /\ outbox \subseteq made /\ stored \subseteq made
  /\ awaiting \subseteq stored /\ processed \subseteq stored /\ aged \subseteq stored
  /\ work \in [Handlers -> {Idle}
       \cup [step : Steps, passing : Passings, listed : BOOLEAN]
       \cup [step : DeskSteps, passing : Passings, entry : Entries, done : BOOLEAN]]
  /\ batch \subseteq [passing : stored, listed : BOOLEAN]
  /\ failures \in 0 .. MaxFailures
  /\ timed \subseteq stored

-----------------------------------------------------------------------------
(* The gate *)

\* publishDetection.
Pass(p) ==
  /\ p \notin made
  /\ made' = made \cup {p} /\ outbox' = outbox \cup {p}
  /\ UNCHANGED <<stored, awaiting, processed, aged, work, batch, failures, timed, vars>>

\* A Pi's queue is in memory: a restart drops what is not acknowledged.
RestartGate ==
  /\ GateRestarts /\ outbox # {}
  /\ outbox' = {}
  /\ UNCHANGED <<made, stored, awaiting, processed, aged, work, batch, failures, timed, vars>>

-----------------------------------------------------------------------------
(* Handlers *)

At(h, step) == work[h].step = step
Subject(h) == work[h].passing
Goto(h, step) == work' = [work EXCEPT ![h].step = step]
Return(h) == work' = [work EXCEPT ![h] = Idle]
FailOnce == failures < MaxFailures /\ failures' = failures + 1

\* The handler returned, so the broker sends the PUBACK; it may get lost.
Acknowledge(h) ==
  \/ /\ outbox' = IF h \in Workers THEN outbox \ {Subject(h)} ELSE outbox
     /\ UNCHANGED failures
  \/ h \in Workers /\ UNCHANGED outbox /\ FailOnce

\* Unless Interleaved, nothing runs while another handler is under way.
Runs(h) ==
  \/ Interleaved
  \/ /\ \A o \in Handlers \ {h} : work[o] = Idle \/ At(o, "check")
     /\ h = "sweep" \/ batch = {}

\* The record as a handler read or wrote it, awaitingEntry included; its last
\* step saves the whole of it.
Record(p) == [passing |-> p, listed |-> p \in awaiting]

\* Sent, or sent again while an earlier copy may still be in a handler.
Deliver(w, p) ==
  /\ p \in outbox /\ work[w] = Idle
  /\ work' = [work EXCEPT ![w] = [step |-> "check", passing |-> p, listed |-> FALSE]]
  /\ UNCHANGED <<made, outbox, stored, awaiting, processed, aged, batch, failures, timed, vars>>

\* Mutant: the rules run before the record is stored.
CheckThenTime(h) ==
  /\ At(h, "check")
  /\ IF Subject(h) \in stored THEN Return(h) /\ Acknowledge(h)
                               ELSE Goto(h, "rules") /\ UNCHANGED <<outbox, failures>>
  /\ UNCHANGED <<made, stored, awaiting, processed, aged, batch, timed, vars>>

\* isDuplicate.
Check(h) ==
  /\ At(h, "check")
  /\ IF Subject(h) \in stored THEN Return(h) /\ Acknowledge(h)
                               ELSE Goto(h, "insert") /\ UNCHANGED <<outbox, failures>>
  /\ UNCHANGED <<made, stored, awaiting, processed, aged, batch, timed, vars>>

\* A passing no car is known for waits for a marshal if its gate is live.
MustWait(p) == p.entry = NoCar /\ status = "ACTIVE"

\* Mutant: save() instead of insert() writes over the record that won.
InsertOver(h) ==
  LET p == Subject(h) IN
  /\ At(h, "insert")
  /\ stored' = stored \cup {p} /\ processed' = processed \ {p}
  /\ awaiting' = IF MustWait(p) THEN awaiting \cup {p} ELSE awaiting
  /\ work' = [work EXCEPT ![h] = [step |-> "rules", passing |-> p, listed |-> MustWait(p)]]
  /\ UNCHANGED <<made, outbox, aged, batch, failures, timed, vars>>

\* The insert: of two copies the primary key lets one through.
Insert(h) ==
  LET p == Subject(h) IN
  /\ At(h, "insert")
  /\ IF p \in stored
     THEN Return(h) /\ Acknowledge(h) /\ UNCHANGED <<stored, awaiting>>
     ELSE /\ stored' = stored \cup {p}
          /\ awaiting' = IF MustWait(p) THEN awaiting \cup {p} ELSE awaiting
          /\ work' = [work EXCEPT ![h] =
                        [step |-> "rules", passing |-> p, listed |-> MustWait(p)]]
          /\ UNCHANGED <<outbox, failures>>
  /\ UNCHANGED <<made, processed, aged, batch, timed, vars>>

\* applyRules.  A finish or split that changes nothing goes on to ask whether
\* the car has a run at all.
Rules(h) ==
  LET p == Subject(h)
      changes == p.entry # NoCar /\ Keeper!Changes(p, p.entry)
      mayWait == /\ p.entry # NoCar /\ status = "ACTIVE" /\ InEvent(p.entry)
                 /\ p.gate \in {"finish"} \cup SplitGates
  IN
  /\ At(h, "rules")
  /\ IF changes
     THEN Keeper!Apply(p, p.entry) /\ timed' = timed \cup {p} /\ Goto(h, "mark")
     ELSE /\ Goto(h, IF mayWait THEN "await" ELSE "mark")
          /\ UNCHANGED <<timed, vars>>
  /\ UNCHANGED <<made, outbox, stored, awaiting, processed, aged, batch, failures>>

\* Mutants: a finish without a run is given up at once, or waits for ever.
AwaitNothing(h) ==
  /\ At(h, "await")
  /\ Goto(h, "mark")
  /\ UNCHANGED <<made, outbox, stored, awaiting, processed, aged, batch, failures, timed, vars>>

AwaitForever(h) ==
  /\ At(h, "await")
  /\ IF HasRun(Subject(h).entry)
     THEN Goto(h, "mark") /\ UNCHANGED <<outbox, failures>>
     ELSE Return(h) /\ Acknowledge(h)
  /\ UNCHANGED <<made, stored, awaiting, processed, aged, batch, timed, vars>>

\* awaitsStart: without any run, and not yet aged, the record stays pending.
Await(h) ==
  /\ At(h, "await")
  /\ IF HasRun(Subject(h).entry) \/ Subject(h) \in aged
     THEN Goto(h, "mark") /\ UNCHANGED <<outbox, failures>>
     ELSE Return(h) /\ Acknowledge(h)
  /\ UNCHANGED <<made, stored, awaiting, processed, aged, batch, timed, vars>>

\* save(record) writes the awaitingEntry this handler read along with processed.
Mark(h) ==
  /\ At(h, "mark")
  /\ processed' = processed \cup {Subject(h)}
  /\ awaiting' = IF work[h].listed THEN awaiting \cup {Subject(h)} ELSE awaiting
  /\ Return(h) /\ Acknowledge(h)
  /\ UNCHANGED <<made, stored, aged, batch, timed, vars>>

Step(h) == Runs(h) /\ (Check(h) \/ Insert(h) \/ Rules(h) \/ Await(h) \/ Mark(h))

\* Mutant: a failed insert is acknowledged like a failed rule.
FailAcknowledged(h) ==
  /\ work[h] # Idle
  /\ FailOnce
  /\ Return(h)
  /\ outbox' = outbox \ {Subject(h)}
  /\ UNCHANGED <<made, stored, awaiting, processed, aged, batch, timed, vars>>

\* A query fails.  Before the insert the error reaches the broker, which does
\* not acknowledge; after it, it is caught and the record stays pending.  A
\* marshal is told.
Fail(h) ==
  /\ work[h] # Idle /\ (At(h, "save") => DeskFails)
  /\ FailOnce
  /\ Return(h)
  /\ outbox' = IF h \in Workers /\ work[h].step \notin {"check", "insert"}
               THEN outbox \ {Subject(h)} ELSE outbox
  /\ UNCHANGED <<made, stored, awaiting, processed, aged, batch, timed, vars>>

-----------------------------------------------------------------------------
(* The sweep: every 30 s, and when a marshal asks for it *)

SweepStart ==
  /\ At("sweep", "idle") /\ batch = {} /\ stored # processed
  /\ batch' = {Record(p) : p \in stored \ processed}
  /\ UNCHANGED <<made, outbox, stored, awaiting, processed, aged, work, failures, timed, vars>>

Oldest(r) == r \in batch /\ \A o \in batch : r.passing.at <= o.passing.at
Retry(r, listed) ==
  /\ batch' = batch \ {r}
  /\ work' = [work EXCEPT !["sweep"] =
                [step |-> "rules", passing |-> r.passing, listed |-> listed]]

\* Oldest first by the gate's time, from the list read at the start.
SweepNext(r) ==
  /\ At("sweep", "idle") /\ Oldest(r) /\ Retry(r, r.listed)
  /\ UNCHANGED <<made, outbox, stored, awaiting, processed, aged, failures, timed, vars>>

\* AWAIT_START_MS since the record arrived.
Age(p) ==
  /\ p \in stored \ aged
  /\ aged' = aged \cup {p}
  /\ UNCHANGED <<made, outbox, stored, awaiting, processed, work, batch, failures, timed, vars>>

\* The server process ends and starts again; the database stays.
Crash ==
  /\ FailOnce /\ ((\E m \in Marshals : At(m, "save")) => DeskFails)
  /\ work' = [h \in Handlers |-> Idle] /\ batch' = {}
  /\ UNCHANGED <<made, outbox, stored, awaiting, processed, aged, timed, vars>>

-----------------------------------------------------------------------------
(* Marshals *)

\* findAwaitingOrThrow; the record is saved at the end as it was read here.
Ask(m, p, e, step) ==
  /\ work[m] = Idle /\ p \in awaiting
  /\ work' = [work EXCEPT ![m] =
       [step |-> step, passing |-> p, entry |-> e, done |-> p \in processed]]
  /\ UNCHANGED <<made, outbox, stored, awaiting, processed, aged, batch, failures, timed, vars>>

\* The run startRun hands back instead of a new one: the open run, the last
\* finished one, or on a counted stage a DNF.
HandedBack(e) ==
  IF OpenRuns(e) # {} THEN OpenRuns(e)
  ELSE IF FinishedRuns(e) # {}
       THEN {r \in FinishedRuns(e) : \A s \in FinishedRuns(e) : s.finish <= r.finish}
  ELSE DoneRuns(e)

\* The rules change nothing and still report the passing as timed: the run or
\* split they hand back has its time already.
TimedAlready(p, e) ==
  /\ status = "ACTIVE" /\ InEvent(e)
  /\ \/ p.gate = "start" /\ \E r \in HandedBack(e) : r.start = p.at
     \/ p.gate = "combined" /\ OpenRuns(e) = {}
        /\ \E r \in HandedBack(e) : p.at \in {r.start, r.finish}
     \/ \E r \in OpenRuns(e), s \in splits :
          /\ s.entry = e /\ s.attempt = r.attempt /\ s.gate = p.gate
          /\ s.at = p.at /\ p.at > r.start

\* assignEntry applies the rules, and refuses a passing they do not report as
\* timed.
AssignRules(m) ==
  LET p == Subject(m)
      e == work[m].entry
  IN
  /\ At(m, "assign")
  /\ \/ /\ Keeper!Changes(p, e) /\ Keeper!Apply(p, e)
        /\ timed' = timed \cup {p} /\ Goto(m, "save")
     \/ /\ ~Keeper!Changes(p, e) /\ UNCHANGED <<timed, vars>>
        /\ IF TimedAlready(p, e) THEN Goto(m, "save") ELSE Return(m)
  /\ UNCHANGED <<made, outbox, stored, awaiting, processed, aged, batch, failures>>

\* Mutant: the passing stays on the list.
AssignSaveKeepsListed(m) ==
  /\ At(m, "save")
  /\ processed' = processed \cup {Subject(m)}
  /\ Return(m)
  /\ UNCHANGED <<made, outbox, stored, awaiting, aged, batch, failures, timed, vars>>

\* The transaction that saves the record and the change log.
AssignSave(m) ==
  /\ At(m, "save")
  /\ awaiting' = awaiting \ {Subject(m)} /\ processed' = processed \cup {Subject(m)}
  /\ Return(m)
  /\ UNCHANGED <<made, outbox, stored, aged, batch, failures, timed, vars>>

\* dismissAwaiting, with processed as it was read.
Dismiss(m) ==
  /\ At(m, "dismiss")
  /\ awaiting' = awaiting \ {Subject(m)}
  /\ processed' = IF work[m].done THEN processed ELSE processed \ {Subject(m)}
  /\ Return(m)
  /\ UNCHANGED <<made, outbox, stored, aged, batch, failures, timed, vars>>

DeskStep(m) == Runs(m) /\ (AssignRules(m) \/ AssignSave(m) \/ Dismiss(m))

ActivateStage == Activate /\ UNCHANGED <<pipe, timed>>

\* discardPassingsOfClosedStage, for a stage that ran.
CloseStage ==
  /\ Close
  /\ awaiting' = IF status = "ACTIVE" THEN {} ELSE awaiting
  /\ UNCHANGED <<made, outbox, stored, processed, aged, work, batch, failures, timed>>

RedFlag ==
  /\ \E r \in runs : VoidRun(r) \/ MarkDnf(r)
  /\ UNCHANGED <<pipe, timed>>

-----------------------------------------------------------------------------
DetectionsInit ==
  /\ Init
  /\ made = {} /\ outbox = {} /\ stored = {} /\ awaiting = {} /\ processed = {}
  /\ aged = {} /\ batch = {} /\ timed = {} /\ failures = 0
  /\ work = [h \in Handlers |-> Idle]

Pipeline ==
  \/ RestartGate \/ Crash \/ (Runs("sweep") /\ SweepStart)
  \/ \E r \in batch : SweepNext(r)
  \/ \E p \in Passings : \/ Pass(p) \/ Age(p)
                         \/ \E w \in Workers : Deliver(w, p)
  \/ \E h \in Handlers : Step(h) \/ Fail(h)

\* A dismissal names no car.
Requests ==
  \E m \in Marshals, p \in Passings :
    \E e \in Entries : Ask(m, p, e, "assign") \/ Ask(m, p, e, "dismiss")

Desk == ActivateStage \/ CloseStage \/ Requests

DetectionsNext ==
  \/ Pipeline \/ \E m \in Marshals : DeskStep(m)
  \/ Runs("desk") /\ (Desk \/ RedFlag)

\* Handlers go on, gates send what is not acknowledged, the timer fires and
\* time passes.  Failures are bounded, so they end.
Progress ==
  /\ WF_all(\E h \in Handlers : Step(h))
  /\ WF_all(\E w \in Workers, p \in Passings : Deliver(w, p))
  /\ WF_all(\E p \in Passings : Age(p))
  /\ WF_all(Runs("sweep") /\ SweepStart)
  /\ WF_all(\E r \in batch : SweepNext(r))

DetectionsSpec == DetectionsInit /\ [][DetectionsNext]_all

\* A stage as it is meant to go: every car is registered, gates report from
\* the activation on, and marshals assign, dismiss and close, but void nothing
\* and mark no DNF while passings are under way.
RunningInit == DetectionsInit /\ crew = [e \in Entries |-> "in"]

RunningNext ==
  IF status = "NOT_STARTED" THEN Runs("desk") /\ ActivateStage
  ELSE \/ Pipeline \/ \E m \in Marshals : DeskStep(m)
       \/ Runs("desk") /\ Desk

RunningSpec == RunningInit /\ [][RunningNext]_all /\ Progress

-----------------------------------------------------------------------------
(* Properties *)

\* A passing a gate saw is still in its queue or in the database, whatever
\* query fails, acknowledgement is lost or server crashes; only a restart of
\* the gate itself may lose one.
NoPassingLost == GateRestarts \/ made \subseteq outbox \cup stored

\* A second copy of a passing, redelivered or still in a handler, never undoes
\* what was settled: processed stays, and a passing assigned or dismissed is
\* not listed again.
SettledStays ==
  [][/\ processed \subseteq processed'
     /\ awaiting' \ awaiting \subseteq stored' \ stored]_all

\* The pipeline implements TimeKeeping: redelivery, retries, crashes between
\* the rules and the record, and a sweep beside the ingest change the run table
\* at most once per passing, and only as one application of the rules.
TimesEachPassingOnce == Keeper!TimeSpec

\* The gate's queue, the broker and the ingest keep what a gate announces at
\* least until it is stored, whatever query fails, acknowledgement is lost or
\* server crashes; only a restarting gate loses what nobody has.
Gate == INSTANCE AtLeastOnce WITH
  Items <- Passings, promised <- made, kept <- outbox, received <- stored,
  lost <- IF GateRestarts THEN made \ (outbox \cup stored) ELSE {}
DeliversAtLeastOnce == Gate!LedgerSpec

\* Every passing is settled in the end: none stays pending for good.
EveryPassingSettled ==
  \A p \in Passings : p \in made ~> p \in processed

\* A finish that waits for its start is not given up before its time: while a
\* run it could finish is open, a record marked processed was timed or aged.
NoFinishMissed ==
  \A p \in processed \ (timed \cup aged) :
    (p.gate = "finish" /\ p.entry # NoCar) => ~MayFinish(p.entry, p.at)

\* No start passing opens two runs of a car.
OneRunPerStart ==
  \A r, s \in runs : (r.entry = s.entry /\ r.start = s.start) => r = s
=============================================================================

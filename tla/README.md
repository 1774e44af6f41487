# A verification project for Rally Gate

Rally Gate times RC-car rallies: gates at the start, the splits and the finish of a
stage report passings over MQTT, a NestJS server turns them into runs, marshals
correct, void, complete and close what the gates could not see, and results follow from
the run table. The TLA+ modules here model that path from the beam and the transponder
to the overall: the two kinds of gate, their pairing, the ingest of passings, the run
table, stages and the rally day, results and penalties, and the event files. TLC checks
them on small instances; TLAPS proves every safety property of these runs for all.

Contents: 1 the system, 2 the modules, 3 the runs, 4 fairness, 5 the proofs,
6 where code and documentation disagree, 7 what is left out, 8 the plan.
`PROJECT.json` maps every definition to its source lines and lists hazards, runs,
findings, theorems, and for every property a mutation of the code that breaks it.

To reproduce a run: `tlc -config counted_gate.cfg MCStageRuns` (section 3 names the
module of each); the proofs: `tlapm` on each of the eight `...Proofs.tla` modules.

## 1. The system

`RS/` stands for `src/apps/rally-server/src/modules/`.

| Component | State | Operations | Must be correct |
|---|---|---|---|
| **Stage runs** `RS/stage-runs` | `stage_run`, `stage_split`, `did_not_start` | gate start/finish/split, slots (countdown, New slot, Delay, cancel), hand-timed runs and corrections, void and restore, DNF, DNS, delete | one counting run per car, times that agree, no orphans, nothing open after closing |
| **Detections** `RS/events` | `detection_event_record` (`processed`, `awaitingEntry`) | ingest, duplicate check, rule engine, retry sweep, assign, dismiss, discard | no passing lost, none timed twice, each settled in the end |
| **Uplink and broker** `src/apps/gate/src/agent/uplink.ts`, `RS/broker` | outgoing QoS 1 queue, persistent session | publish, redeliver, acknowledge | acknowledged only when stored |
| **Stages** `RS/stages` | `stage` (status, start mode, first start, frozen list) | create, edit, delete, activate, close | closing is final, deletion leaves no history behind |
| **Gate assignments** `RS/gates/gate-assignments.service.ts` | `gate_assignment` | assign, remove, switch between stages | a passing has one meaning |
| **Rally status** `RS/rally-info` | SETUP, RUNNING, CLOSED | start, close, reopen | nothing runs in a closed rally, nobody is stranded by closing |
| **Start order** `RS/start-order` | frozen list of a stage | freeze, unfreeze, freeze on activation, slot times | a posted list does not change |
| **Entries** `RS/entries` | crews, start numbers, transponders | register, withdraw, disqualify | late crews are placed behind the posted list |
| **Gates and clocks** `RS/gates/gates.service.ts` | last heartbeat, clock offset | heartbeat, correction of passing times | a time is corrected by its own offset |
| **Gate pairing** `RS/gates/gate-pairing.service.ts` | pairing window, waiting list, approved keys | open, log in, accept, reject | only an approved gate connects, each approved gate gets in |
| **Classification** `RS/classification` | none of its own | rank stage, class and overall; notional times | order by what the run table says; a verdict moves only whom it should |
| **Penalties** `RS/penalties` | penalties, penalty types | give, remove, edit and remove types, price | offences cost their number, whatever their order |
| **Gate agent** `src/apps/gate` | passing matcher of beam and transponder reads | pair, drop, publish | a read belongs to one beam break, a verdict stands |
| **ESP32 gate** `src/firmware/esp32-gate` | flash buffer, slots in flight, clock | buffer, replay, resolve times after sync | a beep is a promise; a time of day is never invented |
| **Event files** `RS/event-files`, `src/apps/rally-server/src/config` | folder of databases, pointer | create, open, import, delete, restart | the open event is never replaced |
| Change log, auth, live feed, discovery, lobby, NTP, settings, web app | audit rows, sessions | | outside the timing questions |

**Interactions.** A gate publishes a passing to the broker (a persistent session, QoS 1).
The broker hands it to `EventsService` and sends the acknowledgement when the handler
returns. The handler stores a record, asks the gate's active assignment which stage and
role the passing belongs to, and calls `StageRunsService`, which writes the run table.
Marshals call the same services through REST. Activating a stage goes through
`StagesService`, `GateAssignmentsService` (which switches gates and says which stages
lose one), `StageRunsService` (timetable runs) and `StartOrderService` (freezing);
closing goes through the first two and `writeClose`. `RallyStatusService` closes every
active stage and then the rally. `ClassificationService` and `StartOrderService` read the
run table, entries and penalties and store nothing. A gate's first login goes through
`GatePairingService`; switching to another event restarts the process.

**What is hard.**
- Each `await` in a handler is a point where another may run. Whether it does depends on
  the database. The default driver, better-sqlite3, answers synchronously: one handler's
  chain of promises runs to its end before the event loop turns to the next request.
  With `DB_TYPE=postgres` (`src/apps/rally-server/src/config/database.config.ts`) every
  query is a round trip and handlers interleave at each. The modules have this as a
  constant, `Interleaved`. (Two handlers that begin in one turn of the event loop can
  mix with SQLite too; the modules count this under `Interleaved = TRUE`.)
- Delivery is at least once, in any order, and possibly hours late: a gate replays its
  queue when it is back on Wi-Fi. Finishes arrive before their starts.
- The server can end between any two writes; only some sequences are transactions.
- A passing changes the run table before its record says so, so that every retry has to
  be harmless.
- Marshals void, restore, undo and re-run in any order, while gates go on reporting.
- Times come from gate clocks, the server clock and keyboards; nothing orders them.
- An ESP32 loses power with detections in flash, some of them without a time of day, and
  gets its acknowledgements on another task.
- Transponder reads come later than the beam edges they belong to.

## 2. The modules

    PassingMatcher - PassingMatcherProofs   a Pi gate: which read belongs to which edge
    Esp32Uplink -- Esp32UplinkProofs     an ESP32 gate: buffer, slots, clock
       |  implements
       v
    AtLeastOnce                          what any gate promises (abstract)
       ^  implemented by
    Detections --- DetectionsProofs      gate, broker, ingest, rules, sweep, marshals
       |  |                              (extends StageRuns: rules write that run table)
       |  v  implements
       |  TimeKeeping                    what timing a passing promises (abstract)
       |
    StageRuns ---- StageRunsProofs       the run table of one stage
    StageLifecycle - StageLifecycleProofs   stages, gates, start lists and the rally
    PenaltyPricing - Results - ResultsProofs   prices; rankings, totals, start lists
    GatePairing ---- GatePairingProofs   keys, windows, logins
    EventFiles ----- EventFilesProofs    the folder of events and the restarts

Each `MC...` module instantiates the module of its name for TLC: model values,
scenarios, symmetry.

### StageRuns
One stage. `runs` holds the rows of `stage_run` as records: `entry`, `attempt`, `run`
(the run number, always 1 on a counted stage), `start`, `finish`, `duration`, `slot`
(`plannedStartTime`), `passed` (`startPassingAt`), `voided`, `dnf`. `splits`, `dns`,
`crew`, `status` and `firstStart` stand for the other tables and columns.
Every writer of the table in the services is an action with the same name or the name
of the call that reaches it: `PassStart`, `PassFinish`, `PassStartFinish` and `PassSplit` for the rule
engine, `QueueSlot`, `NewSlot`, `DelaySlots`, `CancelCountdown`, `CreateManual`,
`CorrectRun`, `FinishNow`, `VoidRun`, `UnvoidRun`, `MarkDnf`, `UndoDnf`, `MarkDns`,
`UndoDns`, `Remove`, `Register`, `SetInEvent`, `Activate`, `Close`.
Every time a handler gets is any member of `Times`, so no property rests on clocks that
agree or on calls that come in the order of their times.
Handlers are whole steps, as they are with SQLite. The database's two partial unique
indexes are only assumed where the code relies on them (`CreateManual`, `CorrectRun`);
elsewhere the handlers' own checks must suffice, and `OneCountingRun` says they do.
Constants choose the start mode, scoring (`Shakedown` is `NONE`), gates, the posted
list, and the intervals of slots.

### TimeKeeping and Detections
`TimeKeeping` is the promise: the run table changes by timing a passing, whole and at
most once, or by a marshal. It knows no gates, queues, workers, records or crashes.

`Detections` is the code: `Pass` publishes, `Deliver` hands a message to one of
`Workers`, and a handler is a chain of steps at its awaits: `Check` (`isDuplicate`),
`Insert`, `Rules` (`applyRules`, one call into the run table), `Await` (`awaitsStart`,
the second query of a finish that found no run), `Mark` (`save(record)`). The sweep reads
a list (`SweepStart`), then retries it record by record, oldest first (`SweepNext`).
`Fail` is a failed query: before the insert it reaches the broker and the message stays
with the gate; after it, it is caught. `Crash` ends all handlers, `RestartGate` empties a
Raspberry Pi's in-memory queue, a lost acknowledgement leaves the message in `outbox`.
A record in a handler or a batch remembers the `awaitingEntry` it was read with, because
`save` writes it back. A marshal's request is such a chain too: `Ask` (the record is
read), then `AssignRules` (the run table) and `AssignSave`, or `Dismiss`. The rules accept a
passing also when they change nothing but the run or split they hand back has its time
already (`TimedAlready`), and refuse it otherwise. `DeskFails` lets the save
of an assignment fail after its rules ran. `timed` is a history variable: the passings
that have changed the run table.

Two abstract specifications are implemented: `TimesEachPassingOnce` is the refinement of
`TimeKeeping` (with `timed`), and `DeliversAtLeastOnce` that of `AtLeastOnce`: what was
published is promised, `outbox` is what the gate keeps, `stored` what the server has.

### StageLifecycle
Several stages, their assignments (`plan`, with `live` those active), frozen lists
(`order`), the rally's status and, of the run table, each car's `standing`. Requests of
several queries are chains of steps: activation is `AskActivate` (its checks), `Conflicts`,
`Switch` (the transaction over the gates), `CloseBegin`/`CloseWrite` for each stage that
lost a gate, `Save`, `FreezeOnActivation`; closing the rally is `AskCloseRally`, `Count`,
the closes, `EndRally`; unfreezing is `AskUnfreeze`, `Thaw`. `Save` and `CloseWrite`
write the row as it was read. Crashes stop a request anywhere.

### PenaltyPricing and Results
`Prices` is `pricePenalties`: penalties sorted by stage and time given, and a counter per
crew, type and, where offences count per stage or outside the overall, stage. `Results`
has what can change a result: `status` of stages, `rally`, `time` (each crew's counting
time per stage), `entryStatus`, `penalties` and `types`. Its actions are what changes them (`Drive`,
`Correct`, `VoidTime`, `SetEntryStatus`, `GivePenalty`, `RemovePenalty`, `UpdateType`,
`RemoveType`, and the steps of stages and rally); rankings are operators:
`StageTimes`, `Notional`, `Charged`, `Overall`, and for the start list `TimesFor`,
`StartsBefore`, `StartList`. A view is the set of crews a class filter leaves, and the
rankable crews and slowest times are worked out inside it, as in the code. Both
sorts are `Sorted`, which puts each member of a set at the place its relation leaves it; the
`SortSeq` of the standard modules is opaque to the prover.

### GatePairing
The server's `keys` (the only part on disk), `waiting` list, `rejected` set and `window`;
of each gate its own `key`, whether it was told to send it (CONNACK 4), and the key of
its `login`. One attempt of a gate is `Connect`, `RefusedToken` or `RefusedKey`,
by what the server answers. `Restart` is a restart of the gate, with or without a new
identity. `approved` is history.

### Esp32Uplink
`Tap` beeps once the detection is in `flash` and does nothing when it is full.
`HandleAcks` is the top of `uplinkTick`; `Flush(d, pin)` one round of its loop, which
publishes a detection into a free slot, or has the publish refused. A time it has just worked
out (`Pins`) it first writes to the file, opened with `"w"`, the only copy there is: `pin` says whether the
file was written, not opened, or left short, none of which the code looks at, and the message is
sent from RAM all the same. `Deliver`, `DeliverUnacked` and `OutboxExpires` are esp-mqtt and the broker,
`MqttDown` and `PowerCut(torn)` the faults; `torn` is the file being written when the power
goes, a new tap's or one whose time is being pinned. `DeleteUnreadable` deletes what was left
short, whoever left it so. Message ids come from `Ids` and are reused
when nothing has them any more. A detection keeps its boot and its
monotonic time; the time it is sent with is worked out once its boot has synced.

What the beep promises is therefore not kept for every tap. `KeepsItsPromise` says what is:
a tap taken with the clock set is lost only when a marshal clears it, because its file is
never written again; one from before the sync may also be lost to the rewrite (`spoilt`), and
to nothing else. `pin_cut` (section 6) is the counterexample to the unconditional promise.

### PassingMatcher
Integer time; `Edge` and `OverLoop` produce, `Report` hands over a read up to `Lag`
late, `Flush` hands out what the code considers settled, `Stop` the rest. What goes out is what
the matcher's `flush` emits; the adapter's own filter behind it is left out. `SettledVerdictsStand`
compares what was sent with the pairing rule over all edges and reads there ever were.

### EventFiles
Requests that await are in progress until their last step (`CreateBegin`, `CreateBuild`,
`CreateFinish`; `ImportBegin`, `ImportPlace`), `Open` and `Delete` are single steps,
`Restart` and `Crash` end all. A file's content is the number of the write that made it,
so that "the open event is never replaced" can be said.

## 3. The runs

All are exhaustive for their bounds; "Deadlock" is off where the system may stop (a
closed stage with no times or attempts left, a finished set of passings).

| Run | Instance | Shows |
|---|---|---|
| `counted_gate` (MCStageRuns) | one car, two attempts, times 1..3, a split gate | type, index, time and split invariants; passings change only open runs; what closing accounts for; what a closed stage opens no more |
| `countdown_queue` (MCStageRuns) | two cars, slots with gap 2, times 1..5 | queued slots a gap apart; slots of cars that left |
| `timetable` (MCStageRuns) | one posted and one late crew at a combined gate, first start 2, times 1..4 | no slot comes forward, and waiting crews stay an interval apart, under Delay, New slot, registration, activation and a start typed in |
| `redelivery` (MCDetections) | start and finish of one car on a shakedown, two workers, a failure or crash, PostgreSQL | the refinement of `AtLeastOnce`, what is settled stays settled, and every published passing is processed in the end |
| `beam` (MCDetections) | light barriers and a known car at the finish, two cars to assign to, gate restarts, two failures, SQLite | the refinement of `TimeKeeping` with redelivery, retries and marshals; no finish is given up while a run it could end is open |
| `rally_day` (MCStageLifecycle) | two stages sharing a gate, one car, one crash, SQLite | one stage per gate, closing is final, posted lists stay, closing the rally strands nobody |
| `results` (MCResults) | three crews, two classes, one qualifying and two counted stages, two times, two penalties, three records | whom a withdrawal, a disqualification, a slower time and a penalty move; the start list follows the results beside it |
| `gate_pairing` (MCGatePairing) | three gates, a list of two, two identities, one server restart | who gets in, who stays out, and that who is accepted gets in for good |
| `esp32_uplink` (MCEsp32Uplink) | two taps, one slot, an acknowledgement queue of one, two boots, one incident | what a beep promises (`AtLeastOnce`) although the rewrite of a file may fail or be cut off, known times are true, the buffer drains |
| `passing_matcher` (MCPassingMatcher) | two cars, three edges, window and lag 2, time to 13 | a verdict that went out stands; nothing goes out twice or not at all |
| `event_files` (MCEventFiles) | three names, two requests, four writes | the open event keeps its file and its content |
| `closed_rally_results` (MCResults) | as `results` | a counterexample, section 6 |

The bounds are small because the hazards are: two copies of a passing, two attempts of a
car (a void or DNF and its re-run), two stages on one gate, one crash between two
writes, three times (a start, a time before and one after); four or five times on slot
stages, so that two gaps, a delay and a voided slot fit; `timetable` starts its list at 2 so
that a delay can find the posted slot still ahead. In `results` three crews are a
withdrawn or disqualified one, the one it would be the measure of, and a third to move; times
1 and 4 with a notional penalty of 1 make being charged different from being slow. In
`gate_pairing` the list is shorter than the number of gates, so that a gate is refused
for a full list. One slot and a queue of one make the ESP32's limits bite at two taps.
Two cars, three edges and a window as wide as the lag are the least in which an edge is
near two reads and a read near two edges; time goes on until all of them have settled.
Symmetry is used for cars that are interchangeable (in `countdown_queue` the start number
is not read), for marshals and for files, and never with liveness.

The other kept configurations end in counterexamples (section 6).

Some interleavings are beyond the instance of the run that checks the property: `beam` and
`rally_day` are SQLite runs, in which requests do not overlap, and no run of `Detections` has
a combined gate. Where they break a property, section 6 has the configuration; `PROJECT.json`
says so at each hazard.

`redelivery` and `beam` use `RunningSpec`: the car is registered, gates report
from the activation on, and no run is voided or made DNF while its passings are under
way (section 6 says what happens otherwise). Where a property is checked with SQLite
only, section 6 has the configuration that breaks it on PostgreSQL.

## 4. Fairness

- `EveryPassingSettled` (`Progress` of `Detections`): handlers go on (promises are
  resolved), gates send what is not acknowledged (the MQTT client redelivers in a
  persistent session), the 30 s timer fires and its loop goes on, and ten minutes
  pass (`Age`). Each is weak fairness of all handlers, gates or records together, not of
  each one. Nothing is assumed of marshals. Failures are not fair and there are at most
  `MaxFailures`; a database that fails for ever settles nothing.
- `PairingLetsIn`: weak fairness of each gate's attempts (mqtt.js has
  `reconnectOnConnackError` and a period, esp-mqtt reconnects by itself). That pairing
  stays open, nobody is rejected any more, gates are left running and the organiser accepts
  whoever is listed is the property's hypothesis, not part of the specification: it is people's doing.
- `BufferDrains`: weak fairness of the sync, the reconnection and the acknowledgements
  (`uplinkTick` runs in every turn of the loop), and of the time-out of each tap's slot. Strong
  fairness of `Flush` and `Deliver` for each tap: they need a connection, which incidents
  may end again and again, and a free slot, which another tap may hold in between;
  `flush` goes through the buffer oldest first, so no tap is passed over for ever.
  Incidents and boots are bounded: a network that fails for ever delivers nothing.

## 5. The proofs

Every safety property of every passing run has a theorem, in eight modules; each theorem
holds for all constants that satisfy the module's assumption, and none uses fairness.
The assumptions on constants (`StageAssumption`, `DetectionsAssumption`, ...) say what
kind of thing a constant is, that a shakedown has no timetable, that intervals are
positive, start numbers unique and tiers in order, and that marshals, workers and the
sweep are different processes; TLC evaluates them in every run. Where a theorem needs
more it says so in its own ASSUME:

| Theorem | Assumes | Otherwise |
|---|---|---|
| `SlotsApartHolds` | slots not from a timetable | timetable slots are an interval apart when the stage is activated, and delayed one by one: the gap says nothing of them |
| `SettledStaysHolds` | SQLite, or that passings come with their cars | `relisted` |
| `TimesEachPassingOnceHolds` | SQLite, an assignment that does not fail between its two steps, no split gates on a shakedown, `RunningSpec` | `assigned_twice`, `assigned_half`, `retried_after_void`; a split of a shakedown is the latest run's, and a retried one may be that of the next run (1) |
| `NoFinishMissedHolds` | SQLite, a counted stage, `RunningSpec` | `finish_missed`; on a shakedown a car may start again, also by an earlier start that arrives late, after a finish that no run would take was given up (2) |
| `SettledVerdictsStandHolds`, `EveryItemGoesOutOnceHolds` | reads less than `READ_LAG_MS` late, with their own time | a later read finds its beam settled |
| the five of `StageLifecycleProofs` | SQLite | `gate_on_two_stages`, `reactivated`, `posted_list_lost`, `stranded` |

TLC finds (1) and (2) with `beam.cfg` and `Shakedown = TRUE` when `BeamRun` has, of one car,
(1) starts at 1 and 3, a finish at 2 and a split at 4, (2) starts at 1 and 3, finishes at
2 and 4.

### The run table
`StageRunsProofs` begins with `TableCorrect`: `Spec => []TableInvariant`, whose
consequences are `TypeCorrect`, `OneCountingRunHolds` and `TimesAgreeHolds`.

`TypeOK`, `OneCountingRun` and `TimesAgree` are not inductive alone. That a new attempt
does not collide needs that attempt numbers identify rows and that the run number is
the attempt on a shakedown and 1 on a counted stage; that a corrected or finished row
stays consistent needs that a DNF has no finish; that restoring or un-DNF-ing a run
keeps the indexes needs all of it. `TableInvariant` is the conjunction: every row is
good (`GoodRow`), rows have distinct keys, both indexes hold, and every variable has its
type. The argument is about tables, not handlers: a subset of a good table is good
(`SubTable`), so is one with a fresh row (`AddedRow`), one with a row replaced by a good
one with the same key (`ReplacedRow`, `NarrowedRow`) and one with all rows rewritten at
once (`RewrittenRows`, for closing and Delay). Each handler is then a lemma that says
which of these it is, and `Next` is split into the four groups of actions.

From the table's invariant follow the action properties:

- `NoOrphanSplitHolds`: no split outlives its run. A handler that keeps the key of every
  row (`RowsStay`) cannot orphan a split; `deleteRecorded` takes the splits along; DNS and
  the close delete without looking for splits to delete, and are safe because they choose
  rows that have none (`SplitlessDeleted`).
- `PassingsTimeOnlyOpenRunsHolds`: a handler of passings replaces a row only while it is
  open, or writes only its `passed`.
- `ClosingAccountsForEveryCarHolds`: only the close handler closes (`OnlyClose`), and it
  leaves a verdict for every run and, on a counted stage, every crew in the event.
- `ClosedStageOpensNothingHolds`, `LeftSlotStaysHolds`, `NeverDueEarlierHolds`,
  `WaitingCrewsStayApartHolds` and `SlotsApartHolds` share one lemma per handler: each keeps to
  `RowLaw`. Of every row after a step the law says that it is either `Fresh` (a new
  attempt, and a slot a gap behind all others) or `Follows` an old one (same key; a slot that
  does not come forward, nor moves once the car has left; evidence that only gets earlier;
  not opened on a closed stage), and that a row with evidence goes only by `deleteRecorded`.
  The five properties are what the law means for two rows at a time.
  `WaitingCrewsStayApartHolds` needs more: `Reslotting`, how New slot and Delay move slots
  (`NewSlotSpaced`: behind all; `DelaySpaced`: Delay moves all that are ahead by one amount and
  leaves those that are over), and that a stage which has not started has no slots yet (`NoSlotsYet`),
  so that activation lays out start numbers at places an interval apart (`PlacesSpaced`). The
  property excepts two acts: activating a running stage again, which lays out new slots
  beside those already delayed, and a row that comes back into the line (restored, its
  DNF undone, or its finish cleared) at the slot it had. TLC finds it violated without
  either exception.

### Passings
`DetectionsProofs` proves `DetectionsTyped`, `NoPassingLostHolds` and
`DeliversAtLeastOnceHolds` on either database. The invariant is `PipeInv`: besides the
types, that a handler past the insert works on a stored passing (`HandlersInv`), since only
such a handler lets the broker acknowledge. Every step is then one of few kinds for the
promise: it changes nothing of it (`QuietSteps`), stores (`IngestSteps`), or forgets what is
stored (`AcknowledgingSteps`, `ReleasingSteps`). What the rules do to the run table plays
no part.

`SettledStaysHolds` needs that the flag a handler, or the sweep, read of a record is still
that of the record when it saves the whole of it (`AsRead`). With SQLite this is so because
one request is under way at a time (`Alone`); with PostgreSQL it is not, but as long as every
passing comes with its car nothing is ever on the list (`OnlyUnknownCars`: what is listed,
and every copy of it, is of unknown cars), and the flag is always FALSE.

`TimesEachPassingOnceHolds` is the refinement of `TimeKeeping`: every step of the pipeline
times one passing, is a marshal's change, or changes nothing of the run table and of
`timed`. The difficult case is a passing that comes to the rules a second time, after a crash
or a failed `save`: the rules must find nothing to do. `Evidence` says what a timed passing left in the
table, its time in the role of its gate; `RowsLast` that no step of a running stage takes it
away; and in a table with evidence the rules change nothing. `RunningTable` is what holds of
the table under `RunningSpec` and makes this true at a combined gate, where a start's copy
could end the run it began: an open run began after the car's other runs ended.
An assignment is not retried but may be asked for twice: `AssignedOnce` says that what is
timed and still listed has a marshal about to save it.

`NoFinishMissedHolds` needs that giving up is for good (`GivenUp`): on a stage of one run
each, a car that has a run which this passing cannot finish never gets another
(`NoNewOpen`); and that between the two queries of a finish, with SQLite, no start is recorded.

### Gates
`Esp32UplinkProofs` proves `BeepIsAPromise`, `KnownTimesAreTrue`,
`KeepsItsPromiseHolds` (the flash buffer implements `AtLeastOnce`) and `EspTyped`. Three
facts carry the first three (`EspInv`): an id is reused only when no message, slot or acknowledgement
has it, so an acknowledgement in the queue is of the detection whose slot has its id
(`SlotsInv`); what a buffered detection needs to work out its time never changes within
its boot (`TimesInv`); and a whole file without a time of day is of a tap from before the
sync, so that the rewrite that pins a time can spoil no other (`SpoiltInv`). The fourth is about limits (`Limits`): a tap is stored only while
there is room, and a slot, once free, is taken by one detection.

`PassingMatcherProofs`: a verdict depends on what is within two windows of its item
(`SameVerdicts`): the reads near a beam, and the beams near those. The inductive invariant
`MatchInv` says of a running gate that whatever went out had settled, that what was
forgotten is more than two windows from all that waits or is to come, and that what was sent
is exactly the verdicts, over everything that was ever seen, of what went out. A read that is
still to come is too late to be within two windows of anything settled; that is where the
code's `2 * PAIR_WINDOW_MS + READ_LAG_MS` is needed in full, and a lag of exactly
`READ_LAG_MS` is already too long. `EveryItemGoesOutOnceHolds` counts: two verdicts of one
beam or one car would be of one item.

`GatePairingProofs` proves `PairingTyped`, `OnlyApprovedGetIn` (every approved key and
every login is of an accepted pair) and `RejectedIsFinal`.

### The rally day and the event files
`StageLifecycleProofs` proves `LifecycleTyped`, `GateTimesOneStageHolds`,
`ClosedIsFinalHolds`, `PostedListStaysHolds` and `RallyCloseStrandsNobodyHolds` for the
default database and any number of stages, gates, marshals and crashes. `DayInv` says that
at most one request is under way (`Alone`) and that what it found out still holds (`Sound`):
the conflicts found are all conflicts when the gates are switched, and the stage being
activated is not among those it closes. `ReadInv` adds what a request has read and writes
back or relies on: the list in the row it saves is the list there is, the stage it unfreezes
has not started, and nobody is out on a stage that is to be closed with the rally. With
PostgreSQL `Alone` fails, and the properties with it (section 6).

`EventFilesProofs` proves `EventFilesTyped` and `OpenEventIsSafe`: every step that
writes or removes a file checks, in its last part, that the file is not the open one, or
makes one that was not there.

### Results
`ResultsProofs` is about what is computed from the state, for any crews, classes, stages,
times and penalties: `ResultsInv` gives the types of what is read, the rest is the algorithms.
The prover knows sums, folds and sorting by definition only, and no induction rule with an operator
for a parameter can be used. Induction is done by the smallest counterexample instead: a
set of finite sets that is not empty has a smallest member (`SmallestSet`), and so has a set
of numbers (`SmallestNumber`, `Upwards`). With these each operator is described once:

- `FoldsExist`, `SumIs`: a fold over a finite set is that over the set without one of its members, and one
  more turn; `SumChanges`, `SumTyped` follow;
- `SortedIs`: sorting by a relation that orders the set gives each member once, and
  in that order;
- `OffencesAdd`: offences 1 to m and m + 1 to n cost what 1 to n cost;
- `PricesAre`: the loop's account after each turn; `AccountsUp` takes it through the list;
- `JoinsExist`, `FlattenIs`: lists put one behind the other keep members and order.

On them rest `ResultsTyped`; `DisqualifiedLeavesNoTraceHolds` and
`WithdrawalMovesNobodyElseHolds` (only `Rankable` reads a crew's status before the notional
times are worked out, so a step that leaves the rankable crews of a view alone leaves the
others' totals alone); `SlowerNeverGainsHolds` (`OnlyCorrected`: a step that slows a crew
changes that one time; the notional time of the stage then grows by no more than the crew's
own, `StageSumGrows`); `OffencesCostTheirNumberHolds` (what the offences counted together
have cost so far is, after each turn of the loop, the cost of as many as the counter says,
`CostGrows`); and `StartListFollowsResultsHolds` (the comparison of `compute` orders the
crews of a group, `StartsOrders`; groups put one behind the other have `EverybodyOnce`).

### Only model-checked
Liveness: `EveryPassingSettled`, `PairingLetsIn` and `BufferDrains`; fairness and ENABLED are out of the
prover's reach. Of the configurations with counterexamples nothing is proved: the
counterexample is the evidence.

## 6. Where code and documentation disagree

`closed_rally_results` is listed as a run that TLC must find violated; the others are
configurations kept beside the modules, which end in a counterexample the same way
(`tlc -config reactivated.cfg MCStageLifecycle`). Text in quotation marks is
from the documentation in `docs/` or a comment at the code in question.

| Configuration | What is said | What happens |
|---|---|---|
| `closed_rally_results` | "Closed locks everything that changes a result" | closing a counted stage is not locked in a closed rally, and moves every total |
| `skipping_pays` | "skipping never pays off on that stage" | the slowest crew of a stage would be charged less had it not finished: the notional time is then the second slowest plus the penalty |
| `esp32_time_lost` | "The only lost time is a gate rebooting before it ever synced" | a tap taken before the sync has its time worked out when it is first sent; power lost between the sync and then loses it, although the gate had synced |
| `pin_cut` | "The beep promises the tap counted", and a detection is deleted "only on PUBACK", when it can never be sent, or on the status page | pinning the time of a tap from before the sync empties its file and writes it again, unchecked (`uplink.cpp:167-171`): after a power cut or a short write there the next round deletes it as unreadable |
| `live_stage_left` | switching is "Refused while a stage is live" | the stage is looked for before the new event is built, and 200 ms before the restart |
| `assigned_half` | a passing whose rules "did partially apply won't double-count" | a failure after the rules ran leaves the passing on the list, timed; assigned to another car it times that one too. To the same car a start or a split is accepted again, a finish refused |
| `assigned_twice` | the record is read as still awaiting, once (`findAwaitingOrThrow`) | (PostgreSQL) two marshals assign one passing to two cars |
| `restored_run` | "no run is open on a closed stage" | a run voided while open and restored after the close is open there: `unvoidRun` does not ask for the stage |
| `split_elapsed` | "`elapsedMs` is time since `startTime`" | correcting a start leaves the elapsed times of the splits |
| `retried_after_void` | a sweep "won't double-count" | a start whose record was not marked, and whose run was voided meanwhile, starts a second run |
| `gate_on_two_stages` | "exactly one active assignment per gate" | (PostgreSQL) two activations each see no conflict |
| `second_close` | a crew registered after the close "gets no row there" | a second close writes DNS rows |
| `finish_missed` | a finish "waits up to 10 minutes" for its start | (PostgreSQL) a start stored between the two queries of a finish: the finish is dropped |
| `relisted` | "The stored record must win" | (PostgreSQL) a handler's late `save` puts an assigned passing back on the list |
| `reactivated` | "Closing is terminal" | (PostgreSQL) an activation writes over a close |
| `rally_closed_under` | "once closed, none" | (PostgreSQL) a stage activated while the rally closes runs in a closed rally |
| `stranded` | "a DNF nobody decided on" | (PostgreSQL) a car that starts after the count becomes DNF by closing the rally |
| `posted_list_lost` | the frozen list "is never recomputed" | (PostgreSQL) a whole-row save drops a list frozen in between |
| `gate_twice` | "exactly one active assignment per gate" | one gate in two roles of one stage has two |
| `orphan_run` | deleting a stage must not "orphan history" | a run typed in on a stage that has not started outlives the stage |

## 7. Abstractions, and what is left out

Inside the modelled components:
- A stage's scoring, start mode and list length are constants of `StageRuns`; editing a
  planned stage is not an action. A row's id is its (entry, attempt).
- Handlers of the run table are whole steps. Their races with PostgreSQL (two Finish now
  requests, Cancel against a start passing) are not modelled.
- `dismissJumpStart` and the manual-start marks only change what is displayed.
- `Detections` has the start mode GATE: on slot stages a start passing is evidence only,
  which `StageRuns` covers. Passings come with their car or without one; the transponder
  lookup, pre-start triggers and the 24 h limit on stale passings are left out. `listed`
  starts FALSE for a new message.
- In `StageLifecycle` a start list is the set of its cars, and a car's attempts are one
  standing. Deletion of a stage, and the transactions inside a handler, are one step.
- `Results` has one time per crew and stage (the counting run's); the ranking at a split,
  the list of crews without a time, gaps and positions are left out: they are read from the
  same totals. Times are two values; milliseconds do not matter to an order.
- Default penalty types and the uniqueness of names and numbers are the database's.
- `GatePairing` reduces a token to the key it was made with: its age and its one use are
  left out, and so are the development mode that lets anyone in and the pass for the gate's web page.
- `Esp32Uplink` counts true time; NTP sampling and the correction of the oscillator's rate are
  left out. So are Wi-Fi, buzzer, LED and firmware updates.
- Of LittleFS `Esp32Uplink` assumes that a new file whose write returned its full size is
  there once closed (`bufferDetection` checks the size and keeps `MIN_FREE_BYTES` free) and
  that removing a file is atomic. Nothing is assumed of writing over a file: it may fail, fall short or be cut off.
- `PassingMatcher` gets edges and reads; serial protocols and GPIO are left out, and so is what
  the adapter does with an emission: `forwarded` sends on or drops it by its kind alone.
- `EventFiles` takes the database library's migration of an old file for granted.

Not modelled:
- Gates' clock offsets. A passing is corrected by the offset of the last heartbeat at
  arrival; whether that is the offset it was stamped with is a fact about clocks, and a
  model could only assume the answer.
- The change log: written in each change's transaction and read by no decision.
- Authentication: who may ask, not what happens then.
- Live notifications, discovery, lobby, NTP, settings, serial adapters: I/O around
  the modelled state.
- The web application and the gate's own pages (about 15,000 lines of Vue components,
  formatting and PDF layout, half of the repository's implementation): they render what
  the API says and keep no state that decides a time. With entities, DTOs, controllers,
  wiring and the services' queries, messages and comments they are why the map's share of
  all lines stays near an eighth, although each function of the services that changes what
  a modelled component keeps is in it, but for those named above.

## 8. Plan

1. *StageRunRaces*: the run table's handlers split at their awaits under PostgreSQL:
   which stale `save` overwrites a row, what the conditional updates and indexes prevent;
   refinement of `StageRuns` for the handlers that are safe.
2. *StartSlots*: triggers, countdowns and start signals against a clock, with pre-start
   gates in `Detections`.
3. Editing a planned stage, and the split ranking in `Results`.
4. Proofs: what remains true with PostgreSQL (a timed passing leaves evidence whatever
   interleaves; a closed stage whose row nobody else has read stays closed), an abstract
   specification of the rally day that `StageLifecycle` implements, and `ValidTiers` with
   ascending prices: an offence more never costs less.

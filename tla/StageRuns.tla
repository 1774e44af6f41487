----------------------------- MODULE StageRuns -----------------------------
(***************************************************************************)
(* The run table of one stage: every handler of StageRunsService, the rule *)
(* engine's calls into it, and the two stage transitions that write runs   *)
(* (activation of a timetable and closing).  Each handler is one atomic    *)
(* step here, as with SQLite: its queries answer within one turn.          *)
(*                                                                         *)
(* A row of the table is a record.  Its key is (entry, attempt): the code  *)
(* numbers attempts per entry and stage, and one stage is modelled.        *)
(* Times are milliseconds in the code and small naturals here, with NoTime *)
(* for a null column.  Every time a handler receives (gate clock, server   *)
(* clock, hand-typed) is any member of Times: nothing below assumes that   *)
(* two clocks agree.                                                       *)
(***************************************************************************)
EXTENDS Integers, FiniteSets

CONSTANTS
  Entries,      \* cars that are or may be registered
  Shakedown,    \* scoring NONE: a car runs as often as it likes
  StartMode,    \* how a start is timed: "GATE", "SLOT_MANUAL", "SLOT_SCHEDULE"
  Combined,     \* one start/finish gate instead of a start and a finish gate
  SplitGates,   \* gates in the split role
  Posted,       \* the frozen start list: the position of each listed entry
  StartNumber,  \* of each entry: orders the crews registered after it froze
  Countdown,    \* countdownMs: from a trigger to its slot
  Gap,          \* minStartGapMs: between two queued slots
  Interval,     \* slotIntervalMs: between two timetable slots
  Before,       \* SLOT_PASSING_BEFORE_MS
  After,        \* SLOT_PASSING_AFTER_MS
  MinDuration,  \* minDurationMs at a combined gate
  FirstStart,   \* the timetable's first start as posted
  MaxTime,      \* bound on every time
  MaxAttempts   \* bound on the attempts of one entry

Times == 1 .. MaxTime
NoTime == 0
Attempts == 1 .. MaxAttempts
Modes == {"GATE", "SLOT_MANUAL", "SLOT_SCHEDULE"}

\* Each listed entry has a position of its own, of 1..n, and each entry a start
\* number of its own; a shakedown has no timetable (assertNoShakedownTimetable);
\* slotIntervalMs is validated to be positive.
ASSUME StageAssumption ==
  /\ Shakedown \in BOOLEAN /\ Combined \in BOOLEAN
  /\ StartMode \in Modes
  /\ Shakedown => StartMode # "SLOT_SCHEDULE"
  /\ DOMAIN Posted \subseteq Entries
  /\ Posted \in [DOMAIN Posted -> 1 .. Cardinality(DOMAIN Posted)]
  /\ \A e, f \in DOMAIN Posted : Posted[e] = Posted[f] => e = f
  /\ StartNumber \in [Entries -> Nat]
  /\ \A e, f \in Entries : StartNumber[e] = StartNumber[f] => e = f
  /\ {Countdown, Gap, Before, After, MinDuration} \subseteq Nat
  /\ Interval \in Nat \ {0}
  /\ IsFiniteSet(Entries)
  /\ MaxTime \in Nat /\ MaxAttempts \in Nat \ {0}
  /\ FirstStart \in Times

Run == [entry : Entries, attempt : Attempts, run : Attempts,
        start : Times, finish : Times \cup {NoTime},
        duration : Nat, slot : Times \cup {NoTime},
        passed : Times \cup {NoTime}, voided : BOOLEAN, dnf : BOOLEAN]

Split == [entry : Entries, attempt : Attempts, gate : SplitGates,
          at : Times, elapsed : Nat]

VARIABLES
  runs,        \* rows of stage_run, a set of Run records
  splits,      \* rows of stage_split
  dns,         \* entries with a did_not_start row
  crew,        \* "absent" before registration, then "in" or "out" of the event
  status,      \* stage.status
  firstStart   \* stage.firstStartTime

vars == <<runs, splits, dns, crew, status, firstStart>>

TypeOK ==
  /\ runs \subseteq Run
  /\ splits \subseteq Split
  /\ dns \subseteq Entries
  /\ crew \in [Entries -> {"absent", "in", "out"}]
  /\ status \in {"NOT_STARTED", "ACTIVE", "CLOSED"}
  /\ firstStart \in Times

-----------------------------------------------------------------------------
(* Queries *)

\* Mutant: a DNF run still counts as in progress.
OpenDespiteDnf(r) == ~r.voided /\ r.finish = NoTime

Open(r) == ~r.voided /\ ~r.dnf /\ r.finish = NoTime
RunsOf(e) == {r \in runs : r.entry = e}
OpenRuns(e) == {r \in RunsOf(e) : Open(r)}
FinishedRuns(e) == {r \in RunsOf(e) : ~r.voided /\ r.finish # NoTime}
\* Mutant: a DNF does not block the next start of a counted stage.
DoneRunsForgetDnf(e) == {r \in RunsOf(e) : ~r.voided /\ r.finish # NoTime}
DoneRuns(e) == {r \in RunsOf(e) : ~r.voided /\ (r.finish # NoTime \/ r.dnf)}
HasRun(e) == \E r \in RunsOf(e) : ~r.voided
HasSplit(r) == \E s \in splits : s.entry = r.entry /\ s.attempt = r.attempt
Untouched(r) == /\ r.slot # NoTime /\ r.passed = NoTime
                /\ r.finish = NoTime /\ ~r.dnf
InEvent(e) == crew[e] = "in"

\* One past the highest attempt; MaxAttempts bounds it.
IsNextAttempt(e, n) ==
  /\ \A r \in RunsOf(e) : r.attempt < n
  /\ n = 1 \/ \E r \in RunsOf(e) : r.attempt = n - 1

\* The two partial unique indexes of the table.
IndexesHold(table) ==
  \A a, b \in table :
    (a # b /\ a.entry = b.entry /\ ~a.voided /\ ~b.voided)
      => a.run # b.run /\ ~(Open(a) /\ Open(b))

Duration(start, finish) == IF finish = NoTime THEN 0 ELSE finish - start
SlotRuns == {r \in runs : r.slot # NoTime}
NoSlotAfter(t) == \A r \in SlotRuns : r.slot <= t

-----------------------------------------------------------------------------
(* Writes *)

NewRun(e, n, start, slot) ==
  [entry |-> e, attempt |-> n, run |-> IF Shakedown THEN n ELSE 1,
   start |-> start, finish |-> NoTime, duration |-> 0, slot |-> slot,
   passed |-> NoTime, voided |-> FALSE, dnf |-> FALSE]

Replace(r, s) == runs' = (runs \ {r}) \cup {s}

\* Mutant: nothing cascades, and the splits are forgotten.
DeleteLeavesSplits(r) == runs' = runs \ {r} /\ UNCHANGED splits

\* deleteRecorded: the run and its splits, in one transaction.
Delete(r) ==
  /\ runs' = runs \ {r}
  /\ splits' = {s \in splits : s.entry # r.entry \/ s.attempt # r.attempt}

\* A car already running, or done on a counted stage, does not start; on a
\* shakedown neither does it at a time not after its last finish.
MayStart(e, at) ==
  /\ OpenRuns(e) = {}
  /\ IF Shakedown THEN \A r \in FinishedRuns(e) : at > r.finish
                  ELSE DoneRuns(e) = {}

\* startRun; a start that is not allowed is ignored.
StartRun(e, at) ==
  /\ MayStart(e, at)
  /\ \E n \in Attempts : /\ IsNextAttempt(e, n)
                         /\ runs' = runs \cup {NewRun(e, n, at, NoTime)}
  /\ dns' = dns \ {e}
  /\ UNCHANGED splits

MayFinish(e, at) == \E r \in OpenRuns(e) : at > r.start

\* Mutant: a finish is not compared with the start.
FinishRunAnyOrder(e, at) ==
  /\ \E r \in OpenRuns(e) :
       Replace(r, [r EXCEPT !.finish = at, !.duration = Duration(r.start, at)])
  /\ UNCHANGED <<splits, dns>>

\* finishRun: only a finish strictly after the start.
FinishRun(e, at) ==
  /\ \E r \in OpenRuns(e) :
       /\ at > r.start
       /\ Replace(r, [r EXCEPT !.finish = at, !.duration = Duration(r.start, at)])
  /\ UNCHANGED <<splits, dns>>

\* startOrFinishRun: within MinDuration of the start it is the same passing.
StartOrFinishRun(e, at) ==
  \/ StartRun(e, at)
  \/ (\A r \in OpenRuns(e) : at - r.start >= MinDuration) /\ FinishRun(e, at)

Distance(r, at) == IF at > r.slot THEN at - r.slot ELSE r.slot - at

\* findSlotNear for an identified car: its nearest slot in the window.
SlotsNear(e, at, after) ==
  {r \in RunsOf(e) : /\ ~r.voided /\ ~r.dnf /\ r.slot # NoTime
                     /\ at >= r.slot - Before /\ at <= r.slot + after}

\* Mutant: the last passing wins, not the earliest.
RecordLastPassing(e, at, after) ==
  /\ \E r \in SlotsNear(e, at, after) :
       /\ \A s \in SlotsNear(e, at, after) : Distance(r, at) <= Distance(s, at)
       /\ Replace(r, [r EXCEPT !.passed = at])
  /\ UNCHANGED <<splits, dns>>

\* recordStartPassing: evidence only, and the earliest passing is kept.
RecordStartPassing(e, at, after) ==
  /\ \E r \in SlotsNear(e, at, after) :
       /\ \A s \in SlotsNear(e, at, after) : Distance(r, at) <= Distance(s, at)
       /\ r.passed = NoTime \/ r.passed > at
       /\ Replace(r, [r EXCEPT !.passed = at])
  /\ UNCHANGED <<splits, dns>>

\* slotStartOrFinish: the combined gate of a slot stage.
SlotStartOrFinish(e, at) ==
  LET byHand == {r \in OpenRuns(e) : r.slot = NoTime}
      due == {r \in OpenRuns(e) : r.slot # NoTime /\ at >= r.slot + MinDuration}
  IN \/ byHand # {} /\ StartOrFinishRun(e, at)
     \/ byHand = {} /\ due # {} /\ FinishRun(e, at)
     \/ /\ byHand = {} /\ due = {}
        /\ RecordStartPassing(e, at,
             IF After < MinDuration THEN After ELSE MinDuration)

-----------------------------------------------------------------------------
(* Passings, as the rule engine hands them on.  Only an active stage times a*)
(* passing, and only for a car in the event.                               *)

Timed(e) == status = "ACTIVE" /\ InEvent(e) /\ UNCHANGED <<crew, status, firstStart>>

PassStart(e, at) ==
  /\ Timed(e) /\ ~Combined
  /\ IF StartMode = "GATE" THEN StartRun(e, at) ELSE RecordStartPassing(e, at, After)

PassFinish(e, at) == Timed(e) /\ ~Combined /\ FinishRun(e, at)

PassStartFinish(e, at) ==
  /\ Timed(e) /\ Combined
  /\ IF StartMode = "GATE" THEN StartOrFinishRun(e, at) ELSE SlotStartOrFinish(e, at)

\* recordSplit: the first passing of each split gate in the open run.
SplitRuns(e, g, at) ==
  {r \in OpenRuns(e) : /\ at > r.start
                       /\ ~ \E s \in splits : /\ s.entry = e /\ s.attempt = r.attempt
                                              /\ s.gate = g}

PassSplit(e, g, at) ==
  /\ Timed(e)
  /\ \E r \in SplitRuns(e, g, at) :
       splits' = splits \cup {[entry |-> e, attempt |-> r.attempt, gate |-> g,
                               at |-> at, elapsed |-> at - r.start]}
  /\ UNCHANGED <<runs, dns>>

-----------------------------------------------------------------------------
(* Start slots *)

\* Mutant: a voided slot frees its place in the queue.
QueueSlotOverVoided(e, now) ==
  /\ status = "ACTIVE" /\ StartMode = "SLOT_MANUAL" /\ InEvent(e)
  /\ OpenRuns(e) = {}
  /\ Shakedown \/ DoneRuns(e) = {}
  /\ \E slot \in Times, n \in Attempts :
       /\ slot >= now + Countdown
       /\ \A r \in SlotRuns : r.voided \/ slot >= r.slot + Gap
       /\ IsNextAttempt(e, n)
       /\ runs' = runs \cup {NewRun(e, n, slot, slot)}
  /\ dns' = dns \ {e}
  /\ UNCHANGED <<splits, crew, status, firstStart>>

\* queueSlot, from the Countdown button or a pre-start trigger.  Voided slots
\* count for the gap: the line was taken then.
QueueSlot(e, now) ==
  /\ status = "ACTIVE" /\ StartMode = "SLOT_MANUAL" /\ InEvent(e)
  /\ OpenRuns(e) = {}
  /\ Shakedown \/ DoneRuns(e) = {}
  /\ \E slot \in Times, n \in Attempts :
       /\ \/ slot = now + Countdown
          \/ \E r \in SlotRuns : slot = r.slot + Gap
       /\ slot >= now + Countdown /\ \A r \in SlotRuns : slot >= r.slot + Gap
       /\ IsNextAttempt(e, n)
       /\ runs' = runs \cup {NewRun(e, n, slot, slot)}
  /\ dns' = dns \ {e}
  /\ UNCHANGED <<splits, crew, status, firstStart>>

\* postedEndMs: the posted list's last slot, 0 without a list.
PostedEnd == IF DOMAIN Posted = {} THEN 0
             ELSE firstStart + Interval * (Cardinality(DOMAIN Posted) - 1)

\* Mutant: the posted list alone says which slot is last.
IsAfterPostedList(slot) == slot = PostedEnd + Interval

\* lastSlotMs + interval.
IsAfterLastSlot(slot) ==
  /\ slot = PostedEnd + Interval \/ \E r \in SlotRuns : slot = r.slot + Interval
  /\ slot >= PostedEnd + Interval /\ NoSlotAfter(slot - Interval)

\* moveToNewSlot: the open slot run moves, or a car without a run gets one.
MoveToNewSlot(e, slot) ==
  /\ IsAfterLastSlot(slot)
  /\ \/ \E r \in OpenRuns(e) :
          /\ r.slot # NoTime /\ r.passed = NoTime
          /\ Replace(r, [r EXCEPT !.start = slot, !.slot = slot])
          /\ UNCHANGED dns
     \/ /\ OpenRuns(e) = {} /\ DoneRuns(e) = {}
        /\ \E n \in Attempts : /\ IsNextAttempt(e, n)
                               /\ runs' = runs \cup {NewRun(e, n, slot, slot)}
        /\ dns' = dns \ {e}

NewSlot(e, slot) ==
  /\ status = "ACTIVE" /\ StartMode = "SLOT_SCHEDULE" /\ InEvent(e)
  /\ MoveToNewSlot(e, slot)
  /\ UNCHANGED <<splits, crew, status, firstStart>>

\* Mutant: only the posted list is ahead, not the slots behind it.
PostedAhead(now) == {r \in runs : /\ status = "ACTIVE" /\ Open(r) /\ r.passed = NoTime
                                  /\ r.slot > now /\ r.slot <= PostedEnd}

\* The slots still ahead whose car has not left.
Ahead(now) ==
  {r \in runs : status = "ACTIVE" /\ Open(r) /\ r.passed = NoTime /\ r.slot > now}

\* delay: the slots still ahead move back, and the first start with them
\* unless the posted list is over.
DelaySlots(now, by) ==
  LET moved == Ahead(now)
  IN /\ status # "CLOSED" /\ StartMode = "SLOT_SCHEDULE"
     /\ \A r \in moved : r.slot + by \in Times
     /\ runs' = (runs \ moved)
          \cup {[r EXCEPT !.start = r.slot + by, !.slot = r.slot + by] : r \in moved}
     /\ IF status # "ACTIVE" \/ PostedEnd > now
        THEN firstStart + by \in Times /\ firstStart' = firstStart + by
        ELSE UNCHANGED firstStart
     /\ UNCHANGED <<splits, dns, crew, status>>

CancelCountdown(r) ==
  /\ r.slot # NoTime /\ r.passed = NoTime /\ r.finish = NoTime /\ ~r.voided
  /\ Delete(r)
  /\ UNCHANGED <<dns, crew, status, firstStart>>

-----------------------------------------------------------------------------
(* Marshals *)

\* createManual relies on the unique index for the second attempt.
CreateManual(e, start, finish) ==
  /\ InEvent(e)
  /\ finish # NoTime => finish > start
  /\ \E n \in Attempts :
       /\ IsNextAttempt(e, n)
       /\ runs' = runs \cup
            {[NewRun(e, n, start, NoTime) EXCEPT
                !.finish = finish, !.duration = Duration(start, finish),
                !.dnf = finish = NoTime /\ status = "CLOSED"]}
  /\ IndexesHold(runs')
  /\ dns' = dns \ {e}
  /\ UNCHANGED <<splits, crew, status, firstStart>>

\* Mutants: the duration is not recomputed; a cleared finish leaves the run
\* open whatever the stage's status.
CorrectRunKeepsDuration(r, start, finish, patchesFinish) ==
  /\ finish # NoTime => finish > start
  /\ patchesFinish \/ finish = r.finish
  /\ Replace(r, [r EXCEPT !.start = start, !.finish = finish])
  /\ IndexesHold(runs')
  /\ UNCHANGED <<splits, dns, crew, status, firstStart>>
CorrectRunReopens(r, start, finish, patchesFinish) ==
  /\ finish # NoTime => finish > start
  /\ patchesFinish \/ finish = r.finish
  /\ Replace(r, [r EXCEPT
       !.start = start, !.finish = finish, !.duration = Duration(start, finish),
       !.dnf = IF patchesFinish THEN FALSE ELSE @])
  /\ IndexesHold(runs')
  /\ UNCHANGED <<splits, dns, crew, status, firstStart>>

\* correctRun: any start, and the finish set, cleared or left alone.  A
\* cleared finish may hit the open-run index, which then refuses the save.
CorrectRun(r, start, finish, patchesFinish) ==
  /\ finish # NoTime => finish > start
  /\ patchesFinish \/ finish = r.finish
  /\ Replace(r, [r EXCEPT
       !.start = start, !.finish = finish, !.duration = Duration(start, finish),
       !.dnf = IF patchesFinish THEN finish = NoTime /\ status = "CLOSED" ELSE @])
  /\ IndexesHold(runs')
  /\ UNCHANGED <<splits, dns, crew, status, firstStart>>

FinishNow(r, now) ==
  /\ Open(r) /\ status # "CLOSED"
  /\ now > r.start
  /\ Replace(r, [r EXCEPT !.finish = now, !.duration = Duration(r.start, now)])
  /\ UNCHANGED <<splits, dns, crew, status, firstStart>>

VoidRun(r) ==
  /\ Replace(r, [r EXCEPT !.voided = TRUE])
  /\ UNCHANGED <<splits, dns, crew, status, firstStart>>

\* unvoidRun: no other attempt survives in its place.
UnvoidRun(r) ==
  /\ \A o \in RunsOf(r.entry) : (o # r /\ ~o.voided)
       => o.run # r.run /\ ~(o.finish = NoTime /\ r.finish = NoTime)
  /\ Replace(r, [r EXCEPT !.voided = FALSE])
  /\ UNCHANGED <<splits, dns, crew, status, firstStart>>

MarkDnf(r) ==
  /\ status # "CLOSED" /\ Open(r)
  /\ Replace(r, [r EXCEPT !.dnf = TRUE])
  /\ UNCHANGED <<splits, dns, crew, status, firstStart>>

UndoDnf(r) ==
  /\ status # "CLOSED" /\ r.dnf
  /\ r.voided \/ OpenRuns(r.entry) = {}
  /\ Replace(r, [r EXCEPT !.dnf = FALSE])
  /\ UNCHANGED <<splits, dns, crew, status, firstStart>>

\* markDns: without a counting run, or with one untouched slot, which goes.
MarkDns(e) ==
  LET counting == {r \in RunsOf(e) : ~r.voided}
  IN /\ status = "ACTIVE" /\ ~Shakedown /\ InEvent(e)
     /\ \A r, s \in counting : r = s /\ Untouched(r) /\ ~HasSplit(r)
     /\ runs' = runs \ counting
     /\ dns' = dns \cup {e}
     /\ UNCHANGED <<splits, crew, status, firstStart>>

UndoDns(e) ==
  /\ status # "CLOSED" /\ e \in dns
  /\ dns' = dns \ {e}
  /\ UNCHANGED <<runs, splits, crew, status, firstStart>>

Remove(r) == Delete(r) /\ UNCHANGED <<dns, crew, status, firstStart>>

-----------------------------------------------------------------------------
(* Entries and the stage *)

\* A crew registered on a running timetable stage gets the next slot.
Register(e) ==
  /\ crew[e] = "absent"
  /\ crew' = [crew EXCEPT ![e] = "in"]
  /\ IF status = "ACTIVE" /\ StartMode = "SLOT_SCHEDULE"
     THEN \E slot \in Times : MoveToNewSlot(e, slot)
     ELSE UNCHANGED <<runs, dns>>
  /\ UNCHANGED <<splits, status, firstStart>>

\* Withdrawn or disqualified, and reinstated.
SetInEvent(e, in) ==
  /\ crew[e] # "absent"
  /\ crew' = [crew EXCEPT ![e] = in]
  /\ UNCHANGED <<runs, splits, dns, status, firstStart>>

\* The frozen list, then the late crews by start number; positions from 0.
Position(e) ==
  IF e \in DOMAIN Posted THEN Posted[e] - 1
  ELSE Cardinality(DOMAIN Posted)
       + Cardinality({l \in Entries \ DOMAIN Posted :
                        InEvent(l) /\ StartNumber[l] < StartNumber[e]})

\* activate, then createTimetableRuns for every car in the event that has no
\* row yet.  Activating an active stage runs all of it again.
Activate ==
  LET slot(e) == firstStart + Interval * Position(e)
      starters == {e \in Entries : InEvent(e) /\ RunsOf(e) = {}}
  IN /\ status # "CLOSED"
     /\ status' = "ACTIVE"
     /\ IF StartMode = "SLOT_SCHEDULE"
        THEN /\ \A e \in starters : slot(e) \in Times
             /\ runs' = runs \cup {NewRun(e, 1, slot(e), slot(e)) : e \in starters}
        ELSE UNCHANGED runs
     /\ UNCHANGED <<splits, dns, crew, firstStart>>

\* Mutant: any row at all, even a voided one, spares the car its DNS.
CloseForgetsVoided ==
  LET open == {r \in runs : Open(r)}
      unstarted == {r \in open : Untouched(r) /\ ~HasSplit(r)}
  IN /\ status' = "CLOSED"
     /\ runs' = (runs \ open) \cup {[r EXCEPT !.dnf = TRUE] : r \in open \ unstarted}
     /\ dns' = IF Shakedown THEN dns
               ELSE dns \cup {e \in Entries : InEvent(e) /\ RunsOf(e) = {}}
     /\ UNCHANGED <<splits, crew, firstStart>>

\* close and writeClose.  No guard on the status: a stage can be closed
\* without having run, and closed again.
Close ==
  LET open == {r \in runs : Open(r)}
      unstarted == {r \in open : Untouched(r) /\ ~HasSplit(r)}
  IN /\ status' = "CLOSED"
     /\ runs' = (runs \ open) \cup {[r EXCEPT !.dnf = TRUE] : r \in open \ unstarted}
     /\ dns' = IF Shakedown THEN dns
               ELSE dns \cup {e \in Entries : /\ InEvent(e)
                                              /\ \A r \in runs' : r.entry = e => r.voided}
     /\ UNCHANGED <<splits, crew, firstStart>>

-----------------------------------------------------------------------------
Init ==
  /\ runs = {} /\ splits = {} /\ dns = {}
  /\ crew \in [Entries -> {"absent", "in"}]
  /\ \A e \in DOMAIN Posted : crew[e] = "in"
  /\ status = "NOT_STARTED"
  /\ firstStart = FirstStart

Passing ==
  \E e \in Entries, at \in Times :
    \/ PassStart(e, at) \/ PassFinish(e, at) \/ PassStartFinish(e, at)
    \/ \E g \in SplitGates : PassSplit(e, g, at)

Slotting ==
  \/ \E e \in Entries, t \in Times : QueueSlot(e, t) \/ NewSlot(e, t)
  \/ \E now, by \in Times : DelaySlots(now, by)
  \/ \E r \in runs : CancelCountdown(r)

Marshalling ==
  \/ \E e \in Entries, start \in Times, finish \in Times \cup {NoTime} :
       CreateManual(e, start, finish)
  \/ \E r \in runs, start \in Times, finish \in Times \cup {NoTime},
        patchesFinish \in BOOLEAN : CorrectRun(r, start, finish, patchesFinish)
  \/ \E r \in runs, now \in Times : FinishNow(r, now)
  \/ \E r \in runs : \/ VoidRun(r) \/ UnvoidRun(r) \/ MarkDnf(r) \/ UndoDnf(r)
                     \/ Remove(r)
  \/ \E e \in Entries : MarkDns(e) \/ UndoDns(e)

StageStep ==
  \/ \E e \in Entries : Register(e) \/ \E in \in {"in", "out"} : SetInEvent(e, in)
  \/ Activate \/ Close

Next == Passing \/ Slotting \/ Marshalling \/ StageStep

Spec == Init /\ [][Next]_vars

-----------------------------------------------------------------------------
(* Properties *)

SameRun(r, s) == r.entry = s.entry /\ r.attempt = s.attempt

\* One counting attempt per entry and run number, and one open run per entry.
\* The handlers that do not rely on the unique index (gate starts, countdown,
\* New slot, unvoid, undo DNF) are modelled without it: their own checks have
\* to be enough when handlers do not interleave.
OneCountingRun == IndexesHold(runs)

\* A finish is after its start and the stored duration is their difference,
\* whichever of the dozen writers of a row came last; a DNF has no finish.
\* The ranking sorts durations and re-checks nothing.
TimesAgree ==
  \A r \in runs :
    /\ r.finish = NoTime => r.duration = 0
    /\ r.finish # NoTime => /\ ~r.dnf
                            /\ r.duration > 0
                            /\ r.start + r.duration = r.finish

\* What the proofs show of every reachable table: rows that are consistent in
\* themselves and run numbers as the code hands them out, keys that are not
\* reused while a row lives, and the two indexes.
GoodRow(r) ==
  /\ r \in Run
  /\ r.run = IF Shakedown THEN r.attempt ELSE 1
  /\ r.finish = NoTime => r.duration = 0
  /\ r.finish # NoTime => ~r.dnf /\ r.duration > 0 /\ r.start + r.duration = r.finish

GoodTable(table) ==
  /\ \A r \in table : GoodRow(r)
  /\ \A r, s \in table : SameRun(r, s) => r = s
  /\ IndexesHold(table)

TableInvariant == GoodTable(runs) /\ TypeOK

\* No split is left behind by a deleted run: nothing cascades, so every path
\* that deletes a run must delete its splits or know there are none.
NoOrphanSplit == \A s \in splits : \E r \in runs : SameRun(r, s)

\* A passing never changes a finished, DNF or voided run, whatever was voided,
\* re-run or undone before; it can only add start-line evidence to it.
PassingsTimeOnlyOpenRuns ==
  [][Passing => \A r \in runs :
       (r.finish # NoTime \/ r.dnf \/ r.voided)
         => \E s \in runs' : s = [r EXCEPT !.passed = s.passed]]_vars

\* Closing leaves no run open and, on a counted stage, no car in the event
\* without a result row of some kind.
ClosingAccountsForEveryCar ==
  [][(status # "CLOSED" /\ status' = "CLOSED") =>
       /\ \A r \in runs' : r.finish # NoTime \/ r.dnf \/ r.voided
       /\ ~Shakedown => \A e \in Entries : InEvent(e) =>
            e \in dns' \/ \E r \in runs' : r.entry = e /\ ~r.voided]_vars

\* On a closed stage a run becomes open only by restoring a voided one: a run
\* typed in, or whose finish is cleared there, is DNF at once.
ClosedStageOpensNothing ==
  [][\A s \in runs' : (status' = "CLOSED" /\ s.finish = NoTime /\ ~s.dnf /\ ~s.voided)
       => \E r \in runs : /\ SameRun(r, s) /\ r.finish = NoTime /\ ~r.dnf
                          /\ r.voided \/ status = "CLOSED"]_vars

\* Queued slots, voided ones included, are a full gap apart: two cars cannot
\* start from one line.
SlotsApart ==
  \A r, s \in SlotRuns : r # s => Distance(r, s.slot) >= Gap

\* Once a car has left on its slot the slot stays, the earliest passing is
\* kept, and neither closing nor a DNS deletes the run.
LeftSlotStays ==
  [][\A r \in runs : (r.passed # NoTime /\ ~\E d \in runs : Remove(d))
       => \E s \in runs' : /\ SameRun(r, s) /\ s.slot = r.slot
                           /\ s.passed # NoTime /\ s.passed <= r.passed]_vars

\* A driver is never due earlier than announced: no step moves a slot forward.
NeverDueEarlier ==
  [][\A r \in runs, s \in runs' : SameRun(r, s) => s.slot >= r.slot]_vars

\* The crews that are due and have not left.
Waiting(table) ==
  {r \in table : r.slot # NoTime /\ Open(r) /\ r.passed = NoTime}
Spaced(table) ==
  \A r, s \in Waiting(table) : r # s => Distance(r, s.slot) >= Interval
ComesBack ==
  \E r \in runs, s \in Waiting(runs') : SameRun(r, s) /\ r \notin Waiting(runs)

\* The waiting crews of a timetable stay an interval apart: nothing puts two on
\* one slot when the stage opens with late crews behind the posted list, when
\* part of the slots are delayed, and when a crew gets a new slot after that.
\* Only two acts of a marshal may: opening a running stage again, and giving a
\* crew its old run back when others have been delayed since.
WaitingCrewsStayApart ==
  [][(/\ StartMode = "SLOT_SCHEDULE" /\ Spaced(runs)
      /\ ~ComesBack /\ ~(status = "ACTIVE" /\ Activate)) => Spaced(runs')]_vars

-----------------------------------------------------------------------------
(* What docs/event-model.md says and a restored run or a second close breaks *)

\* "no run is open on a closed stage"
NoRunOpenOnClosedStage ==
  status = "CLOSED" => \A r \in runs : ~Open(r)

\* "A crew registered (or reinstated) after the stage closed gets no row there"
NoDnsAfterClose == [][status = "CLOSED" => dns' \subseteq dns]_vars

\* "elapsedMs is time since startTime"
SplitElapsedSinceStart ==
  \A s \in splits, r \in runs : SameRun(r, s) => s.elapsed = s.at - r.start
=============================================================================

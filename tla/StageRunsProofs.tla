-------------------------- MODULE StageRunsProofs --------------------------
(***************************************************************************)
(* What holds of the run table for every set of entries, every start mode  *)
(* and every bound.                                                        *)
(*                                                                         *)
(* The table invariant: each handler writes the table in one of four ways  *)
(* (add a row, replace a row, remove rows, rewrite a set of rows); a lemma *)
(* says when each way keeps a good table, and the step proof shows that    *)
(* each handler's own checks establish the lemma's hypotheses.             *)
(*                                                                         *)
(* What the steps leave behind, from that invariant: the splits of a run   *)
(* go with its row and no earlier, a passing leaves every run that is over *)
(* alone, and closing settles every car.                                   *)
(*                                                                         *)
(* What becomes of a row: one law that every handler keeps to, from which  *)
(* follow the promises about slots and about a closed stage.               *)
(***************************************************************************)
EXTENDS StageRuns, FiniteSetTheorems, TLAPS

\* A removed row breaks nothing.
LEMMA SubTable ==
  ASSUME NEW t, NEW u \in SUBSET t, GoodTable(t)
  PROVE  GoodTable(u)
BY DEF GoodTable, IndexesHold

\* A new row needs a fresh attempt number and no counting row of the entry
\* that shares its run number or is open beside it.
LEMMA AddedRow ==
  ASSUME NEW t, NEW r, GoodTable(t), GoodRow(r),
         \A s \in t : s.entry = r.entry => s.attempt < r.attempt,
         \A s \in t : (s.entry = r.entry /\ ~s.voided /\ ~r.voided)
                        => s.run # r.run /\ ~(Open(s) /\ Open(r))
  PROVE  GoodTable(t \cup {r})
<1> DEFINE u == t \cup {r}
<1>1. \A s \in u : GoodRow(s)
  BY DEF GoodTable
<1>2. \A a, b \in u : SameRun(a, b) => a = b
  <2>1. \A s \in t : ~SameRun(s, r) /\ ~SameRun(r, s)
    BY DEF SameRun, GoodTable, GoodRow, Run, Attempts
  <2>. QED  BY <2>1 DEF GoodTable
<1>3. IndexesHold(u)
  <2>1. \A a, b \in t : (a # b /\ a.entry = b.entry /\ ~a.voided /\ ~b.voided)
                          => a.run # b.run /\ ~(Open(a) /\ Open(b))
    BY DEF GoodTable, IndexesHold
  <2>. QED  BY <2>1 DEF IndexesHold
<1>. QED  BY <1>1, <1>2, <1>3 DEF GoodTable

\* A rewritten row keeps its key and run number.
LEMMA ReplacedRow ==
  ASSUME NEW t, NEW r \in t, NEW s, GoodTable(t), GoodRow(s),
         SameRun(r, s), s.run = r.run,
         \A o \in t : (o # r /\ o.entry = s.entry /\ ~o.voided /\ ~s.voided)
                        => o.run # s.run /\ ~(Open(o) /\ Open(s))
  PROVE  GoodTable((t \ {r}) \cup {s})
<1> DEFINE u == (t \ {r}) \cup {s}
<1>1. \A a \in u : GoodRow(a)
  BY DEF GoodTable
<1>2. \A a, b \in u : SameRun(a, b) => a = b
  <2>1. \A o \in t : SameRun(o, s) \/ SameRun(s, o) => o = r
    BY DEF SameRun, GoodTable
  <2>. QED  BY <2>1 DEF GoodTable
<1>3. IndexesHold(u)
  <2>1. \A a, b \in t : (a # b /\ a.entry = b.entry /\ ~a.voided /\ ~b.voided)
                          => a.run # b.run /\ ~(Open(a) /\ Open(b))
    BY DEF GoodTable, IndexesHold
  <2>. QED  BY <2>1 DEF IndexesHold
<1>. QED  BY <1>1, <1>2, <1>3 DEF GoodTable

\* The usual case of it: the row does not start to count or to be open.
LEMMA NarrowedRow ==
  ASSUME NEW t, NEW r \in t, NEW s, GoodTable(t), GoodRow(s),
         SameRun(r, s), s.run = r.run,
         ~s.voided => ~r.voided, Open(s) => Open(r)
  PROVE  GoodTable((t \ {r}) \cup {s})
<1>1. \A o \in t : (o # r /\ o.entry = s.entry /\ ~o.voided /\ ~s.voided)
                      => o.run # s.run /\ ~(Open(o) /\ Open(s))
  BY DEF GoodTable, IndexesHold, SameRun
<1>. QED  BY <1>1, ReplacedRow

\* Many rows rewritten at once, each keeping its key and run number.
LEMMA RewrittenRows ==
  ASSUME NEW t, NEW u, NEW F, GoodTable(t),
         \A a \in u : \E r \in t : a = F[r],
         \A r \in t : /\ GoodRow(F[r]) /\ SameRun(r, F[r]) /\ F[r].run = r.run
                      /\ ~F[r].voided => ~r.voided
                      /\ Open(F[r]) => Open(r)
  PROVE  GoodTable(u)
<1>1. \A a \in u : GoodRow(a)
  OBVIOUS
<1>2. \A a \in u : \E r \in t : /\ SameRun(r, a) /\ a.run = r.run
                                /\ ~a.voided => ~r.voided
                                /\ Open(a) => Open(r)
                                /\ a = F[r]
  OBVIOUS
<1>3. \A a, b \in u : SameRun(a, b) => a = b
  BY <1>2 DEF SameRun, GoodTable
<1>4. IndexesHold(u)
  BY <1>2, <1>3 DEF SameRun, GoodTable, IndexesHold
<1>. QED  BY <1>1, <1>3, <1>4 DEF GoodTable

-----------------------------------------------------------------------------
\* A fresh row as the handlers build it is good in itself.
LEMMA NewRowGood ==
  ASSUME NEW e \in Entries, NEW n \in Attempts, NEW start \in Times,
         NEW slot \in Times \cup {NoTime}
  PROVE  /\ GoodRow(NewRun(e, n, start, slot))
         /\ NewRun(e, n, start, slot).entry = e
         /\ NewRun(e, n, start, slot).attempt = n
         /\ Open(NewRun(e, n, start, slot))
BY StageAssumption DEF NewRun, GoodRow, Run, Open, Times, NoTime, Attempts

\* Adding a run for a car with no open run and, on a counted stage, none done.
LEMMA FreshRun ==
  ASSUME TableInvariant, NEW e \in Entries, NEW n \in Attempts,
         NEW start \in Times, NEW slot \in Times \cup {NoTime},
         IsNextAttempt(e, n), OpenRuns(e) = {}, Shakedown \/ DoneRuns(e) = {}
  PROVE  GoodTable(runs \cup {NewRun(e, n, start, slot)})
<1> DEFINE new == NewRun(e, n, start, slot)
<1>1. /\ GoodRow(new) /\ new.entry = e /\ new.attempt = n
      /\ new.run = IF Shakedown THEN n ELSE 1
  BY NewRowGood DEF GoodRow
<1>2. \A s \in runs : s.entry = e => s.attempt < n
  BY DEF IsNextAttempt, RunsOf
<1>3. \A s \in runs : s.entry = e => ~Open(s)
  BY DEF OpenRuns, RunsOf
<1>4. \A s \in runs : (s.entry = e /\ ~s.voided) => s.run # new.run
  <2>1. CASE Shakedown
    BY <2>1, <1>1, <1>2 DEF TableInvariant, GoodTable, GoodRow, Run, Attempts
  <2>2. CASE ~Shakedown
    BY <2>2, <1>3 DEF DoneRuns, RunsOf, Open
  <2>. QED  BY <2>1, <2>2
<1>. HIDE DEF new
<1>5. GoodTable(runs \cup {new})
  BY <1>1, <1>2, <1>3, <1>4, AddedRow DEF TableInvariant
<1>. QED  BY <1>5 DEF new

-----------------------------------------------------------------------------
(* One lemma per kind of handler: it keeps the table good. *)

LEMMA StartRunGood ==
  ASSUME TableInvariant, NEW e \in Entries, NEW at \in Times, StartRun(e, at)
  PROVE  GoodTable(runs') /\ dns' \subseteq dns /\ splits' = splits
<1>1. PICK n \in Attempts : IsNextAttempt(e, n) /\ runs' = runs \cup {NewRun(e, n, at, NoTime)}
  BY DEF StartRun
<1>2. OpenRuns(e) = {} /\ (Shakedown \/ DoneRuns(e) = {})
  BY DEF StartRun, MayStart
<1>3. GoodTable(runs \cup {NewRun(e, n, at, NoTime)})
  BY <1>1, <1>2, FreshRun
<1>. QED  BY <1>1, <1>3 DEF StartRun

\* A row finished at `at`, which finishRun and finishNow both write.
LEMMA FinishedRowGood ==
  ASSUME TableInvariant, NEW r \in runs, NEW at \in Times, Open(r), at > r.start
  PROVE  GoodTable((runs \ {r}) \cup
           {[r EXCEPT !.finish = at, !.duration = Duration(r.start, at)]})
<1> DEFINE s == [r EXCEPT !.finish = at, !.duration = Duration(r.start, at)]
<1>1. r \in Run /\ GoodRow(r)
  BY DEF TableInvariant, GoodTable, GoodRow
<1>2. s \in Run /\ GoodRow(s)
  <2>1. /\ r.start \in Nat \ {0} /\ at \in Nat \ {0} /\ at - r.start \in Nat \ {0}
        /\ Duration(r.start, at) = at - r.start
    BY <1>1, StageAssumption DEF Run, Duration, Times, NoTime
  <2>2. s \in Run
    BY <1>1, <2>1 DEF Run
  <2>3. /\ s.finish = at /\ s.duration = at - r.start /\ s.start = r.start
        /\ s.dnf = r.dnf /\ s.run = r.run /\ s.attempt = r.attempt
    BY <1>1, <2>1 DEF Run
  <2>. QED  BY <1>1, <2>1, <2>2, <2>3 DEF GoodRow, Open, NoTime
<1>3. SameRun(r, s) /\ s.run = r.run /\ s.voided = r.voided /\ ~Open(s)
  BY <1>1 DEF Run, SameRun, Open, Times, NoTime
<1>. HIDE DEF s
<1>4. GoodTable((runs \ {r}) \cup {s})
  BY <1>2, <1>3, NarrowedRow DEF TableInvariant
<1>. QED  BY <1>4 DEF s

LEMMA FinishRunGood ==
  ASSUME TableInvariant, NEW e \in Entries, NEW at \in Times, FinishRun(e, at)
  PROVE  GoodTable(runs') /\ dns' = dns /\ splits' = splits
<1>1. PICK r \in OpenRuns(e) : at > r.start /\
        Replace(r, [r EXCEPT !.finish = at, !.duration = Duration(r.start, at)])
  BY DEF FinishRun
<1>2. r \in runs /\ Open(r)
  BY DEF OpenRuns, RunsOf
<1>3. GoodTable(runs')
  BY <1>1, <1>2, FinishedRowGood DEF Replace
<1>. QED  BY <1>3 DEF FinishRun

LEMMA StartOrFinishGood ==
  ASSUME TableInvariant, NEW e \in Entries, NEW at \in Times, StartOrFinishRun(e, at)
  PROVE  GoodTable(runs') /\ dns' \subseteq dns /\ splits' = splits
BY StartRunGood, FinishRunGood DEF StartOrFinishRun

\* A row whose slot fields are rewritten, its finish being left alone.
LEMMA PassedRowGood ==
  ASSUME TableInvariant, NEW r \in runs, NEW at \in Times
  PROVE  GoodTable((runs \ {r}) \cup {[r EXCEPT !.passed = at]})
<1> DEFINE s == [r EXCEPT !.passed = at]
<1>1. r \in Run /\ GoodRow(r)
  BY DEF TableInvariant, GoodTable, GoodRow
<1>2. GoodRow(s) /\ SameRun(r, s) /\ s.run = r.run /\ s.voided = r.voided
      /\ (Open(s) => Open(r))
  BY <1>1 DEF Run, GoodRow, SameRun, Open
<1>. HIDE DEF s
<1>3. GoodTable((runs \ {r}) \cup {s})
  BY <1>2, NarrowedRow DEF TableInvariant
<1>. QED  BY <1>3 DEF s

LEMMA RecordPassingGood ==
  ASSUME TableInvariant, NEW e \in Entries, NEW at \in Times, NEW after,
         RecordStartPassing(e, at, after)
  PROVE  GoodTable(runs') /\ dns' = dns /\ splits' = splits
<1>1. PICK r \in SlotsNear(e, at, after) : Replace(r, [r EXCEPT !.passed = at])
  BY DEF RecordStartPassing
<1>2. r \in runs
  BY DEF SlotsNear, RunsOf
<1>. QED  BY <1>1, <1>2, PassedRowGood DEF Replace, RecordStartPassing

LEMMA SlotStartOrFinishGood ==
  ASSUME TableInvariant, NEW e \in Entries, NEW at \in Times, SlotStartOrFinish(e, at)
  PROVE  GoodTable(runs') /\ dns' \subseteq dns /\ splits' = splits
BY StartOrFinishGood, FinishRunGood, RecordPassingGood DEF SlotStartOrFinish

\* An open run moved to another slot: no finish, so no duration to keep.
LEMMA MovedRowGood ==
  ASSUME NEW r, GoodRow(r), Open(r), NEW slot \in Times
  PROVE  LET s == [r EXCEPT !.start = slot, !.slot = slot]
         IN GoodRow(s) /\ SameRun(r, s) /\ s.run = r.run
            /\ s.voided = r.voided /\ (Open(s) => Open(r))
BY DEF Run, GoodRow, SameRun, Open

LEMMA MoveToNewSlotGood ==
  ASSUME TableInvariant, NEW e \in Entries, NEW slot \in Times, MoveToNewSlot(e, slot)
  PROVE  GoodTable(runs') /\ dns' \subseteq dns
<1>1. CASE \E r \in OpenRuns(e) :
             /\ Replace(r, [r EXCEPT !.start = slot, !.slot = slot])
             /\ UNCHANGED dns
  <2>1. PICK r \in OpenRuns(e) :
          /\ Replace(r, [r EXCEPT !.start = slot, !.slot = slot])
          /\ UNCHANGED dns
    BY <1>1
  <2>2. r \in runs /\ Open(r) /\ GoodRow(r)
    BY DEF OpenRuns, RunsOf, TableInvariant, GoodTable
  <2>3. GoodTable((runs \ {r}) \cup {[r EXCEPT !.start = slot, !.slot = slot]})
    BY <2>2, MovedRowGood, NarrowedRow DEF TableInvariant
  <2>. QED  BY <2>1, <2>3 DEF Replace
<1>2. CASE /\ OpenRuns(e) = {} /\ DoneRuns(e) = {}
           /\ \E n \in Attempts : /\ IsNextAttempt(e, n)
                                  /\ runs' = runs \cup {NewRun(e, n, slot, slot)}
           /\ dns' = dns \ {e}
  BY <1>2, FreshRun
<1>. QED  BY <1>1, <1>2 DEF MoveToNewSlot

-----------------------------------------------------------------------------
(* Slots *)

LEMMA QueueSlotGood ==
  ASSUME TableInvariant, NEW e \in Entries, NEW now \in Times, QueueSlot(e, now)
  PROVE  GoodTable(runs') /\ dns' \subseteq dns /\ splits' = splits
<1>1. PICK slot \in Times, n \in Attempts :
        IsNextAttempt(e, n) /\ runs' = runs \cup {NewRun(e, n, slot, slot)}
  BY DEF QueueSlot
<1>2. OpenRuns(e) = {} /\ (Shakedown \/ DoneRuns(e) = {})
  BY DEF QueueSlot
<1>. QED  BY <1>1, <1>2, FreshRun DEF QueueSlot

LEMMA DelaySlotsGood ==
  ASSUME TableInvariant, NEW now \in Times, NEW by \in Times, DelaySlots(now, by)
  PROVE  GoodTable(runs')
<1> DEFINE m == Ahead(now)
           moved(r) == [r EXCEPT !.start = r.slot + by, !.slot = r.slot + by]
           F == [r \in runs |-> IF r \in m THEN moved(r) ELSE r]
<1>1. \A r \in runs : GoodRow(r) /\ (r \in m => r.slot + by \in Times /\ Open(r))
  BY DEF DelaySlots, Ahead, TableInvariant, GoodTable
<1>2. \A r \in runs : /\ GoodRow(F[r]) /\ SameRun(r, F[r]) /\ F[r].run = r.run
                      /\ ~F[r].voided => ~r.voided
                      /\ Open(F[r]) => Open(r)
  <2>1. \A r \in m : /\ GoodRow(moved(r)) /\ SameRun(r, moved(r)) /\ moved(r).run = r.run
                     /\ moved(r).voided = r.voided
                     /\ Open(moved(r)) => Open(r)
    BY <1>1, MovedRowGood DEF Ahead
  <2>. QED  BY <1>1, <2>1 DEF SameRun, Ahead
<1>3. \A a \in runs' : \E r \in runs : a = F[r]
  BY DEF DelaySlots, Ahead
<1>. HIDE DEF F
<1>. QED  BY <1>2, <1>3, RewrittenRows DEF TableInvariant

LEMMA DeleteGood ==
  ASSUME TableInvariant, NEW r \in runs, Delete(r)
  PROVE  GoodTable(runs') /\ splits' \subseteq splits
BY SubTable DEF Delete, TableInvariant

-----------------------------------------------------------------------------
(* Marshals *)

\* What a marshal types into the start and finish fields of a row.
LEMMA TypedRowGood ==
  ASSUME NEW r, GoodRow(r), NEW start \in Times, NEW finish \in Times \cup {NoTime},
         finish # NoTime => finish > start, NEW dnf \in BOOLEAN,
         finish # NoTime => ~dnf
  PROVE  LET s == [r EXCEPT !.start = start, !.finish = finish,
                            !.duration = Duration(start, finish), !.dnf = dnf]
         IN GoodRow(s) /\ SameRun(r, s) /\ s.run = r.run
            /\ s.entry = r.entry /\ s.attempt = r.attempt
<1> DEFINE s == [r EXCEPT !.start = start, !.finish = finish,
                          !.duration = Duration(start, finish), !.dnf = dnf]
<1>1. r \in Run
  BY DEF GoodRow
<1>2. /\ start \in Nat \ {0}
      /\ finish # NoTime => finish \in Nat \ {0} /\ finish - start \in Nat \ {0}
      /\ Duration(start, finish) = IF finish = NoTime THEN 0 ELSE finish - start
  BY StageAssumption DEF Duration, Times, NoTime
<1>3. Duration(start, finish) \in Nat
  BY <1>2
<1>4. s \in Run
  BY <1>1, <1>3 DEF Run
<1>5. /\ s.start = start /\ s.finish = finish /\ s.duration = Duration(start, finish)
      /\ s.dnf = dnf /\ s.entry = r.entry /\ s.attempt = r.attempt /\ s.run = r.run
  BY <1>1 DEF Run
<1>. HIDE DEF s
<1>6. GoodRow(s) /\ SameRun(r, s)
  BY <1>2, <1>4, <1>5 DEF GoodRow, SameRun, NoTime
<1>. QED  BY <1>5, <1>6 DEF s

\* The row a marshal creates by hand, finished or not.
ManualRow(e, n, start, finish, dnf) ==
  [NewRun(e, n, start, NoTime) EXCEPT
     !.finish = finish, !.duration = Duration(start, finish), !.dnf = dnf]

LEMMA ManualRowGood ==
  ASSUME NEW e \in Entries, NEW n \in Attempts, NEW start \in Times,
         NEW finish \in Times \cup {NoTime}, NEW dnf \in BOOLEAN,
         finish # NoTime => finish > start /\ ~dnf
  PROVE  /\ GoodRow(ManualRow(e, n, start, finish, dnf))
         /\ ManualRow(e, n, start, finish, dnf).entry = e
         /\ ManualRow(e, n, start, finish, dnf).attempt = n
<1> DEFINE r == NewRun(e, n, start, NoTime)
           s == [r EXCEPT !.finish = finish, !.duration = Duration(start, finish),
                          !.dnf = dnf]
<1>1. r \in Run /\ GoodRow(r) /\ r.entry = e /\ r.attempt = n /\ r.start = start
  BY NewRowGood DEF GoodRow, NewRun, NoTime
<1>2. /\ start \in Nat \ {0}
      /\ finish # NoTime => finish \in Nat \ {0} /\ finish - start \in Nat \ {0}
      /\ Duration(start, finish) = IF finish = NoTime THEN 0 ELSE finish - start
  BY StageAssumption DEF Duration, Times, NoTime
<1>3. Duration(start, finish) \in Nat
  BY <1>2
<1>. HIDE DEF r
<1>4. /\ s \in Run
      /\ s.start = start /\ s.finish = finish /\ s.duration = Duration(start, finish)
      /\ s.dnf = dnf /\ s.entry = e /\ s.attempt = n /\ s.run = r.run
  BY <1>1, <1>3 DEF Run
<1>. HIDE DEF s
<1>5. GoodRow(s) /\ s.entry = e /\ s.attempt = n
  BY <1>1, <1>2, <1>4 DEF GoodRow, NoTime
<1>. QED  BY <1>5 DEF s, r, ManualRow

LEMMA CreateManualGood ==
  ASSUME TableInvariant, NEW e \in Entries, NEW start \in Times,
         NEW finish \in Times \cup {NoTime}, CreateManual(e, start, finish)
  PROVE  GoodTable(runs') /\ dns' \subseteq dns
<1> DEFINE dnf == finish = NoTime /\ status = "CLOSED"
<1>1. PICK n \in Attempts :
        /\ IsNextAttempt(e, n)
        /\ runs' = runs \cup {ManualRow(e, n, start, finish, dnf)}
  BY DEF CreateManual, ManualRow
<1>2. dnf \in BOOLEAN /\ (finish # NoTime => finish > start /\ ~dnf)
  BY DEF CreateManual
<1> DEFINE s == ManualRow(e, n, start, finish, dnf)
<1>3. runs' = runs \cup {s}
  BY <1>1
<1>4. GoodRow(s) /\ s.entry = e /\ s.attempt = n
  <2>. HIDE DEF dnf
  <2>. QED  BY <1>2, ManualRowGood
<1>. HIDE DEF s
<1>5. \A o \in runs : o.entry = e => o.attempt < n
  BY <1>1 DEF IsNextAttempt, RunsOf
<1>6. \A a, b \in runs' : SameRun(a, b) => a = b
  <2>1. \A o \in runs : GoodRow(o)
    BY DEF TableInvariant, GoodTable
  <2>2. \A o \in runs : ~SameRun(o, s) /\ ~SameRun(s, o)
    BY <1>4, <1>5, <2>1 DEF SameRun, GoodRow, Run, Attempts
  <2>. QED  BY <1>3, <2>2 DEF TableInvariant, GoodTable
<1>7. \A o \in runs' : GoodRow(o)
  BY <1>3, <1>4 DEF TableInvariant, GoodTable
<1>8. IndexesHold(runs') /\ dns' \subseteq dns
  BY DEF CreateManual
<1>. QED  BY <1>6, <1>7, <1>8 DEF GoodTable

LEMMA CorrectRunGood ==
  ASSUME TableInvariant, NEW r \in runs, NEW start \in Times,
         NEW finish \in Times \cup {NoTime}, NEW patchesFinish \in BOOLEAN,
         CorrectRun(r, start, finish, patchesFinish)
  PROVE  GoodTable(runs')
<1> DEFINE dnf == IF patchesFinish THEN finish = NoTime /\ status = "CLOSED" ELSE r.dnf
           s == [r EXCEPT !.start = start, !.finish = finish,
                          !.duration = Duration(start, finish), !.dnf = dnf]
<1>1. GoodRow(r)
  BY DEF TableInvariant, GoodTable
<1>2. /\ finish # NoTime => finish > start
      /\ patchesFinish \/ finish = r.finish
      /\ runs' = (runs \ {r}) \cup {s}
      /\ IndexesHold(runs')
  BY DEF CorrectRun, Replace
<1>3. dnf \in BOOLEAN /\ (finish # NoTime => ~dnf)
  BY <1>1, <1>2 DEF GoodRow, Run
<1>4. GoodRow(s) /\ SameRun(r, s)
  <2>. HIDE DEF dnf
  <2>. QED  BY <1>1, <1>2, <1>3, TypedRowGood
<1>. HIDE DEF s
<1>5. \A o \in runs : SameRun(o, s) \/ SameRun(s, o) => o = r
  BY <1>4 DEF SameRun, TableInvariant, GoodTable
<1>. QED  BY <1>2, <1>4, <1>5 DEF TableInvariant, GoodTable

LEMMA FinishNowGood ==
  ASSUME TableInvariant, NEW r \in runs, NEW now \in Times, FinishNow(r, now)
  PROVE  GoodTable(runs')
BY FinishedRowGood DEF FinishNow, Replace

LEMMA VoidRunGood ==
  ASSUME TableInvariant, NEW r \in runs, VoidRun(r)
  PROVE  GoodTable(runs')
<1> DEFINE s == [r EXCEPT !.voided = TRUE]
<1>1. r \in Run /\ GoodRow(r)
  BY DEF TableInvariant, GoodTable, GoodRow
<1>2. GoodRow(s) /\ SameRun(r, s) /\ s.run = r.run /\ s.voided /\ ~Open(s)
  BY <1>1 DEF GoodRow, Run, SameRun, Open
<1>3. runs' = (runs \ {r}) \cup {s}
  BY DEF VoidRun, Replace
<1>. HIDE DEF s
<1>. QED  BY <1>2, <1>3, NarrowedRow DEF TableInvariant

\* The handler's own query is what keeps the restored run alone.
LEMMA UnvoidRunGood ==
  ASSUME TableInvariant, NEW r \in runs, UnvoidRun(r)
  PROVE  GoodTable(runs')
<1> DEFINE s == [r EXCEPT !.voided = FALSE]
<1>1. r \in Run /\ GoodRow(r)
  BY DEF TableInvariant, GoodTable, GoodRow
<1>2. /\ GoodRow(s) /\ SameRun(r, s) /\ s.run = r.run /\ s.finish = r.finish
      /\ s.entry = r.entry
  BY <1>1 DEF GoodRow, Run, SameRun
<1>3. \A o \in runs : (o # r /\ o.entry = s.entry /\ ~o.voided)
        => o.run # s.run /\ ~(Open(o) /\ Open(s))
  BY <1>2 DEF UnvoidRun, RunsOf, Open
<1>4. runs' = (runs \ {r}) \cup {s}
  BY DEF UnvoidRun, Replace
<1>. HIDE DEF s
<1>. QED  BY <1>2, <1>3, <1>4, ReplacedRow DEF TableInvariant

LEMMA MarkDnfGood ==
  ASSUME TableInvariant, NEW r \in runs, MarkDnf(r)
  PROVE  GoodTable(runs')
<1> DEFINE s == [r EXCEPT !.dnf = TRUE]
<1>1. r \in Run /\ GoodRow(r) /\ r.finish = NoTime
  BY DEF TableInvariant, GoodTable, GoodRow, MarkDnf, Open
<1>2. GoodRow(s) /\ SameRun(r, s) /\ s.run = r.run /\ s.voided = r.voided /\ ~Open(s)
  BY <1>1 DEF GoodRow, Run, SameRun, Open
<1>3. runs' = (runs \ {r}) \cup {s}
  BY DEF MarkDnf, Replace
<1>. HIDE DEF s
<1>. QED  BY <1>2, <1>3, NarrowedRow DEF TableInvariant

LEMMA UndoDnfGood ==
  ASSUME TableInvariant, NEW r \in runs, UndoDnf(r)
  PROVE  GoodTable(runs')
<1> DEFINE s == [r EXCEPT !.dnf = FALSE]
<1>1. r \in Run /\ GoodRow(r) /\ r.dnf
  BY DEF TableInvariant, GoodTable, GoodRow, UndoDnf
<1>2. /\ GoodRow(s) /\ SameRun(r, s) /\ s.run = r.run /\ s.voided = r.voided
      /\ s.entry = r.entry
  BY <1>1 DEF GoodRow, Run, SameRun
<1>3. \A o \in runs : (o # r /\ o.entry = r.entry /\ ~o.voided /\ ~r.voided)
        => o.run # r.run /\ ~Open(o)
  <2>1. r.voided \/ \A o \in runs : o.entry = r.entry => ~Open(o)
    BY DEF UndoDnf, OpenRuns, RunsOf
  <2>. QED  BY <2>1 DEF TableInvariant, GoodTable, IndexesHold
<1>4. runs' = (runs \ {r}) \cup {s}
  BY DEF UndoDnf, Replace
<1>. HIDE DEF s
<1>. QED  BY <1>2, <1>3, <1>4, ReplacedRow DEF TableInvariant

LEMMA MarkDnsGood ==
  ASSUME TableInvariant, NEW e \in Entries, MarkDns(e)
  PROVE  GoodTable(runs') /\ dns' \subseteq Entries
BY SubTable DEF MarkDns, TableInvariant, TypeOK

-----------------------------------------------------------------------------
(* The stage's own transitions *)

\* Activation adds a first row for entries that have none.
LEMMA ActivateGood ==
  ASSUME TableInvariant, Activate
  PROVE  GoodTable(runs')
<1> DEFINE slot(e) == firstStart + Interval * Position(e)
           starters == {e \in Entries : InEvent(e) /\ RunsOf(e) = {}}
           added == {NewRun(e, 1, slot(e), slot(e)) : e \in starters}
<1>1. CASE StartMode # "SLOT_SCHEDULE"
  BY <1>1 DEF Activate, TableInvariant
<1>2. CASE StartMode = "SLOT_SCHEDULE"
  <2>1. runs' = runs \cup added /\ \A e \in starters : slot(e) \in Times
    BY <1>2 DEF Activate
  <2>2. ~Shakedown /\ 1 \in Attempts
    BY <1>2, StageAssumption DEF Attempts
  <2>. HIDE DEF slot
  <2>3. \A a \in added : /\ GoodRow(a) /\ a.attempt = 1 /\ a.entry \in starters
                         /\ a = NewRun(a.entry, 1, slot(a.entry), slot(a.entry))
    BY <2>1, <2>2, NewRowGood
  <2>. HIDE DEF added
  <2>4. \A a, b \in added : a.entry = b.entry => a = b
    BY <2>3
  <2>5. \A a \in added, r \in runs : a.entry # r.entry
    BY <2>3 DEF RunsOf
  <2>6. \A r \in runs' : GoodRow(r)
    BY <2>1, <2>3 DEF TableInvariant, GoodTable
  <2>7. \A r, s \in runs' : SameRun(r, s) => r = s
    BY <2>1, <2>4, <2>5 DEF TableInvariant, GoodTable, SameRun
  <2>8. IndexesHold(runs')
    BY <2>1, <2>4, <2>5 DEF TableInvariant, GoodTable, IndexesHold
  <2>. QED  BY <2>6, <2>7, <2>8 DEF GoodTable
<1>. QED  BY <1>1, <1>2

LEMMA CloseGood ==
  ASSUME TableInvariant, Close
  PROVE  GoodTable(runs') /\ dns' \subseteq Entries
<1> DEFINE open == {r \in runs : Open(r)}
           F == [r \in runs |-> IF r \in open THEN [r EXCEPT !.dnf = TRUE] ELSE r]
<1>1. \A r \in runs : r \in Run /\ GoodRow(r)
  BY DEF TableInvariant, GoodTable, GoodRow
<1>2. \A r \in runs : /\ GoodRow(F[r]) /\ SameRun(r, F[r]) /\ F[r].run = r.run
                      /\ ~F[r].voided => ~r.voided
                      /\ Open(F[r]) => Open(r)
  <2>1. \A r \in open : LET s == [r EXCEPT !.dnf = TRUE] IN
          GoodRow(s) /\ SameRun(r, s) /\ s.run = r.run /\ s.voided = r.voided
          /\ ~Open(s)
    BY <1>1 DEF GoodRow, Run, SameRun, Open
  <2>. QED  BY <1>1, <2>1 DEF SameRun
<1>3. \A a \in runs' : \E r \in runs : a = F[r]
  BY DEF Close
<1>. HIDE DEF F
<1>4. GoodTable(runs')
  BY <1>2, <1>3, RewrittenRows DEF TableInvariant
<1>5. dns' \subseteq Entries
  BY DEF Close, TableInvariant, TypeOK
<1>. QED  BY <1>4, <1>5

-----------------------------------------------------------------------------
(* The invariant *)

LEMMA SplitTyped ==
  ASSUME TableInvariant, NEW e \in Entries, NEW g \in SplitGates, NEW at \in Times,
         PassSplit(e, g, at)
  PROVE  splits' \subseteq Split
<1>1. PICK r \in SplitRuns(e, g, at) :
        splits' = splits \cup {[entry |-> e, attempt |-> r.attempt, gate |-> g,
                                at |-> at, elapsed |-> at - r.start]}
  BY DEF PassSplit
<1>2. r \in Run /\ at > r.start
  BY DEF SplitRuns, OpenRuns, RunsOf, TableInvariant, TypeOK
<1>3. r.attempt \in Attempts /\ at - r.start \in Nat
  BY <1>2, StageAssumption DEF Run, Times
<1>. QED  BY <1>1, <1>3 DEF Split, TableInvariant, TypeOK

LEMMA InitTable == Init => TableInvariant
BY StageAssumption DEF Init, TableInvariant, GoodTable, IndexesHold, TypeOK

\* The types that are not the table's.
OtherTypes ==
  /\ splits \subseteq Split /\ dns \subseteq Entries
  /\ crew \in [Entries -> {"absent", "in", "out"}]
  /\ status \in {"NOT_STARTED", "ACTIVE", "CLOSED"}
  /\ firstStart \in Times

LEMMA PassingStep == TableInvariant /\ Passing => GoodTable(runs') /\ OtherTypes'
<1>. SUFFICES ASSUME TableInvariant, NEW e \in Entries, NEW at \in Times,
              \/ PassStart(e, at) \/ PassFinish(e, at) \/ PassStartFinish(e, at)
              \/ \E g \in SplitGates : PassSplit(e, g, at)
     PROVE  GoodTable(runs') /\ OtherTypes'
  BY DEF Passing
<1>0. GoodTable(runs) /\ OtherTypes
  BY DEF TableInvariant, TypeOK, OtherTypes
<1>1. CASE PassStart(e, at)
  BY <1>0, <1>1, StartRunGood, RecordPassingGood DEF PassStart, Timed, OtherTypes
<1>2. CASE PassFinish(e, at)
  BY <1>0, <1>2, FinishRunGood DEF PassFinish, Timed, OtherTypes
<1>3. CASE PassStartFinish(e, at)
  BY <1>0, <1>3, StartOrFinishGood, SlotStartOrFinishGood
  DEF PassStartFinish, Timed, OtherTypes
<1>4. CASE \E g \in SplitGates : PassSplit(e, g, at)
  BY <1>0, <1>4, SplitTyped DEF PassSplit, Timed, OtherTypes
<1>. QED  BY <1>1, <1>2, <1>3, <1>4

LEMMA SlottingStep == TableInvariant /\ Slotting => GoodTable(runs') /\ OtherTypes'
<1>. SUFFICES ASSUME TableInvariant, Slotting
     PROVE  GoodTable(runs') /\ OtherTypes'
  OBVIOUS
<1>0. GoodTable(runs) /\ OtherTypes
  BY DEF TableInvariant, TypeOK, OtherTypes
<1>1. CASE \E e \in Entries, now \in Times : QueueSlot(e, now)
  BY <1>0, <1>1, QueueSlotGood DEF QueueSlot, OtherTypes
<1>2. CASE \E e \in Entries, slot \in Times : NewSlot(e, slot)
  BY <1>0, <1>2, MoveToNewSlotGood DEF NewSlot, OtherTypes
<1>3. CASE \E now, by \in Times : DelaySlots(now, by)
  BY <1>0, <1>3, DelaySlotsGood DEF DelaySlots, OtherTypes
<1>4. CASE \E r \in runs : CancelCountdown(r)
  BY <1>0, <1>4, DeleteGood DEF CancelCountdown, OtherTypes
<1>. QED  BY <1>1, <1>2, <1>3, <1>4 DEF Slotting

LEMMA MarshallingStep == TableInvariant /\ Marshalling => GoodTable(runs') /\ OtherTypes'
<1>. SUFFICES ASSUME TableInvariant, Marshalling
     PROVE  GoodTable(runs') /\ OtherTypes'
  OBVIOUS
<1>0. GoodTable(runs) /\ OtherTypes
  BY DEF TableInvariant, TypeOK, OtherTypes
<1>1. CASE \E e \in Entries, start \in Times, finish \in Times \cup {NoTime} :
             CreateManual(e, start, finish)
  BY <1>0, <1>1, CreateManualGood DEF CreateManual, OtherTypes
<1>2. CASE \E r \in runs, start \in Times, finish \in Times \cup {NoTime},
             patchesFinish \in BOOLEAN : CorrectRun(r, start, finish, patchesFinish)
  BY <1>0, <1>2, CorrectRunGood DEF CorrectRun, OtherTypes
<1>3. CASE \E r \in runs, now \in Times : FinishNow(r, now)
  BY <1>0, <1>3, FinishNowGood DEF FinishNow, OtherTypes
<1>4. CASE \E r \in runs : VoidRun(r)
  BY <1>0, <1>4, VoidRunGood DEF VoidRun, OtherTypes
<1>5. CASE \E r \in runs : UnvoidRun(r)
  BY <1>0, <1>5, UnvoidRunGood DEF UnvoidRun, OtherTypes
<1>6. CASE \E r \in runs : MarkDnf(r)
  BY <1>0, <1>6, MarkDnfGood DEF MarkDnf, OtherTypes
<1>7. CASE \E r \in runs : UndoDnf(r)
  BY <1>0, <1>7, UndoDnfGood DEF UndoDnf, OtherTypes
<1>8. CASE \E r \in runs : Remove(r)
  BY <1>0, <1>8, DeleteGood DEF Remove, OtherTypes
<1>9. CASE \E e \in Entries : MarkDns(e)
  BY <1>0, <1>9, MarkDnsGood DEF MarkDns, OtherTypes
<1>10. CASE \E e \in Entries : UndoDns(e)
  BY <1>0, <1>10 DEF UndoDns, OtherTypes
<1>. QED  BY <1>1, <1>2, <1>3, <1>4, <1>5, <1>6, <1>7, <1>8, <1>9, <1>10 DEF Marshalling

LEMMA StageStepStep == TableInvariant /\ StageStep => GoodTable(runs') /\ OtherTypes'
<1>. SUFFICES ASSUME TableInvariant, StageStep
     PROVE  GoodTable(runs') /\ OtherTypes'
  OBVIOUS
<1>0. GoodTable(runs) /\ OtherTypes
  BY DEF TableInvariant, TypeOK, OtherTypes
<1>1. ASSUME NEW e \in Entries, Register(e)
      PROVE  GoodTable(runs') /\ OtherTypes'
  <2>1. GoodTable(runs') /\ dns' \subseteq dns
    BY <1>0, <1>1, MoveToNewSlotGood DEF Register
  <2>. QED  BY <1>0, <1>1, <2>1 DEF Register, OtherTypes
<1>2. CASE \E e \in Entries, in \in {"in", "out"} : SetInEvent(e, in)
  BY <1>0, <1>2 DEF SetInEvent, OtherTypes
<1>3. CASE Activate
  BY <1>0, <1>3, ActivateGood DEF Activate, OtherTypes
<1>4. CASE Close
  BY <1>0, <1>4, CloseGood DEF Close, OtherTypes
<1>. QED  BY <1>1, <1>2, <1>3, <1>4 DEF StageStep

LEMMA TableStep == TableInvariant /\ [Next]_vars => TableInvariant'
<1>. SUFFICES ASSUME TableInvariant, [Next]_vars
     PROVE  TableInvariant'
  OBVIOUS
<1>1. GoodTable(runs') /\ OtherTypes'
  <2>1. CASE UNCHANGED vars
    BY <2>1 DEF vars, TableInvariant, TypeOK, OtherTypes
  <2>. QED  BY <2>1, PassingStep, SlottingStep, MarshallingStep, StageStepStep DEF Next
<1>. QED  BY <1>1 DEF TableInvariant, GoodTable, GoodRow, TypeOK, OtherTypes

\* Whatever the start mode, the gates and the marshals' order of work, the
\* run table is consistent: rows, keys, run numbers and both unique indexes.
THEOREM TableCorrect == Spec => []TableInvariant
BY InitTable, TableStep, PTL DEF Spec

\* Every variable keeps its type.
THEOREM TypeCorrect == Spec => []TypeOK
<1>1. TableInvariant => TypeOK
  BY DEF TableInvariant
<1>. QED  BY <1>1, TableCorrect, PTL

\* The service's own checks are enough for the two unique indexes wherever the
\* model has no index guard: no order of handlers gives a car two counting
\* runs on one run number, or two open runs.
THEOREM OneCountingRunHolds == Spec => []OneCountingRun
<1>1. TableInvariant => OneCountingRun
  BY DEF TableInvariant, GoodTable, OneCountingRun
<1>. QED  BY <1>1, TableCorrect, PTL

\* Stored durations agree with the stored times after any sequence of timing,
\* typing, correcting, voiding, moving, delaying and closing.
THEOREM TimesAgreeHolds == Spec => []TimesAgree
<1>1. TableInvariant => TimesAgree
  BY DEF TableInvariant, GoodTable, GoodRow, TimesAgree
<1>. QED  BY <1>1, TableCorrect, PTL

-----------------------------------------------------------------------------
(* Rows that stay *)

\* Every row of the table is still there, with its key if not its times.
RowsStay == \A r \in runs : \E s \in runs' : SameRun(r, s)

LEMMA ReplacedStays ==
  ASSUME NEW r \in runs, NEW s, Replace(r, s), SameRun(r, s)
  PROVE  RowsStay
BY DEF Replace, RowsStay, SameRun

LEMMA SupersetStays ==
  ASSUME runs \subseteq runs'
  PROVE  RowsStay
BY DEF RowsStay, SameRun

\* A row keeps its key whatever other fields a handler rewrites.
LEMMA KeyKept ==
  ASSUME NEW r \in Run
  PROVE  /\ \A at, d : SameRun(r, [r EXCEPT !.finish = at, !.duration = d])
         /\ \A at : SameRun(r, [r EXCEPT !.passed = at])
         /\ \A a, b : SameRun(r, [r EXCEPT !.start = a, !.slot = b])
         /\ \A v : SameRun(r, [r EXCEPT !.voided = v])
         /\ \A d : SameRun(r, [r EXCEPT !.dnf = d])
BY DEF Run, SameRun

LEMMA StartRunStays ==
  ASSUME NEW e, NEW at, StartRun(e, at)
  PROVE  RowsStay /\ splits' = splits
<1>1. runs \subseteq runs'
  BY DEF StartRun
<1>. QED  BY <1>1, SupersetStays DEF StartRun

LEMMA FinishRunStays ==
  ASSUME runs \subseteq Run, NEW e, NEW at, FinishRun(e, at)
  PROVE  RowsStay /\ splits' = splits
<1>1. PICK r \in OpenRuns(e) :
        Replace(r, [r EXCEPT !.finish = at, !.duration = Duration(r.start, at)])
  BY DEF FinishRun
<1> DEFINE s == [r EXCEPT !.finish = at, !.duration = Duration(r.start, at)]
<1>2. r \in runs /\ SameRun(r, s) /\ Replace(r, s)
  BY <1>1, KeyKept DEF OpenRuns, RunsOf
<1>. HIDE DEF s
<1>3. RowsStay
  BY <1>2, ReplacedStays
<1>. QED  BY <1>3 DEF FinishRun

LEMMA RecordPassingStays ==
  ASSUME runs \subseteq Run, NEW e, NEW at, NEW after, RecordStartPassing(e, at, after)
  PROVE  RowsStay /\ splits' = splits
<1>1. PICK r \in SlotsNear(e, at, after) : Replace(r, [r EXCEPT !.passed = at])
  BY DEF RecordStartPassing
<1> DEFINE s == [r EXCEPT !.passed = at]
<1>2. r \in runs /\ SameRun(r, s) /\ Replace(r, s)
  BY <1>1, KeyKept DEF SlotsNear, RunsOf
<1>. HIDE DEF s
<1>3. RowsStay
  BY <1>2, ReplacedStays
<1>. QED  BY <1>3 DEF RecordStartPassing

LEMMA StartOrFinishStays ==
  ASSUME runs \subseteq Run, NEW e, NEW at,
         StartOrFinishRun(e, at) \/ SlotStartOrFinish(e, at)
  PROVE  RowsStay /\ splits' = splits
BY StartRunStays, FinishRunStays, RecordPassingStays
DEF SlotStartOrFinish, StartOrFinishRun

LEMMA MoveToNewSlotStays ==
  ASSUME runs \subseteq Run, NEW e, NEW slot, MoveToNewSlot(e, slot)
  PROVE  RowsStay
<1>1. CASE \E r \in OpenRuns(e) : Replace(r, [r EXCEPT !.start = slot, !.slot = slot])
  <2>1. PICK r \in OpenRuns(e) : Replace(r, [r EXCEPT !.start = slot, !.slot = slot])
    BY <1>1
  <2> DEFINE s == [r EXCEPT !.start = slot, !.slot = slot]
  <2>2. r \in runs /\ SameRun(r, s) /\ Replace(r, s)
    BY <2>1, KeyKept DEF OpenRuns, RunsOf
  <2>. HIDE DEF s
  <2>. QED  BY <2>2, ReplacedStays
<1>2. CASE runs \subseteq runs'
  BY <1>2, SupersetStays
<1>. QED  BY <1>1, <1>2 DEF MoveToNewSlot

-----------------------------------------------------------------------------
(* Splits *)

\* Rows that stay keep their splits from being orphans.
LEMMA KeptSplits ==
  ASSUME NoOrphanSplit, RowsStay, splits' \subseteq splits
  PROVE  NoOrphanSplit'
BY DEF NoOrphanSplit, RowsStay, SameRun

\* deleteRecorded takes the splits along: what is left belongs to another row.
LEMMA DeletedSplits ==
  ASSUME NoOrphanSplit, NEW r \in runs, Delete(r)
  PROVE  NoOrphanSplit'
BY DEF NoOrphanSplit, Delete, SameRun

\* Rows deleted without a look at their splits must have none.
LEMMA SplitlessDeleted ==
  ASSUME NoOrphanSplit, splits' = splits, NEW gone,
         \A r \in gone : ~HasSplit(r),
         \A r \in runs \ gone : \E s \in runs' : SameRun(r, s)
  PROVE  NoOrphanSplit'
BY DEF NoOrphanSplit, HasSplit, SameRun

LEMMA NewSplit ==
  ASSUME NoOrphanSplit, NEW e, NEW g, NEW at, PassSplit(e, g, at)
  PROVE  NoOrphanSplit'
<1>1. PICK r \in SplitRuns(e, g, at) :
        splits' = splits \cup {[entry |-> e, attempt |-> r.attempt, gate |-> g,
                                at |-> at, elapsed |-> at - r.start]}
  BY DEF PassSplit
<1>2. r \in runs /\ r.entry = e
  BY DEF SplitRuns, OpenRuns, RunsOf
<1>3. runs' = runs
  BY DEF PassSplit
<1>. QED  BY <1>1, <1>2, <1>3 DEF NoOrphanSplit, SameRun

LEMMA PassingSplits ==
  ASSUME runs \subseteq Run, NoOrphanSplit, Passing
  PROVE  NoOrphanSplit'
<1>1. PICK e \in Entries, at \in Times :
        \/ PassStart(e, at) \/ PassFinish(e, at) \/ PassStartFinish(e, at)
        \/ \E g \in SplitGates : PassSplit(e, g, at)
  BY DEF Passing
<1>2. CASE PassStart(e, at)
  BY <1>2, StartRunStays, RecordPassingStays, KeptSplits DEF PassStart
<1>3. CASE PassFinish(e, at)
  BY <1>3, FinishRunStays, KeptSplits DEF PassFinish
<1>4. CASE PassStartFinish(e, at)
  BY <1>4, StartOrFinishStays, KeptSplits DEF PassStartFinish
<1>. QED  BY <1>1, <1>2, <1>3, <1>4, NewSplit

LEMMA SlottingSplits ==
  ASSUME runs \subseteq Run, NoOrphanSplit, Slotting
  PROVE  NoOrphanSplit'
<1>1. CASE \E e \in Entries, now \in Times : QueueSlot(e, now)
  <2>1. runs \subseteq runs' /\ splits' = splits
    BY <1>1 DEF QueueSlot
  <2>. QED  BY <2>1, SupersetStays, KeptSplits
<1>2. CASE \E e \in Entries, slot \in Times : NewSlot(e, slot)
  BY <1>2, MoveToNewSlotStays, KeptSplits DEF NewSlot
<1>3. CASE \E now, by \in Times : DelaySlots(now, by)
  <2>1. PICK now \in Times, by \in Times : DelaySlots(now, by)
    BY <1>3
  <2> DEFINE m == Ahead(now)
  <2>2. /\ runs' = (runs \ m)
             \cup {[r EXCEPT !.start = r.slot + by, !.slot = r.slot + by] : r \in m}
        /\ splits' = splits
    BY <2>1 DEF DelaySlots
  <2>3. \A r \in m : SameRun(r, [r EXCEPT !.start = r.slot + by, !.slot = r.slot + by])
    BY KeyKept DEF Ahead
  <2>4. \A r \in runs : SameRun(r, r)
    BY DEF SameRun
  <2>5. RowsStay
    BY <2>2, <2>3, <2>4 DEF RowsStay, Ahead
  <2>. QED  BY <2>2, <2>5, KeptSplits
<1>4. CASE \E r \in runs : CancelCountdown(r)
  BY <1>4, DeletedSplits DEF CancelCountdown
<1>. QED  BY <1>1, <1>2, <1>3, <1>4 DEF Slotting

LEMMA MarshallingSplits ==
  ASSUME runs \subseteq Run, NoOrphanSplit, Marshalling
  PROVE  NoOrphanSplit'
<1>1. CASE \E e \in Entries, start \in Times, finish \in Times \cup {NoTime} :
             CreateManual(e, start, finish)
  <2>1. runs \subseteq runs' /\ splits' = splits
    BY <1>1 DEF CreateManual
  <2>. QED  BY <2>1, SupersetStays, KeptSplits
<1>2. ASSUME NEW r \in runs, NEW s, Replace(r, s), SameRun(r, s), splits' = splits
      PROVE  NoOrphanSplit'
  BY <1>2, ReplacedStays, KeptSplits
<1>3. ASSUME NEW r \in runs, NEW start, NEW finish, NEW patchesFinish,
             CorrectRun(r, start, finish, patchesFinish)
      PROVE  NoOrphanSplit'
  <2> DEFINE s == [r EXCEPT !.start = start, !.finish = finish,
                            !.duration = Duration(start, finish),
                            !.dnf = IF patchesFinish
                                    THEN finish = NoTime /\ status = "CLOSED" ELSE @]
  <2>1. Replace(r, s) /\ SameRun(r, s) /\ splits' = splits
    BY <1>3 DEF CorrectRun, Run, SameRun
  <2>. HIDE DEF s
  <2>. QED  BY <1>2, <2>1
<1>4. ASSUME NEW r \in runs, NEW now, FinishNow(r, now)
      PROVE  NoOrphanSplit'
  <2> DEFINE s == [r EXCEPT !.finish = now, !.duration = Duration(r.start, now)]
  <2>1. Replace(r, s) /\ SameRun(r, s) /\ splits' = splits
    BY <1>4, KeyKept DEF FinishNow
  <2>. HIDE DEF s
  <2>. QED  BY <1>2, <2>1
<1>5. ASSUME NEW r \in runs, VoidRun(r) \/ UnvoidRun(r) \/ MarkDnf(r) \/ UndoDnf(r)
      PROVE  NoOrphanSplit'
  <2>1. ASSUME NEW v, Replace(r, [r EXCEPT !.voided = v]), splits' = splits
        PROVE  NoOrphanSplit'
    <3> DEFINE s == [r EXCEPT !.voided = v]
    <3>1. Replace(r, s) /\ SameRun(r, s)
      BY <2>1, KeyKept
    <3>. HIDE DEF s
    <3>. QED  BY <1>2, <2>1, <3>1
  <2>2. ASSUME NEW d, Replace(r, [r EXCEPT !.dnf = d]), splits' = splits
        PROVE  NoOrphanSplit'
    <3> DEFINE s == [r EXCEPT !.dnf = d]
    <3>1. Replace(r, s) /\ SameRun(r, s)
      BY <2>2, KeyKept
    <3>. HIDE DEF s
    <3>. QED  BY <1>2, <2>2, <3>1
  <2>. QED  BY <1>5, <2>1, <2>2 DEF VoidRun, UnvoidRun, MarkDnf, UndoDnf
<1>6. CASE \E r \in runs : Remove(r)
  BY <1>6, DeletedSplits DEF Remove
<1>7. ASSUME NEW e \in Entries, MarkDns(e)
      PROVE  NoOrphanSplit'
  <2> DEFINE counting == {r \in RunsOf(e) : ~r.voided}
  <2>1. /\ runs' = runs \ counting /\ splits' = splits
        /\ \A r \in counting : ~HasSplit(r)
    BY <1>7 DEF MarkDns
  <2>2. \A r \in runs \ counting : r \in runs' /\ SameRun(r, r)
    BY <2>1 DEF SameRun
  <2>. QED  BY <2>1, <2>2, SplitlessDeleted
<1>8. CASE \E e \in Entries : UndoDns(e)
  BY <1>8 DEF UndoDns, NoOrphanSplit
<1>. QED  BY <1>1, <1>3, <1>4, <1>5, <1>6, <1>7, <1>8 DEF Marshalling

LEMMA StageSplits ==
  ASSUME runs \subseteq Run, NoOrphanSplit, StageStep
  PROVE  NoOrphanSplit'
<1>1. ASSUME NEW e \in Entries, Register(e)
      PROVE  NoOrphanSplit'
  <2>1. RowsStay /\ splits' = splits
    BY <1>1, MoveToNewSlotStays, SupersetStays DEF Register
  <2>. QED  BY <2>1, KeptSplits
<1>2. CASE \E e \in Entries, in \in {"in", "out"} : SetInEvent(e, in)
  BY <1>2 DEF SetInEvent, NoOrphanSplit
<1>3. CASE Activate
  <2>1. runs \subseteq runs' /\ splits' = splits
    BY <1>3 DEF Activate
  <2>. QED  BY <2>1, SupersetStays, KeptSplits
<1>4. CASE Close
  <2> DEFINE open == {r \in runs : Open(r)}
             unstarted == {r \in open : Untouched(r) /\ ~HasSplit(r)}
  <2>1. /\ runs' = (runs \ open) \cup {[r EXCEPT !.dnf = TRUE] : r \in open \ unstarted}
        /\ splits' = splits
    BY <1>4 DEF Close
  <2>2. \A r \in unstarted : ~HasSplit(r)
    OBVIOUS
  <2>3. \A r \in runs : SameRun(r, r) /\ SameRun(r, [r EXCEPT !.dnf = TRUE])
    BY KeyKept DEF SameRun
  <2>. HIDE DEF unstarted
  <2>4. \A r \in runs \ unstarted : \E s \in runs' : SameRun(r, s)
    BY <2>1, <2>3
  <2>. QED  BY <2>1, <2>2, <2>4, SplitlessDeleted
<1>. QED  BY <1>1, <1>2, <1>3, <1>4 DEF StageStep

\* Nothing in the database ties a split to its run.  Still, whatever marshals
\* delete, mark as not started or close, no split outlives the row it is of.
THEOREM NoOrphanSplitHolds == Spec => []NoOrphanSplit
<1>1. Init => NoOrphanSplit
  BY DEF Init, NoOrphanSplit
<1>2. TypeOK /\ NoOrphanSplit /\ [Next]_vars => NoOrphanSplit'
  <2>1. TypeOK => runs \subseteq Run
    BY DEF TypeOK
  <2>2. NoOrphanSplit /\ UNCHANGED vars => NoOrphanSplit'
    BY DEF vars, NoOrphanSplit
  <2>. QED  BY <2>1, <2>2, PassingSplits, SlottingSplits, MarshallingSplits,
               StageSplits DEF Next
<1>. QED  BY <1>1, <1>2, TypeCorrect, PTL DEF Spec

-----------------------------------------------------------------------------
(* Passings *)

Over(r) == r.finish # NoTime \/ r.dnf \/ r.voided

\* The runs that are over are as they were but for start-line evidence.
OverStays ==
  \A r \in runs : Over(r) => \E s \in runs' : s = [r EXCEPT !.passed = s.passed]

LEMMA SupersetOver ==
  ASSUME runs \subseteq Run, runs \subseteq runs'
  PROVE  OverStays
<1>1. \A r \in runs : r = [r EXCEPT !.passed = r.passed]
  BY DEF Run
<1>. QED  BY <1>1 DEF OverStays

\* A row replaced while it is open is none of them.
LEMMA OpenReplacedOver ==
  ASSUME runs \subseteq Run, NEW r \in runs, NEW s, Open(r), Replace(r, s)
  PROVE  OverStays
<1>1. \A o \in runs : o = [o EXCEPT !.passed = o.passed]
  BY DEF Run
<1>2. \A o \in runs : Over(o) => o \in runs'
  BY DEF Over, Open, Replace
<1>. QED  BY <1>1, <1>2 DEF OverStays

LEMMA StartRunOver ==
  ASSUME runs \subseteq Run, NEW e, NEW at, StartRun(e, at)
  PROVE  OverStays
<1>1. runs \subseteq runs'
  BY DEF StartRun
<1>. QED  BY <1>1, SupersetOver

LEMMA FinishRunOver ==
  ASSUME runs \subseteq Run, NEW e, NEW at, FinishRun(e, at)
  PROVE  OverStays
<1>1. PICK r \in OpenRuns(e) : \E s : Replace(r, s)
  BY DEF FinishRun
<1>2. r \in runs /\ Open(r)
  BY DEF OpenRuns, RunsOf
<1>. QED  BY <1>1, <1>2, OpenReplacedOver

LEMMA RecordPassingOver ==
  ASSUME runs \subseteq Run, NEW e, NEW at, NEW after, RecordStartPassing(e, at, after)
  PROVE  OverStays
<1>1. PICK q \in SlotsNear(e, at, after) : Replace(q, [q EXCEPT !.passed = at])
  BY DEF RecordStartPassing
<1> DEFINE s == [q EXCEPT !.passed = at]
<1>2. q \in runs /\ s = [q EXCEPT !.passed = s.passed] /\ s \in runs'
  BY <1>1 DEF SlotsNear, RunsOf, Replace, Run
<1>. HIDE DEF s
<1>3. \A r \in runs \ {q} : r = [r EXCEPT !.passed = r.passed] /\ r \in runs'
  BY <1>1 DEF Replace, Run
<1>. QED  BY <1>2, <1>3 DEF OverStays

\* Late, repeated or out of order, and whatever marshals have voided or undone
\* before it, a passing times the open run of its car or starts a new one: the
\* times and the verdict of every other run are left alone.
THEOREM PassingsTimeOnlyOpenRunsHolds == Spec => PassingsTimeOnlyOpenRuns
<1>1. TypeOK /\ Passing => OverStays
  <2>. SUFFICES ASSUME TypeOK, NEW e \in Entries, NEW at \in Times,
              \/ PassStart(e, at) \/ PassFinish(e, at) \/ PassStartFinish(e, at)
              \/ \E g \in SplitGates : PassSplit(e, g, at)
       PROVE  OverStays
    BY DEF Passing
  <2>0. runs \subseteq Run
    BY DEF TypeOK
  <2>1. StartOrFinishRun(e, at) \/ SlotStartOrFinish(e, at) => OverStays
    BY <2>0, StartRunOver, FinishRunOver, RecordPassingOver
    DEF StartOrFinishRun, SlotStartOrFinish
  <2>2. CASE PassStart(e, at)
    BY <2>0, <2>2, StartRunOver, RecordPassingOver DEF PassStart
  <2>3. CASE PassFinish(e, at)
    BY <2>0, <2>3, FinishRunOver DEF PassFinish
  <2>4. CASE PassStartFinish(e, at)
    BY <2>1, <2>4 DEF PassStartFinish
  <2>5. CASE \E g \in SplitGates : PassSplit(e, g, at)
    BY <2>0, <2>5, SupersetOver DEF PassSplit
  <2>. QED  BY <2>2, <2>3, <2>4, <2>5
<1>2. TypeOK /\ [Next]_vars
        => [Passing => \A r \in runs :
              (r.finish # NoTime \/ r.dnf \/ r.voided)
                => \E s \in runs' : s = [r EXCEPT !.passed = s.passed]]_vars
  BY <1>1 DEF OverStays, Over
<1>. QED  BY <1>2, TypeCorrect, PTL DEF Spec, PassingsTimeOnlyOpenRuns

-----------------------------------------------------------------------------
(* Closing *)

\* Only the close handler closes a stage.
LEMMA OnlyClose == [Next]_vars /\ status # "CLOSED" /\ status' = "CLOSED" => Close
BY DEF Next, vars, Passing, Slotting, Marshalling, StageStep, PassStart, PassFinish,
   PassStartFinish, PassSplit, Timed, QueueSlot, NewSlot, DelaySlots, CancelCountdown,
   CreateManual, CorrectRun, FinishNow, VoidRun, UnvoidRun, MarkDnf, UndoDnf, Remove,
   MarkDns, UndoDns, Register, SetInEvent, Activate

\* Closing a stage settles every run and, on a counted stage, every crew still
\* in the event: finished, DNF or DNS, whatever was voided or deleted before.
THEOREM ClosingAccountsForEveryCarHolds == Spec => ClosingAccountsForEveryCar
<1>1. TypeOK /\ Close =>
        /\ \A r \in runs' : r.finish # NoTime \/ r.dnf \/ r.voided
        /\ ~Shakedown => \A e \in Entries : InEvent(e) =>
             e \in dns' \/ \E r \in runs' : r.entry = e /\ ~r.voided
  <2>. SUFFICES ASSUME TypeOK, Close
       PROVE  /\ \A r \in runs' : r.finish # NoTime \/ r.dnf \/ r.voided
              /\ ~Shakedown => \A e \in Entries : InEvent(e) =>
                   e \in dns' \/ \E r \in runs' : r.entry = e /\ ~r.voided
    OBVIOUS
  <2>1. \A r \in runs : [r EXCEPT !.dnf = TRUE].dnf
    BY DEF TypeOK, Run
  <2>2. \A r \in runs' : \/ r \in runs /\ ~Open(r)
                         \/ \E o \in runs : r = [o EXCEPT !.dnf = TRUE]
    BY DEF Close
  <2>3. \A r \in runs' : r.finish # NoTime \/ r.dnf \/ r.voided
    BY <2>1, <2>2 DEF Open
  <2>4. ~Shakedown => \A e \in Entries : InEvent(e) =>
          e \in dns' \/ \E r \in runs' : r.entry = e /\ ~r.voided
    BY DEF Close
  <2>. QED  BY <2>3, <2>4
<1>2. TypeOK /\ [Next]_vars =>
        [(status # "CLOSED" /\ status' = "CLOSED") =>
           /\ \A r \in runs' : r.finish # NoTime \/ r.dnf \/ r.voided
           /\ ~Shakedown => \A e \in Entries : InEvent(e) =>
                e \in dns' \/ \E r \in runs' : r.entry = e /\ ~r.voided]_vars
  BY <1>1, OnlyClose
<1>. QED  BY <1>2, TypeCorrect, PTL DEF Spec, ClosingAccountsForEveryCar

-----------------------------------------------------------------------------
(* What becomes of a row *)

\* The steps that give slots on a timetable that runs.
Reslotting ==
  /\ status = "ACTIVE" /\ status' = "ACTIVE" /\ StartMode = "SLOT_SCHEDULE"
  /\ \/ \E e \in Entries, slot \in Times : MoveToNewSlot(e, slot)
     \/ \E now, by \in Times : DelaySlots(now, by)

\* A row r lives on as s.  Only a timetable moves slots, and only back; a car
\* that has left keeps its slot; nothing but a restored run opens on a closed
\* stage.
Follows(r, s) ==
  /\ SameRun(r, s)
  /\ s.slot >= r.slot
  /\ ~Reslotting => s.slot = r.slot
  /\ r.passed # NoTime => /\ s.slot = r.slot
                          /\ s.passed # NoTime /\ s.passed <= r.passed
  /\ (status' = "CLOSED" /\ Open(s)) => /\ r.finish = NoTime /\ ~r.dnf
                                        /\ r.voided \/ status = "CLOSED"

\* A row that was not there: its key is new, it is not open on a closed stage,
\* off a timetable its slot is a gap behind every other, and on a timetable only
\* activation and those steps give it one.
Fresh(s) ==
  /\ \A r \in runs : ~SameRun(r, s)
  /\ status' = "CLOSED" => ~Open(s)
  /\ StartMode # "SLOT_SCHEDULE" /\ s.slot # NoTime
       => \A r \in SlotRuns : s.slot >= r.slot + Gap
  /\ StartMode = "SLOT_SCHEDULE" /\ s.slot # NoTime => Reslotting \/ Activate

\* What every step keeps to.
RowLaw ==
  /\ \A s \in runs' : Fresh(s) \/ \E r \in runs : Follows(r, s)
  /\ StartMode # "SLOT_SCHEDULE"
       => \A s, t \in runs' : Fresh(s) /\ Fresh(t) => s = t
  /\ \A r \in runs : r.passed # NoTime =>
       (\E d \in runs : Remove(d)) \/ \E s \in runs' : SameRun(r, s)

\* A row that no handler touched, and a step that closes no stage.
LEMMA SameFollows ==
  ASSUME NEW r \in Run, status' = "CLOSED" => status = "CLOSED"
  PROVE  Follows(r, r)
BY DEF Follows, SameRun, Run, Times, NoTime, Open

\* Rows of the table are never fresh.
LEMMA FollowedNotFresh ==
  ASSUME NEW r \in runs, NEW s, Follows(r, s)
  PROVE  ~Fresh(s)
BY DEF Follows, Fresh

LEMMA ReplacedLaw ==
  ASSUME runs \subseteq Run, status' = "CLOSED" => status = "CLOSED",
         NEW r \in runs, NEW s, Replace(r, s), Follows(r, s)
  PROVE  RowLaw
<1>1. \A o \in runs : Follows(o, o)
  BY SameFollows
<1>2. \A t \in runs' : \E o \in runs : Follows(o, t)
  BY <1>1 DEF Replace
<1>3. \A t \in runs' : ~Fresh(t)
  BY <1>2, FollowedNotFresh
<1>4. RowsStay
  BY ReplacedStays DEF Follows
<1>. QED  BY <1>2, <1>3, <1>4 DEF RowLaw, RowsStay

LEMMA AddedLaw ==
  ASSUME runs \subseteq Run, status' = "CLOSED" => status = "CLOSED",
         NEW new, runs' = runs \cup {new}, Fresh(new)
  PROVE  RowLaw
<1>1. \A o \in runs : Follows(o, o)
  BY SameFollows
<1>2. \A t \in runs : ~Fresh(t)
  BY <1>1, FollowedNotFresh
<1>3. RowsStay
  BY SupersetStays
<1>. QED  BY <1>1, <1>2, <1>3 DEF RowLaw, RowsStay

\* Rows go, but none of a car that has left, unless a marshal removes it.
LEMMA DeletedLaw ==
  ASSUME runs \subseteq Run, status' = "CLOSED" => status = "CLOSED",
         runs' \subseteq runs,
         (\E d \in runs : Remove(d)) \/ \A r \in runs \ runs' : r.passed = NoTime
  PROVE  RowLaw
<1>1. \A o \in runs : Follows(o, o)
  BY SameFollows
<1>2. \A t \in runs : ~Fresh(t)
  BY <1>1, FollowedNotFresh
<1>3. \A r \in runs : SameRun(r, r)
  BY DEF SameRun
<1>. QED  BY <1>1, <1>2, <1>3 DEF RowLaw

LEMMA NextAttemptFresh ==
  ASSUME runs \subseteq Run, NEW e, NEW n \in Attempts, IsNextAttempt(e, n),
         NEW s, s.entry = e, s.attempt = n
  PROVE  \A r \in runs : ~SameRun(r, s)
BY DEF IsNextAttempt, RunsOf, SameRun, Run, Attempts

-----------------------------------------------------------------------------
(* The handlers keep to it. *)

LEMMA StartRunLaw ==
  ASSUME runs \subseteq Run, status' = status, status = "ACTIVE",
         NEW e \in Entries, NEW at, StartRun(e, at)
  PROVE  RowLaw
<1>1. PICK n \in Attempts : /\ IsNextAttempt(e, n)
                            /\ runs' = runs \cup {NewRun(e, n, at, NoTime)}
  BY DEF StartRun
<1> DEFINE new == NewRun(e, n, at, NoTime)
<1>2. new.entry = e /\ new.attempt = n /\ new.slot = NoTime
  BY DEF NewRun
<1>. HIDE DEF new
<1>3. Fresh(new)
  BY <1>1, <1>2, NextAttemptFresh DEF Fresh
<1>. QED  BY <1>1, <1>3, AddedLaw DEF new

\* A finished row is open no longer; its slot and evidence are as they were.
LEMMA FinishedFollows ==
  ASSUME NEW r \in Run, NEW at \in Times, NEW d
  PROVE  Follows(r, [r EXCEPT !.finish = at, !.duration = d])
BY DEF Follows, SameRun, Run, Open, Times, NoTime

LEMMA FinishRunLaw ==
  ASSUME runs \subseteq Run, status' = status, NEW e, NEW at \in Times, FinishRun(e, at)
  PROVE  RowLaw
<1>1. PICK r \in OpenRuns(e) :
        Replace(r, [r EXCEPT !.finish = at, !.duration = Duration(r.start, at)])
  BY DEF FinishRun
<1>2. r \in runs
  BY DEF OpenRuns, RunsOf
<1>. QED  BY <1>1, <1>2, FinishedFollows, ReplacedLaw

LEMMA RecordPassingLaw ==
  ASSUME runs \subseteq Run, status' = status, status = "ACTIVE",
         NEW e, NEW at \in Times, NEW after, RecordStartPassing(e, at, after)
  PROVE  RowLaw
<1>1. PICK r \in SlotsNear(e, at, after) : /\ r.passed = NoTime \/ r.passed > at
                                           /\ Replace(r, [r EXCEPT !.passed = at])
  BY DEF RecordStartPassing
<1>2. r \in runs /\ r \in Run
  BY DEF SlotsNear, RunsOf
<1>3. Follows(r, [r EXCEPT !.passed = at])
  BY <1>1, <1>2 DEF Follows, SameRun, Run, Open, Times, NoTime
<1>. QED  BY <1>1, <1>2, <1>3, ReplacedLaw

LEMMA PassingLaw ==
  ASSUME runs \subseteq Run, Passing
  PROVE  RowLaw
<1>1. PICK e \in Entries, at \in Times :
        \/ PassStart(e, at) \/ PassFinish(e, at) \/ PassStartFinish(e, at)
        \/ \E g \in SplitGates : PassSplit(e, g, at)
  BY DEF Passing
<1>2. status' = status /\ status = "ACTIVE"
  BY <1>1 DEF PassStart, PassFinish, PassStartFinish, PassSplit, Timed
<1>3. StartRun(e, at) \/ FinishRun(e, at) => RowLaw
  BY <1>2, StartRunLaw, FinishRunLaw
<1>4. \A after : RecordStartPassing(e, at, after) => RowLaw
  BY <1>2, RecordPassingLaw
<1>5. StartOrFinishRun(e, at) \/ SlotStartOrFinish(e, at) => RowLaw
  BY <1>3, <1>4 DEF StartOrFinishRun, SlotStartOrFinish
<1>6. CASE PassStart(e, at) \/ PassFinish(e, at) \/ PassStartFinish(e, at)
  BY <1>3, <1>4, <1>5, <1>6 DEF PassStart, PassFinish, PassStartFinish
<1>7. CASE \E g \in SplitGates : PassSplit(e, g, at)
  <2>1. runs' = runs
    BY <1>7 DEF PassSplit
  <2>. QED  BY <1>2, <2>1, DeletedLaw
<1>. QED  BY <1>1, <1>6, <1>7

LEMMA QueueSlotLaw ==
  ASSUME runs \subseteq Run, NEW e, NEW now, QueueSlot(e, now)
  PROVE  RowLaw
<1>1. PICK slot \in Times, n \in Attempts :
        /\ \A r \in SlotRuns : slot >= r.slot + Gap
        /\ IsNextAttempt(e, n)
        /\ runs' = runs \cup {NewRun(e, n, slot, slot)}
  BY DEF QueueSlot
<1> DEFINE new == NewRun(e, n, slot, slot)
<1>2. new.entry = e /\ new.attempt = n /\ new.slot = slot
  BY DEF NewRun
<1>3. status' = "ACTIVE" /\ status = "ACTIVE" /\ StartMode # "SLOT_SCHEDULE"
  BY DEF QueueSlot
<1>. HIDE DEF new
<1>4. Fresh(new)
  BY <1>1, <1>2, <1>3, NextAttemptFresh DEF Fresh
<1>. QED  BY <1>1, <1>3, <1>4, AddedLaw DEF new

\* The new slot is behind the slot the car had, and the car has not left.
LEMMA MoveToNewSlotLaw ==
  ASSUME runs \subseteq Run, StartMode = "SLOT_SCHEDULE", status' = status,
         status = "ACTIVE", NEW e \in Entries, NEW slot \in Times, MoveToNewSlot(e, slot)
  PROVE  RowLaw
<1>0. Reslotting
  BY DEF Reslotting
<1>1. CASE \E r \in OpenRuns(e) :
             /\ r.slot # NoTime /\ r.passed = NoTime
             /\ Replace(r, [r EXCEPT !.start = slot, !.slot = slot])
  <2>1. PICK r \in OpenRuns(e) :
             /\ r.slot # NoTime /\ r.passed = NoTime
             /\ Replace(r, [r EXCEPT !.start = slot, !.slot = slot])
    BY <1>1
  <2>2. r \in runs /\ r \in Run /\ r \in SlotRuns
    BY <2>1 DEF OpenRuns, RunsOf, SlotRuns
  <2>3. r.slot <= slot - Interval
    BY <2>2 DEF MoveToNewSlot, IsAfterLastSlot, NoSlotAfter
  <2>4. r.slot <= slot
    BY <2>2, <2>3, StageAssumption DEF Run, Times, NoTime
  <2>5. Follows(r, [r EXCEPT !.start = slot, !.slot = slot])
    BY <1>0, <2>1, <2>2, <2>4 DEF Follows, SameRun, Run
  <2>. QED  BY <2>1, <2>2, <2>5, ReplacedLaw
<1>2. CASE \E n \in Attempts : /\ IsNextAttempt(e, n)
                               /\ runs' = runs \cup {NewRun(e, n, slot, slot)}
  <2>1. PICK n \in Attempts : /\ IsNextAttempt(e, n)
                              /\ runs' = runs \cup {NewRun(e, n, slot, slot)}
    BY <1>2
  <2> DEFINE new == NewRun(e, n, slot, slot)
  <2>2. new.entry = e /\ new.attempt = n
    BY DEF NewRun
  <2>. HIDE DEF new
  <2>3. Fresh(new)
    BY <1>0, <2>1, <2>2, NextAttemptFresh DEF Fresh
  <2>. QED  BY <2>1, <2>3, AddedLaw DEF new
<1>. QED  BY <1>1, <1>2 DEF MoveToNewSlot

LEMMA DelaySlotsLaw ==
  ASSUME runs \subseteq Run, NEW now \in Times, NEW by \in Times, DelaySlots(now, by)
  PROVE  RowLaw
<1> DEFINE m == Ahead(now)
           moved(r) == [r EXCEPT !.start = r.slot + by, !.slot = r.slot + by]
<1>1. /\ runs' = (runs \ m) \cup {moved(r) : r \in m}
      /\ StartMode = "SLOT_SCHEDULE" /\ status' = status /\ status # "CLOSED"
  BY DEF DelaySlots
<1>2. \A r \in m : Follows(r, moved(r))
  <2>. SUFFICES ASSUME NEW r \in m  PROVE Follows(r, moved(r))
    OBVIOUS
  <2>1. r \in Run /\ r.passed = NoTime /\ r.slot + by >= r.slot
    BY StageAssumption DEF Ahead, Run, Times, NoTime
  <2>2. Reslotting
    BY <1>1 DEF Ahead, Reslotting
  <2>. QED  BY <1>1, <2>1, <2>2 DEF Follows, SameRun, Run
<1>3. \A r \in runs : Follows(r, r)
  BY <1>1, SameFollows
<1>. HIDE DEF moved
<1>4. \A s \in runs' : \E r \in runs : Follows(r, s)
  BY <1>1, <1>2, <1>3 DEF Ahead
<1>5. \A r \in runs : \E s \in runs' : SameRun(r, s)
  BY <1>1, <1>2, <1>3 DEF Follows, Ahead
<1>. QED  BY <1>1, <1>4, <1>5 DEF RowLaw

LEMMA SlottingLaw ==
  ASSUME runs \subseteq Run, Slotting
  PROVE  RowLaw
<1>1. CASE \E e \in Entries, slot \in Times : NewSlot(e, slot)
  BY <1>1, MoveToNewSlotLaw DEF NewSlot
<1>2. CASE \E r \in runs : CancelCountdown(r)
  <2>1. PICK r \in runs : CancelCountdown(r)
    BY <1>2
  <2>2. runs' = runs \ {r} /\ r.passed = NoTime /\ status' = status
    BY <2>1 DEF CancelCountdown, Delete
  <2>. QED  BY <2>2, DeletedLaw
<1>. QED  BY <1>1, <1>2, QueueSlotLaw, DelaySlotsLaw DEF Slotting

\* A marshal's DNF, void, or typed times leave slot and evidence alone.
LEMMA MarkedFollows ==
  ASSUME NEW r \in Run
  PROVE  /\ \A v : status' = status => Follows(r, [r EXCEPT !.voided = v])
         /\ \A d : status' = status /\ (d \/ status # "CLOSED") =>
                     Follows(r, [r EXCEPT !.dnf = d])
BY DEF Follows, SameRun, Run, Open, Times, NoTime

LEMMA CorrectRunLaw ==
  ASSUME runs \subseteq Run, NEW r \in runs, NEW start, NEW finish, NEW patchesFinish,
         CorrectRun(r, start, finish, patchesFinish)
  PROVE  RowLaw
<1> DEFINE dnf == IF patchesFinish THEN finish = NoTime /\ status = "CLOSED" ELSE r.dnf
           s == [r EXCEPT !.start = start, !.finish = finish,
                          !.duration = Duration(start, finish), !.dnf = dnf]
<1>1. /\ Replace(r, s) /\ status' = status
      /\ patchesFinish \/ finish = r.finish
  BY DEF CorrectRun
<1>2. r \in Run
  OBVIOUS
<1>3. /\ SameRun(r, s) /\ s.slot = r.slot /\ s.passed = r.passed /\ s.voided = r.voided
      /\ s.finish = finish /\ s.dnf = dnf
  BY <1>2 DEF Run, SameRun
<1>4. status = "CLOSED" /\ Open(s) => r.finish = NoTime /\ ~r.dnf
  BY <1>1, <1>3 DEF Open
<1>. HIDE DEF s
<1>5. Follows(r, s)
  BY <1>1, <1>2, <1>3, <1>4 DEF Follows, Run, Times, NoTime
<1>. QED  BY <1>1, <1>5, ReplacedLaw

LEMMA MarshallingLaw ==
  ASSUME runs \subseteq Run, Marshalling
  PROVE  RowLaw
<1>1. ASSUME NEW e \in Entries, NEW start \in Times, NEW finish \in Times \cup {NoTime},
             CreateManual(e, start, finish)
      PROVE  RowLaw
  <2> DEFINE dnf == finish = NoTime /\ status = "CLOSED"
  <2>1. PICK n \in Attempts :
          /\ IsNextAttempt(e, n)
          /\ runs' = runs \cup {ManualRow(e, n, start, finish, dnf)}
    BY <1>1 DEF CreateManual, ManualRow
  <2> DEFINE new == ManualRow(e, n, start, finish, dnf)
  <2>2. /\ new.entry = e /\ new.attempt = n /\ new.slot = NoTime
        /\ new.finish = finish /\ new.dnf = dnf
    BY DEF ManualRow, NewRun
  <2>3. status' = status
    BY <1>1 DEF CreateManual
  <2>4. status' = "CLOSED" => ~Open(new)
    BY <2>2, <2>3 DEF Open
  <2>. HIDE DEF new, dnf
  <2>5. Fresh(new)
    BY <2>1, <2>2, <2>4, NextAttemptFresh DEF Fresh
  <2>. QED  BY <2>1, <2>3, <2>5, AddedLaw DEF new
<1>2. ASSUME NEW r \in runs, NEW now \in Times, FinishNow(r, now)
      PROVE  RowLaw
  BY <1>2, FinishedFollows, ReplacedLaw DEF FinishNow
<1>3. ASSUME NEW r \in runs, VoidRun(r) \/ UnvoidRun(r) \/ MarkDnf(r) \/ UndoDnf(r)
      PROVE  RowLaw
  <2>1. CASE VoidRun(r)
    BY <2>1, MarkedFollows, ReplacedLaw DEF VoidRun
  <2>2. CASE UnvoidRun(r)
    BY <2>2, MarkedFollows, ReplacedLaw DEF UnvoidRun
  <2>3. CASE MarkDnf(r)
    BY <2>3, MarkedFollows, ReplacedLaw DEF MarkDnf
  <2>4. CASE UndoDnf(r)
    BY <2>4, MarkedFollows, ReplacedLaw DEF UndoDnf
  <2>. QED  BY <1>3, <2>1, <2>2, <2>3, <2>4
<1>4. CASE \E r \in runs : Remove(r)
  <2>1. runs' \subseteq runs /\ status' = status
    BY <1>4 DEF Remove, Delete
  <2>. QED  BY <1>4, <2>1, DeletedLaw
<1>5. ASSUME NEW e \in Entries, MarkDns(e) \/ UndoDns(e)
      PROVE  RowLaw
  <2>1. /\ runs' \subseteq runs /\ status' = status
        /\ \A r \in runs \ runs' : r.passed = NoTime
    BY <1>5 DEF MarkDns, UndoDns, Untouched
  <2>. QED  BY <2>1, DeletedLaw
<1>. QED  BY <1>1, <1>2, <1>3, <1>4, <1>5, CorrectRunLaw DEF Marshalling

\* Activation gives first rows to cars that have none; closing marks open rows
\* and deletes those of cars that never came.
LEMMA ActivateLaw ==
  ASSUME runs \subseteq Run, Activate
  PROVE  RowLaw
<1> DEFINE slot(e) == firstStart + Interval * Position(e)
           starters == {e \in Entries : InEvent(e) /\ RunsOf(e) = {}}
           added == {NewRun(e, 1, slot(e), slot(e)) : e \in starters}
<1>1. status' = "ACTIVE"
  BY DEF Activate
<1>2. CASE StartMode # "SLOT_SCHEDULE"
  <2>1. runs' = runs
    BY <1>2 DEF Activate
  <2>. QED  BY <1>1, <2>1, DeletedLaw
<1>3. CASE StartMode = "SLOT_SCHEDULE"
  <2>1. runs' = runs \cup added
    BY <1>3 DEF Activate
  <2>. HIDE DEF slot
  <2>2. \A s \in added : s.entry \in starters
    BY DEF NewRun
  <2>3. \A s \in added : Fresh(s)
    BY <1>1, <1>3, <2>2 DEF Fresh, SameRun, RunsOf
  <2>4. \A r \in runs : Follows(r, r)
    BY <1>1, SameFollows
  <2>. HIDE DEF added
  <2>5. RowsStay
    BY <2>1, SupersetStays
  <2>. QED  BY <1>3, <2>1, <2>3, <2>4, <2>5 DEF RowLaw, RowsStay
<1>. QED  BY <1>2, <1>3

LEMMA CloseLaw ==
  ASSUME runs \subseteq Run, Close
  PROVE  RowLaw
<1> DEFINE open == {r \in runs : Open(r)}
           unstarted == {r \in open : Untouched(r) /\ ~HasSplit(r)}
           closed(r) == [r EXCEPT !.dnf = TRUE]
<1>1. runs' = (runs \ open) \cup {closed(r) : r \in open \ unstarted}
  BY DEF Close
<1>2. \A r \in runs : Follows(r, closed(r))
  BY DEF Follows, SameRun, Run, Open, Times, NoTime
<1>3. \A r \in runs \ open : Follows(r, r)
  BY DEF Follows, SameRun, Run, Open, Times, NoTime
<1>4. \A r \in unstarted : r.passed = NoTime
  BY DEF Untouched
<1>. HIDE DEF closed, unstarted
<1>5. \A s \in runs' : \E r \in runs : Follows(r, s)
  BY <1>1, <1>2, <1>3
<1>6. \A s \in runs' : ~Fresh(s)
  BY <1>5, FollowedNotFresh
<1>7. \A r \in runs \ unstarted : \E s \in runs' : SameRun(r, s)
  BY <1>1, <1>2, <1>3 DEF Follows
<1>. QED  BY <1>4, <1>5, <1>6, <1>7 DEF RowLaw

LEMMA StageLaw ==
  ASSUME runs \subseteq Run, StageStep
  PROVE  RowLaw
<1>1. ASSUME NEW e \in Entries, Register(e)
      PROVE  RowLaw
  <2>1. CASE status = "ACTIVE" /\ StartMode = "SLOT_SCHEDULE"
    BY <1>1, <2>1, MoveToNewSlotLaw DEF Register
  <2>2. CASE ~(status = "ACTIVE" /\ StartMode = "SLOT_SCHEDULE")
    BY <1>1, <2>2, DeletedLaw DEF Register
  <2>. QED  BY <2>1, <2>2
<1>2. CASE \E e \in Entries, in \in {"in", "out"} : SetInEvent(e, in)
  BY <1>2, DeletedLaw DEF SetInEvent
<1>. QED  BY <1>1, <1>2, ActivateLaw, CloseLaw DEF StageStep

LEMMA StepLaw == TypeOK /\ [Next]_vars => RowLaw
<1>. SUFFICES ASSUME TypeOK, [Next]_vars
     PROVE  RowLaw
  OBVIOUS
<1>1. runs \subseteq Run
  BY DEF TypeOK
<1>2. CASE UNCHANGED vars
  BY <1>1, <1>2, DeletedLaw DEF vars
<1>. QED  BY <1>1, <1>2, PassingLaw, SlottingLaw, MarshallingLaw, StageLaw DEF Next

\* One row lives on as at most one row, and the other way round.
LEMMA FollowsItsKey ==
  ASSUME TableInvariant, TableInvariant', NEW r \in runs, NEW s \in runs',
         SameRun(r, s), RowLaw
  PROVE  Follows(r, s)
<1>1. ~Fresh(s)
  BY DEF Fresh
<1>2. PICK o \in runs : Follows(o, s)
  BY <1>1 DEF RowLaw
<1>3. o = r
  BY <1>2 DEF Follows, SameRun, TableInvariant, GoodTable
<1>. QED  BY <1>2, <1>3

\* On a closed stage only a restored run is open that was not: whatever is
\* typed in or cleared there is DNF at once.
THEOREM ClosedStageOpensNothingHolds == Spec => ClosedStageOpensNothing
<1>1. TypeOK /\ [Next]_vars =>
        \A s \in runs' : (status' = "CLOSED" /\ s.finish = NoTime /\ ~s.dnf /\ ~s.voided)
          => \E r \in runs : /\ SameRun(r, s) /\ r.finish = NoTime /\ ~r.dnf
                             /\ r.voided \/ status = "CLOSED"
  BY StepLaw DEF RowLaw, Fresh, Follows, Open
<1>. QED  BY <1>1, TypeCorrect, PTL DEF Spec, ClosedStageOpensNothing

\* A car that has left on its slot keeps it, with the earliest passing, until
\* a marshal removes the run: no delay, New slot, DNS or close takes it away.
THEOREM LeftSlotStaysHolds == Spec => LeftSlotStays
<1>1. TableInvariant /\ TableInvariant' /\ [Next]_vars =>
        \A r \in runs : (r.passed # NoTime /\ ~\E d \in runs : Remove(d))
          => \E s \in runs' : /\ SameRun(r, s) /\ s.slot = r.slot
                              /\ s.passed # NoTime /\ s.passed <= r.passed
  <2>. SUFFICES ASSUME TableInvariant, TableInvariant', [Next]_vars,
                       NEW r \in runs, r.passed # NoTime, ~\E d \in runs : Remove(d)
       PROVE  \E s \in runs' : /\ SameRun(r, s) /\ s.slot = r.slot
                               /\ s.passed # NoTime /\ s.passed <= r.passed
    OBVIOUS
  <2>1. RowLaw
    BY StepLaw DEF TableInvariant
  <2>2. PICK s \in runs' : SameRun(r, s)
    BY <2>1 DEF RowLaw
  <2>3. Follows(r, s)
    BY <2>1, <2>2, FollowsItsKey
  <2>. QED  BY <2>2, <2>3 DEF Follows
<1>. QED  BY <1>1, TableCorrect, PTL DEF Spec, LeftSlotStays

\* No driver is due earlier than announced: delays and New slot only move a
\* slot back, and no attempt number is handed out twice to hide a move.
THEOREM NeverDueEarlierHolds == Spec => NeverDueEarlier
<1>1. TableInvariant /\ TableInvariant' /\ [Next]_vars =>
        \A r \in runs, s \in runs' : SameRun(r, s) => s.slot >= r.slot
  <2>. SUFFICES ASSUME TableInvariant, TableInvariant', [Next]_vars,
                       NEW r \in runs, NEW s \in runs', SameRun(r, s)
       PROVE  s.slot >= r.slot
    OBVIOUS
  <2>1. RowLaw
    BY StepLaw DEF TableInvariant
  <2>. QED  BY <2>1, FollowsItsKey DEF Follows
<1>. QED  BY <1>1, TableCorrect, PTL DEF Spec, NeverDueEarlier

-----------------------------------------------------------------------------
(* Crews that wait on a timetable *)

\* New slot is an interval behind every slot there is, whoever has it.
LEMMA NewSlotSpaced ==
  ASSUME TypeOK, Spaced(runs), NEW e, NEW slot \in Times, MoveToNewSlot(e, slot)
  PROVE  Spaced(runs')
<1>1. \A s \in runs' \ runs : s.slot = slot
  <2>1. CASE \E r \in OpenRuns(e) : Replace(r, [r EXCEPT !.start = slot, !.slot = slot])
    <3>1. \A r \in runs : [r EXCEPT !.start = slot, !.slot = slot].slot = slot
      BY DEF TypeOK, Run
    <3>. QED  BY <2>1, <3>1 DEF Replace, OpenRuns, RunsOf
  <2>2. CASE \E n \in Attempts : runs' = runs \cup {NewRun(e, n, slot, slot)}
    BY <2>2 DEF NewRun
  <2>. QED  BY <2>1, <2>2 DEF MoveToNewSlot
<1>2. \A s, t \in runs' \ runs : s = t
  <2>1. CASE \E r \in OpenRuns(e) : Replace(r, [r EXCEPT !.start = slot, !.slot = slot])
    BY <2>1 DEF Replace
  <2>2. CASE \E n \in Attempts : runs' = runs \cup {NewRun(e, n, slot, slot)}
    BY <2>2
  <2>. QED  BY <2>1, <2>2 DEF MoveToNewSlot
<1>3. \A r \in runs : r.slot # NoTime => r.slot <= slot - Interval
  BY DEF MoveToNewSlot, IsAfterLastSlot, NoSlotAfter, SlotRuns
<1>4. /\ slot \in Int /\ Interval \in Nat
      /\ \A r \in runs : r.slot \in Int
  BY StageAssumption DEF TypeOK, Run, Times, NoTime
<1>5. \A r \in runs, s \in runs' \ runs :
        r.slot # NoTime => Distance(r, s.slot) >= Interval /\ Distance(s, r.slot) >= Interval
  BY <1>1, <1>3, <1>4 DEF Distance
<1>. QED  BY <1>2, <1>5 DEF Spaced, Waiting

\* A delay moves every waiting slot behind a moment by as much.
LEMMA DelaySpaced ==
  ASSUME TypeOK, Spaced(runs), status = "ACTIVE",
         NEW now \in Times, NEW by \in Times, DelaySlots(now, by)
  PROVE  Spaced(runs')
<1> DEFINE moved(r) == [r EXCEPT !.start = r.slot + by, !.slot = r.slot + by]
           at(r) == IF r \in Ahead(now) THEN r.slot + by ELSE r.slot
<1>1. \A r \in runs : /\ r.slot \in Nat
                      /\ r \in Waiting(runs) => (r \in Ahead(now) <=> r.slot > now)
  BY DEF TypeOK, Run, Times, NoTime, Waiting, Ahead
<1>2. now \in Nat /\ by \in Nat /\ Interval \in Nat
  BY StageAssumption DEF Times
<1>3. \A r \in Ahead(now) : /\ moved(r).slot = r.slot + by /\ r \in Waiting(runs)
  BY <1>2 DEF Ahead, TypeOK, Run, Waiting, Times, NoTime
<1>4. \A s \in Waiting(runs') :
        \E r \in Waiting(runs) : /\ s.slot = at(r)
                                 /\ s = IF r \in Ahead(now) THEN moved(r) ELSE r
  <2>. SUFFICES ASSUME NEW s \in Waiting(runs')
       PROVE  \E r \in Waiting(runs) : /\ s.slot = at(r)
                                       /\ s = IF r \in Ahead(now) THEN moved(r) ELSE r
    OBVIOUS
  <2>1. s \in (runs \ Ahead(now)) \/ \E r \in Ahead(now) : s = moved(r)
    BY DEF DelaySlots, Waiting
  <2>. HIDE DEF moved
  <2>2. CASE s \in runs \ Ahead(now)
    BY <2>2 DEF Waiting
  <2>3. CASE \E r \in Ahead(now) : s = moved(r)
    BY <1>3, <2>3
  <2>. QED  BY <2>1, <2>2, <2>3
<1>. HIDE DEF moved
<1>5. ASSUME NEW s \in Waiting(runs'), NEW t \in Waiting(runs'), s # t
      PROVE  Distance(s, t.slot) >= Interval
  <2>1. PICK o \in Waiting(runs) : /\ s.slot = at(o)
                                   /\ s = IF o \in Ahead(now) THEN moved(o) ELSE o
    BY <1>4
  <2>2. PICK p \in Waiting(runs) : /\ t.slot = at(p)
                                   /\ t = IF p \in Ahead(now) THEN moved(p) ELSE p
    BY <1>4
  <2>3. o # p
    BY <1>5, <2>1, <2>2
  <2>4. Distance(o, p.slot) >= Interval
    BY <2>3 DEF Spaced
  <2>5. /\ o.slot \in Nat /\ (o \in Ahead(now) <=> o.slot > now)
        /\ p.slot \in Nat /\ (p \in Ahead(now) <=> p.slot > now)
    BY <1>1 DEF Waiting
  <2>6. /\ s.slot = IF o.slot > now THEN o.slot + by ELSE o.slot
        /\ t.slot = IF p.slot > now THEN p.slot + by ELSE p.slot
    BY <2>1, <2>2, <2>5
  <2>. HIDE DEF at
  <2>. QED  BY <1>2, <2>4, <2>5, <2>6 DEF Distance
<1>. QED  BY <1>5 DEF Spaced

\* Each car in the event has a place of its own: on the posted list, or behind
\* it among the late crews.
LEMMA PlacesDiffer ==
  ASSUME NEW a \in Entries, NEW b \in Entries, a # b,
         crew[a] = "in", crew[b] = "in"
  PROVE  /\ Position(a) \in Int /\ Position(b) \in Int
         /\ Position(a) # Position(b)
<1> DEFINE n == Cardinality(DOMAIN Posted)
           late == Entries \ DOMAIN Posted
           ahead(e) == {l \in late : InEvent(l) /\ StartNumber[l] < StartNumber[e]}
<1>1. n \in Nat
  BY StageAssumption, FS_Subset, FS_CardinalityType
<1>2. \A e : IsFiniteSet(ahead(e)) /\ Cardinality(ahead(e)) \in Nat
  <2>1. \A e : ahead(e) \in SUBSET Entries
    OBVIOUS
  <2>. HIDE DEF ahead
  <2>. QED  BY <2>1, StageAssumption, FS_Subset, FS_CardinalityType
<1>3. \A e \in Entries :
        Position(e) = IF e \in DOMAIN Posted THEN Posted[e] - 1 ELSE n + Cardinality(ahead(e))
  BY DEF Position
<1>4. \A e \in DOMAIN Posted : Posted[e] \in 1 .. n
  BY StageAssumption
<1>5. \A e, f \in late : crew[e] = "in" /\ StartNumber[e] < StartNumber[f]
                           => Cardinality(ahead(e)) # Cardinality(ahead(f))
  <2>. SUFFICES ASSUME NEW e \in late, NEW f \in late, crew[e] = "in",
                       StartNumber[e] < StartNumber[f]
       PROVE  Cardinality(ahead(e)) # Cardinality(ahead(f))
    OBVIOUS
  <2>1. \A l \in late : StartNumber[l] \in Nat
    BY StageAssumption
  <2>2. ahead(e) \in SUBSET ahead(f) /\ e \in ahead(f) /\ e \notin ahead(e)
    BY <2>1 DEF InEvent
  <2>. HIDE DEF ahead
  <2>. QED  BY <1>2, <2>2, FS_Subset
<1>6. CASE a \in late /\ b \in late
  <2>1. StartNumber[a] \in Nat /\ StartNumber[b] \in Nat /\ StartNumber[a] # StartNumber[b]
    BY StageAssumption
  <2>2. StartNumber[a] < StartNumber[b] \/ StartNumber[b] < StartNumber[a]
    BY <2>1
  <2>3. Cardinality(ahead(a)) # Cardinality(ahead(b))
    BY <1>5, <1>6, <2>2
  <2>. HIDE DEF ahead, n
  <2>. QED  BY <1>1, <1>2, <1>3, <1>6, <2>3
<1>7. CASE a \in DOMAIN Posted /\ b \in DOMAIN Posted
  <2>1. Posted[a] # Posted[b]
    BY <1>7, StageAssumption
  <2>. HIDE DEF ahead, n
  <2>. QED  BY <1>1, <1>3, <1>4, <1>7, <2>1
<1>8. CASE (a \in DOMAIN Posted) # (b \in DOMAIN Posted)
  <2>. HIDE DEF ahead, n
  <2>. QED  BY <1>1, <1>2, <1>3, <1>4, <1>8
<1>. QED  BY <1>6, <1>7, <1>8

\* Places that differ are slots an interval apart.
LEMMA PlacesSpaced ==
  ASSUME NEW first \in Int, NEW i \in Nat \ {0}, NEW p \in Int, NEW q \in Int, p < q
  PROVE  first + i * q - (first + i * p) >= i
<1> DEFINE d == q - p - 1
<1>1. d \in Nat /\ q = p + d + 1
  OBVIOUS
<1>2. i * q = i * p + i * d + i
  BY <1>1
<1>3. i * d \in Nat /\ i * p \in Int
  BY <1>1
<1>. HIDE DEF d
<1>. QED  BY <1>2, <1>3

\* Before a timetable stage opens it has no slots, and the opening gives every
\* car in the event its own.
LEMMA ActivateSpaced ==
  ASSUME TypeOK, StartMode = "SLOT_SCHEDULE", SlotRuns = {}, Activate
  PROVE  Spaced(runs')
<1> DEFINE slot(e) == firstStart + Interval * Position(e)
           starters == {e \in Entries : InEvent(e) /\ RunsOf(e) = {}}
<1>1. runs' = runs \cup {NewRun(e, 1, slot(e), slot(e)) : e \in starters}
  BY DEF Activate
<1>2. \A e : NewRun(e, 1, slot(e), slot(e)).slot = slot(e)
  BY DEF NewRun
<1>3. \A a, b \in starters : a # b =>
        /\ slot(a) \in Int /\ slot(b) \in Int
        /\ slot(a) >= slot(b) + Interval \/ slot(b) >= slot(a) + Interval
  <2>. SUFFICES ASSUME NEW a \in starters, NEW b \in starters, a # b
       PROVE  /\ slot(a) \in Int /\ slot(b) \in Int
              /\ slot(a) >= slot(b) + Interval \/ slot(b) >= slot(a) + Interval
    OBVIOUS
  <2>1. /\ Position(a) \in Int /\ Position(b) \in Int
        /\ Position(a) < Position(b) \/ Position(b) < Position(a)
    BY PlacesDiffer DEF InEvent
  <2>2. firstStart \in Int /\ Interval \in Nat \ {0}
    BY StageAssumption DEF TypeOK, Times
  <2>3. Interval * Position(a) \in Int /\ Interval * Position(b) \in Int
    BY <2>1, <2>2
  <2>4. slot(a) - slot(b) >= Interval \/ slot(b) - slot(a) >= Interval
    BY <2>1, <2>2, PlacesSpaced
  <2>. QED  BY <2>2, <2>3, <2>4
<1>4. \A s \in Waiting(runs') :
        \E e \in starters : s = NewRun(e, 1, slot(e), slot(e)) /\ s.slot = slot(e)
  BY <1>1, <1>2 DEF Waiting, SlotRuns
<1>5. Interval \in Nat
  BY StageAssumption
<1>. HIDE DEF slot, starters
<1>6. ASSUME NEW s \in Waiting(runs'), NEW t \in Waiting(runs'), s # t
      PROVE  Distance(s, t.slot) >= Interval
  <2>1. PICK a \in starters : s = NewRun(a, 1, slot(a), slot(a)) /\ s.slot = slot(a)
    BY <1>4
  <2>2. PICK b \in starters : t = NewRun(b, 1, slot(b), slot(b)) /\ t.slot = slot(b)
    BY <1>4
  <2>3. a # b
    BY <1>6, <2>1, <2>2
  <2>. QED  BY <1>3, <1>5, <2>1, <2>2, <2>3 DEF Distance
<1>. QED  BY <1>6 DEF Spaced

\* Any other step leaves every slot where it is.
LEMMA KeptSpaced ==
  ASSUME TableInvariant, TableInvariant', Spaced(runs), RowLaw,
         StartMode = "SLOT_SCHEDULE", ~Reslotting, ~Activate, ~ComesBack
  PROVE  Spaced(runs')
<1>1. ASSUME NEW s \in Waiting(runs')
      PROVE  \E r \in Waiting(runs) : SameRun(r, s) /\ r.slot = s.slot
  <2>1. s \in runs' /\ s.slot # NoTime
    BY <1>1 DEF Waiting
  <2>2. PICK r \in runs : Follows(r, s)
    BY <2>1 DEF RowLaw, Fresh
  <2>. QED  BY <1>1, <2>2 DEF Follows, ComesBack
<1>2. ASSUME NEW s \in Waiting(runs'), NEW t \in Waiting(runs'), s # t
      PROVE  Distance(s, t.slot) >= Interval
  <2>1. PICK o \in Waiting(runs) : SameRun(o, s) /\ o.slot = s.slot
    BY <1>1
  <2>2. PICK p \in Waiting(runs) : SameRun(p, t) /\ p.slot = t.slot
    BY <1>1
  <2>3. o # p
    BY <1>2, <2>1, <2>2 DEF SameRun, TableInvariant, GoodTable, Waiting
  <2>. QED  BY <2>1, <2>2, <2>3 DEF Spaced, Distance
<1>. QED  BY <1>2 DEF Spaced

\* No step takes a stage back to not started.
LEMMA StatusSteps == [Next]_vars /\ status' = "NOT_STARTED" => status = "NOT_STARTED"
BY DEF Next, vars, Passing, Slotting, Marshalling, StageStep, PassStart, PassFinish,
   PassStartFinish, PassSplit, Timed, QueueSlot, NewSlot, DelaySlots, CancelCountdown,
   CreateManual, CorrectRun, FinishNow, VoidRun, UnvoidRun, MarkDnf, UndoDnf, Remove,
   MarkDns, UndoDns, Register, SetInEvent, Activate, Close

\* A timetable has no slots before its stage opens.
NoSlotsYet == (StartMode = "SLOT_SCHEDULE" /\ status = "NOT_STARTED") => SlotRuns = {}

LEMMA NoSlotsYetHolds == Spec => []NoSlotsYet
<1>1. Init => NoSlotsYet
  BY DEF Init, NoSlotsYet, SlotRuns
<1>2. TypeOK /\ NoSlotsYet /\ [Next]_vars => NoSlotsYet'
  <2>. SUFFICES ASSUME TypeOK, NoSlotsYet, [Next]_vars, StartMode = "SLOT_SCHEDULE",
                       status' = "NOT_STARTED", NEW s \in runs', s.slot # NoTime
       PROVE  FALSE
    BY DEF NoSlotsYet, SlotRuns
  <2>1. ~Reslotting /\ ~Activate
    BY DEF Reslotting, Activate
  <2>2. status = "NOT_STARTED"
    BY StatusSteps
  <2>3. RowLaw
    BY StepLaw
  <2>4. PICK r \in runs : Follows(r, s)
    BY <2>1, <2>3 DEF RowLaw, Fresh
  <2>5. r.slot # NoTime
    BY <2>1, <2>4 DEF Follows
  <2>. QED  BY <2>2, <2>5 DEF NoSlotsYet, SlotRuns
<1>. QED  BY <1>1, <1>2, TypeCorrect, PTL DEF Spec

\* Two crews that wait on a timetable are never on one line: not when the stage
\* opens, not after a delay of part of the slots, not with a new slot behind
\* them, for every list, interval and delay.
THEOREM WaitingCrewsStayApartHolds == Spec => WaitingCrewsStayApart
<1>1. TableInvariant /\ TableInvariant' /\ NoSlotsYet /\ [Next]_vars =>
        ((/\ StartMode = "SLOT_SCHEDULE" /\ Spaced(runs)
          /\ ~ComesBack /\ ~(status = "ACTIVE" /\ Activate)) => Spaced(runs'))
  <2>. SUFFICES ASSUME TableInvariant, TableInvariant', NoSlotsYet, [Next]_vars,
                       StartMode = "SLOT_SCHEDULE", Spaced(runs), ~ComesBack,
                       ~(status = "ACTIVE" /\ Activate)
       PROVE  Spaced(runs')
    OBVIOUS
  <2>1. TypeOK /\ RowLaw
    BY StepLaw DEF TableInvariant
  <2>2. CASE Reslotting
    BY <2>1, <2>2, NewSlotSpaced, DelaySpaced DEF Reslotting
  <2>3. CASE Activate
    <3>1. status = "NOT_STARTED"
      BY <2>1, <2>3 DEF Activate, TypeOK
    <3>. QED  BY <2>1, <2>3, <3>1, ActivateSpaced DEF NoSlotsYet
  <2>4. CASE ~Reslotting /\ ~Activate
    BY <2>1, <2>4, KeptSpaced
  <2>. QED  BY <2>2, <2>3, <2>4
<1>. QED  BY <1>1, TableCorrect, NoSlotsYetHolds, PTL DEF Spec, WaitingCrewsStayApart

\* Queued slots stay a full gap apart, whatever is voided, corrected or timed
\* by hand in between.  On a timetable Gap says nothing: its slots are an
\* interval apart at activation, which WaitingCrewsStayApartHolds is about.
THEOREM SlotsApartHolds ==
  ASSUME StartMode # "SLOT_SCHEDULE"
  PROVE  Spec => []SlotsApart
<1>1. Init => SlotsApart
  BY DEF Init, SlotsApart, SlotRuns
<1>2. /\ TableInvariant /\ TableInvariant' /\ SlotsApart /\ [Next]_vars
      => SlotsApart'
  <2>. SUFFICES ASSUME TableInvariant, TableInvariant', SlotsApart, [Next]_vars,
                       NEW s \in runs', NEW t \in runs',
                       s.slot # NoTime, t.slot # NoTime, s # t
       PROVE  Distance(s, t.slot) >= Gap
    BY DEF SlotsApart, SlotRuns
  <2>1. RowLaw
    BY StepLaw DEF TableInvariant
  <2>2. /\ s.slot \in Nat /\ t.slot \in Nat /\ Gap \in Nat
        /\ \A r \in runs : r.slot \in Nat
    BY StageAssumption DEF TableInvariant, TypeOK, Run, Times, NoTime
  <2>3. \A r \in runs, u \in runs' : Follows(r, u) /\ u.slot # NoTime
                                        => r \in SlotRuns /\ r.slot = u.slot
    BY DEF Follows, SlotRuns, Reslotting
  <2>4. \A u, v \in runs' : Fresh(u) /\ u.slot # NoTime /\ v.slot # NoTime /\ ~Fresh(v)
                              => u.slot >= v.slot + Gap
    BY <2>1, <2>3 DEF RowLaw, Fresh
  <2>5. CASE Fresh(s)
    <3>1. ~Fresh(t)
      BY <2>1, <2>5 DEF RowLaw
    <3>. QED  BY <2>2, <2>4, <2>5, <3>1 DEF Distance
  <2>6. CASE Fresh(t)
    <3>1. ~Fresh(s)
      BY <2>1, <2>6 DEF RowLaw
    <3>. QED  BY <2>2, <2>4, <2>6, <3>1 DEF Distance
  <2>7. CASE ~Fresh(s) /\ ~Fresh(t)
    <3>1. PICK o \in runs : Follows(o, s)
      BY <2>1, <2>7 DEF RowLaw
    <3>2. PICK p \in runs : Follows(p, t)
      BY <2>1, <2>7 DEF RowLaw
    <3>3. o # p
      BY <3>1, <3>2 DEF Follows, SameRun, TableInvariant, GoodTable
    <3>4. Distance(o, p.slot) >= Gap
      BY <2>3, <3>1, <3>2, <3>3 DEF SlotsApart
    <3>. QED  BY <2>3, <3>1, <3>2, <3>4 DEF Distance
  <2>. QED  BY <2>5, <2>6, <2>7
<1>. QED  BY <1>1, <1>2, TableCorrect, PTL DEF Spec
=============================================================================

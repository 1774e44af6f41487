------------------------------ MODULE Results ------------------------------
(***************************************************************************)
(* From times to places: stage rankings, the overall with its notional     *)
(* times and penalties, and the start list computed from them, while       *)
(* stages close, marshals correct and price, and the jury takes crews out  *)
(* of the event.  Only the variables are stored; every ranking is computed *)
(* when it is read.                                                        *)
(***************************************************************************)
EXTENDS PenaltyPricing

CONSTANTS
  Times,            \* durations of finished runs
  NotionalPenalty,  \* notionalPenaltyMs
  StartNumber,      \* of each entry, unique
  ClassesOf,        \* the main classes of each entry, numbered by their names' order
  NumClasses,
  Catalogue,        \* the penalty types that may be saved: name -> [scope, tiers]
  Repriced,         \* what a type may be edited to, the same way
  PenaltiesGiven,   \* the penalties that may be given
  MaxPenalties,     \* bound on penalties in the table
  MaxRecords        \* bound on times, penalties, crews out, and an edited type

VARIABLES
  status,       \* of each stage
  rally,        \* RallyInfo.status
  time,         \* duration of each crew's counting run per stage, or NoTime
  entryStatus,  \* "registered" (checked in or not), "withdrawn", "disqualified"
  penalties,    \* in the order they were given
  types         \* the penalty catalogue: name -> [scope, tiers]

vars == <<status, rally, time, entryStatus, penalties, types>>
NoTime == 0

\* A type counts through the rally or per stage; a tier has its price from an
\* offence on.
PenaltyType == [scope : {"RALLY", "STAGE"}, tiers : Seq([fromCount : Nat, seconds : Nat])]
PenaltyRow == [entry : Entries, stage : Stages \cup {NoStage},
               type : DOMAIN Catalogue \cup {FreeText}, count : Nat, seconds : Nat]

ASSUME ResultsAssumption ==
  /\ IsFiniteSet(Entries)
  /\ Times \subseteq Nat \ {NoTime}
  /\ NotionalPenalty \in Nat
  /\ StartNumber \in [Entries -> Nat] /\ IsInjective(StartNumber)
  /\ NumClasses \in Nat /\ ClassesOf \in [Entries -> SUBSET (1 .. NumClasses)]
  /\ \A n \in DOMAIN Catalogue :
       Catalogue[n] \in PenaltyType /\ ValidTiers(Catalogue[n].tiers)
  /\ \A n \in DOMAIN Catalogue : Repriced[n] \in PenaltyType
  /\ PenaltiesGiven \subseteq PenaltyRow

ResultsTypeOK ==
  /\ status \in [Stages -> {"NOT_STARTED", "ACTIVE", "CLOSED"}]
  /\ rally \in {"SETUP", "RUNNING", "CLOSED"}
  /\ time \in [Stages -> [Entries -> Times \cup {NoTime}]]
  /\ entryStatus \in [Entries -> {"registered", "withdrawn", "disqualified"}]
  /\ \A i \in DOMAIN penalties :
       penalties[i].type = FreeText \/ penalties[i].type \in DOMAIN types
  /\ DOMAIN types \subseteq DOMAIN Catalogue

-----------------------------------------------------------------------------
(* Rankings.  A view is the set of crews in all the classes asked for. *)

InEvent(e) == entryStatus[e] = "registered"

\* countsInOverall, given the status of the stages.
CountsInOverall(st, s) == st[s] = "CLOSED" /\ Scoring[s] = "OVERALL"

\* Mutants: a disqualified crew stays in what rankings are computed from; a
\* withdrawn one leaves it.
RankableDespiteDsq(view) == view
RankableIfInEvent(view) == {e \in view : InEvent(e)}

\* rankable: whose times a ranking is computed from.
Rankable(view) == {e \in view : entryStatus[e] # "disqualified"}

\* findFinishedByStage, of the crews of a ranking: what was driven.
Drivers(tm, s, crews) == {e \in crews : tm[s][e] # NoTime}

\* A counted stage one of the crews finished; any other is dropped.
Anchored(st, tm, crews) ==
  {s \in Stages : CountsInOverall(st, s) /\ Drivers(tm, s, crews) # {}}

\* Mutant: twice the slowest.
NotionalDoubled(tm, s, crews) ==
  2 * Max({tm[s][e] : e \in Drivers(tm, s, crews)}) + NotionalPenalty

\* The notional time of a stage: its slowest real time plus the penalty.
Notional(tm, s, crews) ==
  Max({tm[s][e] : e \in Drivers(tm, s, crews)}) + NotionalPenalty

Charged(tm, s, crews, e) ==
  IF tm[s][e] # NoTime THEN tm[s][e] ELSE Notional(tm, s, crews)

StageSum(st, tm, crews, e) ==
  FoldFunction(+, 0, [s \in Anchored(st, tm, crews) |-> Charged(tm, s, crews, e)])

\* overallTotals: a crew's penalties on counted stages and on none.
PenaltyTotal(st, pens, cat, e) ==
  LET prices == Prices(pens, cat)
      mine == {i \in DOMAIN pens :
                 /\ pens[i].entry = e
                 /\ pens[i].stage = NoStage \/ CountsInOverall(st, pens[i].stage)}
  IN MapThenSumSet(LAMBDA i : prices[i], mine)

\* Classified: drove a counted stage and is not withdrawn.
Classified(view) ==
  {e \in Rankable(view) : entryStatus[e] # "withdrawn"
      /\ \E s \in Stages : CountsInOverall(status, s) /\ time[s][e] # NoTime}

\* getOverallClassification: the total of every classified crew of a view.
Overall(view) ==
  [e \in Classified(view) |->
     PenaltyTotal(status, penalties, types, e)
       + StageSum(status, time, Rankable(view), e)]

\* getStageClassification: the times of a stage, as driven.
StageTimes(s, view) == [e \in Drivers(time, s, Rankable(view)) |-> time[s][e]]

-----------------------------------------------------------------------------
(* The computed start list *)

Keys == {"START_NUMBER", "OVERALL_TIME", "LAST_STAGE_TIME"}
Directions == {"FASTEST_FIRST", "SLOWEST_FIRST"}
NoClass == NumClasses + 1

\* mainClassOf: of several main classes the first by name.
MainClass(e) == Min(ClassesOf[e] \cup {NoClass})
View(c) == IF c = NoClass THEN Entries ELSE {e \in Entries : c \in ClassesOf[e]}

\* The latest closed stage before s with this scoring, in a set of at most one.
LatestClosed(s, scoring) ==
  LET before == {t \in 1 .. s - 1 : status[t] = "CLOSED" /\ Scoring[t] = scoring}
  IN IF before = {} THEN {} ELSE {Max(before)}

\* timesFor: what the list of stage s orders a group by.  The overall is the
\* group's own; until a counted stage has closed, qualifying takes its place.
TimesFor(key, s, c) ==
  LET first == IF \E t \in Stages : CountsInOverall(status, t) THEN {}
               ELSE LatestClosed(s, "QUALIFYING")
      last == LatestClosed(s, "OVERALL")
  IN CASE key = "OVERALL_TIME" /\ first # {} -> StageTimes(Max(first), Entries)
       [] key = "OVERALL_TIME" /\ first = {} -> Overall(View(c))
       [] key = "LAST_STAGE_TIME" /\ last # {} -> StageTimes(Max(last), Entries)
       [] OTHER -> <<>>

\* Mutant: slowest first puts the crews without a time in front.
StartsBeforeReversed(times, direction, e, f) ==
  LET te == IF e \in DOMAIN times THEN times[e] ELSE 1000
      tf == IF f \in DOMAIN times THEN times[f] ELSE 1000
  IN IF te = tf THEN StartNumber[e] < StartNumber[f]
     ELSE IF direction = "FASTEST_FIRST" THEN te < tf ELSE tf < te

\* The sort of compute: no time last whatever the direction, ties by number.
StartsBefore(times, direction, e, f) ==
  IF {e, f} \subseteq DOMAIN times /\ times[e] # times[f]
  THEN IF direction = "FASTEST_FIRST" THEN times[e] < times[f] ELSE times[f] < times[e]
  ELSE IF (e \in DOMAIN times) # (f \in DOMAIN times) THEN e \in DOMAIN times
  ELSE StartNumber[e] < StartNumber[f]

SortedGroup(crews, times, direction) ==
  Sorted(crews, {p \in crews \X crews : StartsBefore(times, direction, p[1], p[2])})

\* compute: the crews in the event, by main class (none last) or all together.
StartList(s, key, direction, grouped) ==
  LET crews == {e \in Entries : InEvent(e)}
      Group(c) == SortedGroup({e \in crews : MainClass(e) = c},
                              TimesFor(key, s, c), direction)
  IN IF grouped THEN FlattenSeq([c \in 1 .. NoClass |-> Group(c)])
                ELSE SortedGroup(crews, TimesFor(key, s, NoClass), direction)

-----------------------------------------------------------------------------
(* Stages and the rally *)

Open == rally # "CLOSED"   \* what @LockedWhen(CLOSED) lets through
MayRecord ==   \* the bound
  Cardinality({p \in Stages \X Entries : time[p[1]][p[2]] # NoTime}) + Len(penalties)
    + Cardinality({e \in Entries : ~InEvent(e)})
    + (IF types = Catalogue THEN 0 ELSE 1) < MaxRecords

StartRally ==
  /\ rally = "SETUP" /\ rally' = "RUNNING"
  /\ UNCHANGED <<status, time, entryStatus, penalties, types>>

\* activate, without a gate in common with another stage.
Activate(s) ==
  /\ status[s] = "NOT_STARTED" /\ rally # "CLOSED"
  /\ rally = "SETUP" => Scoring[s] # "OVERALL"
  /\ status' = [status EXCEPT ![s] = "ACTIVE"]
  /\ UNCHANGED <<rally, time, entryStatus, penalties, types>>

\* close, which asks for no status.
Close(s) ==
  /\ status[s] # "CLOSED"
  /\ status' = [status EXCEPT ![s] = "CLOSED"]
  /\ UNCHANGED <<rally, time, entryStatus, penalties, types>>

\* RallyStatusService.close, with no car on a stage.
CloseRally ==
  /\ rally = "RUNNING" /\ rally' = "CLOSED"
  /\ status' = [s \in Stages |-> IF status[s] = "ACTIVE" THEN "CLOSED" ELSE status[s]]
  /\ UNCHANGED <<time, entryStatus, penalties, types>>

Reopen ==
  /\ rally = "CLOSED" /\ rally' = "RUNNING"
  /\ UNCHANGED <<status, time, entryStatus, penalties, types>>

-----------------------------------------------------------------------------
(* Times: the writes of the run table that a result can see *)

\* A car finishes at the gate, on an active stage, or its run is typed in.  A
\* shakedown's fastest run counts (countingRuns).
Drive(s, e, t) ==
  /\ InEvent(e) /\ MayRecord
  /\ time[s][e] = NoTime \/ (Scoring[s] = "NONE" /\ t < time[s][e])
  /\ status[s] = "ACTIVE" \/ Open
  /\ time' = [time EXCEPT ![s][e] = t]
  /\ UNCHANGED <<status, rally, entryStatus, penalties, types>>

\* correctRun and voidRun of a finished run.
Correct(s, e, t) ==
  /\ Open /\ time[s][e] \notin {NoTime, t}
  /\ time' = [time EXCEPT ![s][e] = t]
  /\ UNCHANGED <<status, rally, entryStatus, penalties, types>>

VoidTime(s, e) ==
  /\ Open /\ time[s][e] # NoTime
  /\ time' = [time EXCEPT ![s][e] = NoTime]
  /\ UNCHANGED <<status, rally, entryStatus, penalties, types>>

-----------------------------------------------------------------------------
(* The jury *)

\* EntriesService.update, behind assertEntryChangeAllowed.
SetEntryStatus(e, to) ==
  /\ Open /\ entryStatus[e] # to
  /\ to = "registered" \/ MayRecord
  /\ entryStatus' = [entryStatus EXCEPT ![e] = to]
  /\ UNCHANGED <<status, rally, time, penalties, types>>

\* create: typed, or free text with its own seconds; on a started stage or
\* on none.
GivePenalty(p) ==
  /\ Open /\ MayRecord /\ Len(penalties) < MaxPenalties
  /\ p.stage # NoStage => status[p.stage] # "NOT_STARTED"
  /\ p.type = FreeText \/ p.type \in DOMAIN types
  /\ penalties' = Append(penalties, p)
  /\ UNCHANGED <<status, rally, time, entryStatus, types>>

RemovePenalty(i) ==
  /\ Open
  /\ penalties' = RemoveAt(penalties, i)
  /\ UNCHANGED <<status, rally, time, entryStatus, types>>

\* updateType: penalties already given are repriced.
UpdateType(n) ==
  /\ Open /\ MayRecord /\ types[n] # Repriced[n]
  /\ ValidTiers(Repriced[n].tiers)
  /\ types' = [types EXCEPT ![n] = Repriced[n]]
  /\ UNCHANGED <<status, rally, time, entryStatus, penalties>>

\* Mutant: the type's penalties stay behind.
RemoveTypeOnly(n) ==
  /\ Open /\ MayRecord
  /\ types' = [m \in DOMAIN types \ {n} |-> types[m]]
  /\ UNCHANGED <<status, rally, time, entryStatus, penalties>>

\* removeType takes every penalty of the type with it.
RemoveType(n) ==
  LET others == {i \in DOMAIN penalties : penalties[i].type # n}
      left == Sorted(others, {p \in others \X others : p[1] < p[2]}) IN
  /\ Open /\ MayRecord
  /\ types' = [m \in DOMAIN types \ {n} |-> types[m]]
  /\ penalties' = [k \in DOMAIN left |-> penalties[left[k]]]
  /\ UNCHANGED <<status, rally, time, entryStatus>>

-----------------------------------------------------------------------------
Init ==
  /\ status = [s \in Stages |-> "NOT_STARTED"] /\ rally = "SETUP"
  /\ time = [s \in Stages |-> [e \in Entries |-> NoTime]]
  /\ entryStatus = [e \in Entries |-> "registered"]
  /\ penalties = <<>> /\ types = Catalogue

Racing ==
  \/ StartRally \/ CloseRally \/ Reopen
  \/ \E s \in Stages : \/ Activate(s) \/ Close(s)
                       \/ \E e \in Entries, t \in Times : Drive(s, e, t)

Judging ==
  \/ \E s \in Stages, e \in Entries : \/ VoidTime(s, e)
                                      \/ \E t \in Times : Correct(s, e, t)
  \/ \E e \in Entries, to \in {"registered", "withdrawn", "disqualified"} :
       SetEntryStatus(e, to)
  \/ \E p \in PenaltiesGiven : GivePenalty(p)
  \/ \E i \in DOMAIN penalties : RemovePenalty(i)
  \/ \E n \in DOMAIN types : UpdateType(n) \/ RemoveType(n)

Next == Racing \/ Judging
Spec == Init /\ [][Next]_vars

-----------------------------------------------------------------------------
(* Properties *)

Views == {View(c) : c \in 1 .. NoClass}
Totals == [view \in Views |-> Overall(view)]

\* "As if it had never run": what a disqualified crew drove is in no ranking
\* and in no notional time another crew is charged.
DisqualifiedLeavesNoTrace ==
  LET out == {e \in Entries : entryStatus[e] = "disqualified"} IN
  \A view \in Views :
    /\ Overall(view) = Overall(view \ out)
    /\ \A s \in Stages : StageTimes(s, view) = StageTimes(s, view \ out)

\* "A withdrawal never moves anyone else's total".
WithdrawalMovesNobodyElse ==
  [][\A e \in Entries :
       (entryStatus'[e] = "withdrawn" /\ entryStatus[e] = "registered") =>
         LET before == Totals  after == Totals' IN
         \A view \in Views : \A f \in DOMAIN before[view] \ {e} :
           f \in DOMAIN after[view] /\ after[view][f] = before[view][f]]_vars

\* A crew that drove a counted stage slower never gains a place by it: a later
\* time moves its own total at least as much as any it is the measure of.
SlowerNeverGains ==
  [][\A s \in Stages, e \in Entries :
       (NoTime < time[s][e] /\ time[s][e] < time'[s][e] /\ UNCHANGED <<status, entryStatus>>)
       => LET before == Totals  after == Totals' IN
          \A view \in {v \in Views : e \in DOMAIN before[v]} :
            \A f \in DOMAIN before[view] :
              before[view][f] < before[view][e] => after[view][f] < after[view][e]]_vars

\* What a crew's offences cost together depends on how many there are, not on
\* the order they were given in or the stages they happened on.
OffencesCostTheirNumber ==
  LET prices == Prices(penalties, types)
      Mine(e, n) == {i \in DOMAIN penalties :
        /\ penalties[i].entry = e /\ penalties[i].type = n
        /\ penalties[i].stage # NoStage => Scoring[penalties[i].stage] = "OVERALL"}
  IN \A n \in DOMAIN types, e \in Entries :
       types[n].scope = "RALLY" =>
         MapThenSumSet(LAMBDA i : prices[i], Mine(e, n))
           = OffencesCost(types[n].tiers, 1,
               FoldFunction(+, 0, [i \in Mine(e, n) |-> penalties[i].count]))

\* Whatever it is ordered by, a computed list has every crew in the event once.
\* By overall time it follows the class results posted beside it, and crews
\* without a time start behind those with one; equal totals go by start number.
StartListFollowsResults ==
  LET totals == Totals
      counted == \E t \in Stages : CountsInOverall(status, t)
  IN \A direction \in Directions :
       /\ \A key \in Keys, grouped \in BOOLEAN :
            LET list == StartList(NumStages, key, direction, grouped)
            IN IsInjective(list) /\ Range(list) = {e \in Entries : InEvent(e)}
       /\ LET list == StartList(NumStages, "OVERALL_TIME", direction, TRUE) IN
          \A j \in DOMAIN list : \A i \in 1 .. j - 1 :
            LET total == totals[View(MainClass(list[j]))] IN
            (/\ counted /\ MainClass(list[i]) = MainClass(list[j])
             /\ list[j] \in DOMAIN total) =>
               /\ list[i] \in DOMAIN total
               /\ direction = "FASTEST_FIRST" => total[list[i]] <= total[list[j]]
               /\ direction = "SLOWEST_FIRST" => total[list[i]] >= total[list[j]]
               /\ total[list[i]] = total[list[j]] =>
                    StartNumber[list[i]] < StartNumber[list[j]]

\* "skipping never pays off on that stage": a crew that drove a counted stage
\* is charged no more than it would be without its time.  Violated: the slowest
\* crew is charged the second slowest time if it does not finish.
SkippingNeverPays ==
  \A s \in Stages, e \in Rankable(Entries) :
    LET others == Drivers(time, s, Rankable(Entries)) \ {e} IN
    (CountsInOverall(status, s) /\ time[s][e] # NoTime /\ others # {})
      => time[s][e] <= Notional(time, s, others)

\* "Closed locks everything that changes a result".
ClosedRallyKeepsTotals ==
  [][(rally = "CLOSED" /\ rally' = "CLOSED") => Totals' = Totals]_vars
=============================================================================

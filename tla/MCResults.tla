----------------------------- MODULE MCResults -----------------------------
(* A small rally for TLC: a qualifying stage and two counted ones, three   *)
(* crews, and a penalty type that gets dearer at the second offence.       *)
EXTENDS Results

CONSTANTS a, b, c

Numbers == [e \in Entries |-> IF e = a THEN 3 ELSE IF e = b THEN 2 ELSE 1]
\* b is in both main classes, c in none.
Classes == [e \in Entries |-> IF e = a THEN {1} ELSE IF e = b THEN {1, 2} ELSE {}]
Flat == [fromCount |-> 1, seconds |-> 1]
Dear == [fromCount |-> 2, seconds |-> 3]
Jump == [n \in {"jump"} |-> [scope |-> "RALLY", tiers |-> <<Flat, Dear>>]]
PerStage == [n \in {"jump"} |-> [scope |-> "STAGE", tiers |-> <<Flat, Dear>>]]
QualifyingFirst == [s \in Stages |-> IF s = 1 THEN "QUALIFYING" ELSE "OVERALL"]

Penalty(e, s, n) == [entry |-> e, stage |-> s, type |-> "jump", count |-> n, seconds |-> 0]
Jury == {Penalty(a, 1, 1), Penalty(a, 2, 2), Penalty(a, NoStage, 1), Penalty(b, 2, 2),
         [entry |-> b, stage |-> 3, type |-> FreeText, count |-> 1, seconds |-> 1]}
=============================================================================

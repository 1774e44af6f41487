--------------------------- MODULE PenaltyPricing ---------------------------
(***************************************************************************)
(* What the penalties of a rally cost.  No price is stored: it follows     *)
(* from how many offences of the type the crew already has, counted in     *)
(* stage order, and is computed anew whenever a result is read.            *)
(***************************************************************************)
EXTENDS Integers, SequencesExt

CONSTANTS
  Entries,
  NumStages,  \* stages are 1 .. NumStages, in the order they are driven
  Scoring     \* of each stage: "OVERALL", "QUALIFYING" or "NONE"

Stages == 1 .. NumStages
NoStage == NumStages + 1   \* a penalty for the whole rally: after every stage
FreeText == "free text"    \* a penalty without a type

ASSUME PricingAssumption ==
  /\ NumStages \in Nat \ {0}
  /\ Scoring \in [Stages -> {"OVERALL", "QUALIFYING", "NONE"}]

\* A finite set in the order of a relation: each member at the place that
\* leaves room for those before it.
Place(S, before, x) == Cardinality({y \in S : <<y, x>> \in before}) + 1
Sorted(S, before) ==
  [n \in 1 .. Cardinality(S) |-> CHOOSE x \in S : Place(S, before, x) = n]

\* tierSeconds: the last tier that starts at or before the nth offence.
TierSeconds(tiers, n) ==
  LET reached == {i \in DOMAIN tiers : tiers[i].fromCount <= n}
  IN IF reached = {} THEN 0 ELSE tiers[Max(reached)].seconds

\* What offences first .. last cost together.
OffencesCost(tiers, first, last) ==
  FoldLeft(LAMBDA sum, n : sum + TierSeconds(tiers, n), 0,
           [i \in 1 .. last + 1 - first |-> first + i - 1])

\* Stage order, then the order they were given in (createdAt).
PricedBefore(penalties, i, j) ==
  \/ penalties[i].stage < penalties[j].stage
  \/ penalties[i].stage = penalties[j].stage /\ i < j

\* Mutant: a shakedown's offences count into the rally's.
CountedWithOutside(type, p) ==
  <<p.entry, p.type, IF type.scope = "RALLY" THEN NoStage ELSE p.stage>>

\* Which offences are counted together: a crew's of one type, through the
\* rally or per stage; a stage outside the overall always counts on its own.
CountedWith(type, p) ==
  LET alone == p.stage # NoStage /\ Scoring[p.stage] # "OVERALL"
  IN <<p.entry, p.type, IF type.scope = "RALLY" /\ ~alone THEN NoStage ELSE p.stage>>

Counted(counts, key) == IF key \in DOMAIN counts THEN counts[key] ELSE 0

InStageOrder(penalties) ==
  LET given == DOMAIN penalties
  IN Sorted(given, {p \in given \X given : PricedBefore(penalties, p[1], p[2])})

\* The ith penalty, after those counted so far.
Price(penalties, types, acc, i) ==
  LET p == penalties[i] IN
  IF p.type \notin DOMAIN types
  THEN [counts |-> acc.counts, price |-> [acc.price EXCEPT ![i] = p.seconds * p.count]]
  ELSE LET key == CountedWith(types[p.type], p)
           before == Counted(acc.counts, key)
       IN [counts |-> [k \in DOMAIN acc.counts \cup {key} |->
                        IF k = key THEN before + p.count ELSE acc.counts[k]],
           price |-> [acc.price EXCEPT ![i] =
             OffencesCost(types[p.type].tiers, before + 1, before + p.count)]]

\* pricePenalties: one pass over the sorted penalties, with a counter per key.
Prices(penalties, types) ==
  FoldLeft(LAMBDA acc, i : Price(penalties, types, acc, i),
           [counts |-> <<>>, price |-> [i \in DOMAIN penalties |-> 0]],
           InStageOrder(penalties)).price

\* saveType: tiers start at the first offence and ascend.
ValidTiers(tiers) ==
  /\ tiers # <<>> /\ tiers[1].fromCount = 1
  /\ \A i \in 2 .. Len(tiers) : tiers[i].fromCount > tiers[i - 1].fromCount
=============================================================================

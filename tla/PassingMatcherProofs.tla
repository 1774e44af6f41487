------------------------- MODULE PassingMatcherProofs -------------------------
(***************************************************************************)
(* The matcher's verdicts, for any cars, window, lockout and number of     *)
(* edges, as long as every read comes less than READ_LAG_MS late and keeps *)
(* its own timestamp.  Verdicts look no further than two windows           *)
(* (SameVerdicts); what was dropped is further than that from whatever     *)
(* still waits, and what is to come further from whatever was settled      *)
(* (MatchInv).  So what was sent is, at any time, what the pairing rule    *)
(* says of all that was ever seen.                                         *)
(***************************************************************************)
EXTENDS PassingMatcher, FiniteSetTheorems, TLAPS

Beam == [t : Nat]
Read == [car : Cars, t : Nat]

\* Every read is reported in time to be waited for, and with its own time.
InTime == Lag < ReadLag /\ Lag <= AcceptedLag

-----------------------------------------------------------------------------
(* How far the pairing rule looks *)

\* The same beams and reads within two windows of t.
Agree(bs, rs, cs, ss, t) ==
  \A i \in bs \cup rs \cup cs \cup ss :
    i.t - t \in (-(2 * Window)) .. (2 * Window) =>
      /\ i \in bs <=> i \in cs
      /\ i \in rs <=> i \in ss

LEMMA PartnerIs ==
  ASSUME NEW bs, NEW rs, NEW b, NEW r
  PROVE  /\ r \in Partners(bs, rs, b) <=>
              Near(rs, b.t) = {r} /\ Cardinality(Near(bs, r.t)) = 1
         /\ Partners(bs, rs, b) = {r} <=>
              Near(rs, b.t) = {r} /\ Cardinality(Near(bs, r.t)) = 1
         /\ Partners(bs, rs, b) # {} => \E s : Partners(bs, rs, b) = {s}
BY DEF Partners

LEMMA SameVerdicts ==
  ASSUME NEW bs, NEW rs, NEW cs, NEW ss, NEW i, i.t \in Nat,
         \A j \in bs \cup rs \cup cs \cup ss : j.t \in Nat,
         Agree(bs, rs, cs, ss, i.t)
  PROVE  /\ BeamVerdict(bs, rs, i) = BeamVerdict(cs, ss, i)
         /\ ReadVerdicts(bs, rs, i) = ReadVerdicts(cs, ss, i)
         /\ Partners(bs, rs, i) = Partners(cs, ss, i)
<1>. USE MatcherAssumption
<1>1. ASSUME NEW t \in Nat, t - i.t \in (-Window) .. Window
      PROVE  Near(bs, t) = Near(cs, t) /\ Near(rs, t) = Near(ss, t)
  <2>1. \A j \in bs \cup rs \cup cs \cup ss :
          j.t - t \in (-Window) .. Window => j.t - i.t \in (-(2 * Window)) .. (2 * Window)
    BY <1>1
  <2>. QED  BY <2>1 DEF Agree, Near
<1>2. i.t - i.t \in (-Window) .. Window
  OBVIOUS
<1>3. Near(bs, i.t) = Near(cs, i.t) /\ Near(rs, i.t) = Near(ss, i.t)
  BY <1>1, <1>2
<1>4. \A r \in Near(rs, i.t) : Near(bs, r.t) = Near(cs, r.t)
  BY <1>1 DEF Near
<1>5. Partners(bs, rs, i) = Partners(cs, ss, i)
  BY <1>3, <1>4 DEF Partners
<1>6. BeamVerdict(bs, rs, i) = BeamVerdict(cs, ss, i)
  BY <1>3, <1>5 DEF BeamVerdict
<1>7. ASSUME NEW b \in bs, b.t - i.t \in (-Window) .. Window
      PROVE  Partners(bs, rs, b) = {i} <=> Partners(cs, ss, b) = {i}
  <2>1. Near(rs, b.t) = Near(ss, b.t)
    BY <1>1, <1>7
  <2>2. Cardinality(Near(bs, i.t)) = Cardinality(Near(cs, i.t))
    BY <1>3
  <2>3. Partners(bs, rs, b) = {i} <=> Near(rs, b.t) = {i} /\ Cardinality(Near(bs, i.t)) = 1
    BY DEF Partners
  <2>4. Partners(cs, ss, b) = {i} <=> Near(ss, b.t) = {i} /\ Cardinality(Near(cs, i.t)) = 1
    BY DEF Partners
  <2>. QED  BY <2>1, <2>2, <2>3, <2>4
<1>8. \A b \in Near(bs, i.t) : Partners(bs, rs, b) = {i} <=> Partners(cs, ss, b) = {i}
  BY <1>7 DEF Near
<1>9. ReadVerdicts(bs, rs, i) = ReadVerdicts(cs, ss, i)
  BY <1>3, <1>8 DEF ReadVerdicts
<1>. QED  BY <1>5, <1>6, <1>9

-----------------------------------------------------------------------------
(* What the matcher holds, and what it no longer needs *)

Dropped == (edges \ beams) \cup (passed \ reads)
Waiting == (beams \cup reads) \ emitted

\* What goes out for these beams and reads, given all that was ever reported.
Out(bs, rs) ==
  {BeamVerdict(edges, passed, b) : b \in bs} \cup
  UNION {ReadVerdicts(edges, passed, r) : r \in rs}

ItemsTyped ==
  /\ now \in Nat /\ running \in BOOLEAN
  /\ edges \subseteq Beam /\ IsFiniteSet(edges)
  /\ passed \subseteq Read /\ coming \subseteq Read
  /\ beams \subseteq edges /\ reads \subseteq passed /\ emitted \subseteq edges \cup passed
  /\ \A r, s \in passed \cup coming : r.car = s.car => r = s

MatchInv ==
  /\ ItemsTyped
  /\ \A i \in edges \cup passed : i.t <= now
  /\ \A r \in coming : r.t <= now /\ now <= r.t + Lag
  /\ Dropped \subseteq emitted
  /\ running => /\ \A i \in emitted : Settled(i.t)
                /\ \A i \in Dropped : /\ i.t + 2 * Window < now
                                      /\ \A j \in Waiting \cup coming : i.t + 2 * Window < j.t
  /\ ~running => Waiting = {}
  /\ sent = Out(edges \cap emitted, passed \cap emitted)

LEMMA BeamsAreNotReads == Beam \cap Read = {}
<1>. SUFFICES ASSUME NEW b \in Beam, b \in Read  PROVE FALSE
  OBVIOUS
<1>1. DOMAIN b = {"t"}
  BY DEF Beam
<1>2. DOMAIN b = {"car", "t"}
  BY DEF Read
<1>. QED  BY <1>1, <1>2

LEMMA Typed ==
  ASSUME ItemsTyped
  PROVE  /\ \A i \in edges \cup passed \cup coming \cup beams \cup reads : i.t \in Nat
         /\ edges \cap passed = {}
BY BeamsAreNotReads DEF ItemsTyped, Beam, Read

\* What is held decides about what waits as everything would.
LEMMA HeldIsEnough ==
  ASSUME MatchInv, running, NEW i \in Waiting
  PROVE  Agree(beams, reads, edges, passed, i.t)
BY Typed, MatcherAssumption DEF MatchInv, ItemsTyped, Agree, Dropped, Waiting

\* What comes, or is still to come, decides nothing about what is settled.
LEMMA LateIsFar ==
  ASSUME InTime, MatchInv, NEW t \in Nat, Settled(t), NEW bs, NEW rs,
         \A i \in bs \cup rs : i.t \in Nat /\ now <= i.t + Lag
  PROVE  /\ Agree(edges, passed, edges \cup bs, passed \cup rs, t)
         /\ \A i \in bs \cup rs : t + 2 * Window < i.t
BY Typed, MatcherAssumption DEF MatchInv, ItemsTyped, Agree, Settled, InTime

\* What is new leaves the verdicts that went out as they were.
LEMMA SentStays ==
  ASSUME InTime, MatchInv, running, NEW bs, NEW rs,
         \A i \in bs \cup rs : i.t \in Nat /\ now <= i.t + Lag,
         edges' = edges \cup bs, passed' = passed \cup rs, emitted' = emitted, sent' = sent
  PROVE  (sent = Out(edges \cap emitted, passed \cap emitted))'
<1>1. \A i \in emitted : i.t \in Nat /\ Settled(i.t)
  BY Typed DEF MatchInv, ItemsTyped
<1>2. ASSUME NEW i \in emitted, i \in bs \cup rs
      PROVE  FALSE
  <2>1. i.t + 2 * Window < i.t
    BY <1>1, <1>2, LateIsFar
  <2>. QED  BY <1>1, <2>1, MatcherAssumption
<1>4. (edges \cap emitted)' = edges \cap emitted /\ (passed \cap emitted)' = passed \cap emitted
  BY <1>2
<1>5. ASSUME NEW i \in emitted
      PROVE  /\ BeamVerdict(edges, passed, i)' = BeamVerdict(edges, passed, i)
             /\ ReadVerdicts(edges, passed, i)' = ReadVerdicts(edges, passed, i)
  <2>1. Agree(edges, passed, edges \cup bs, passed \cup rs, i.t)
    BY <1>1, LateIsFar
  <2>2. \A j \in edges \cup passed \cup (edges \cup bs) \cup (passed \cup rs) : j.t \in Nat
    BY Typed DEF MatchInv
  <2>3. /\ BeamVerdict(edges, passed, i) = BeamVerdict(edges \cup bs, passed \cup rs, i)
        /\ ReadVerdicts(edges, passed, i) = ReadVerdicts(edges \cup bs, passed \cup rs, i)
    BY <1>1, <2>1, <2>2, SameVerdicts
  <2>. QED  BY <2>3 DEF BeamVerdict, ReadVerdicts
<1>6. /\ {BeamVerdict(edges, passed, b)' : b \in edges \cap emitted}
           = {BeamVerdict(edges, passed, b) : b \in edges \cap emitted}
      /\ UNION {ReadVerdicts(edges, passed, r)' : r \in passed \cap emitted}
           = UNION {ReadVerdicts(edges, passed, r) : r \in passed \cap emitted}
  BY <1>5
<1>7. Out(edges \cap emitted, passed \cap emitted)'
        = {BeamVerdict(edges, passed, b)' : b \in (edges \cap emitted)'}
          \cup UNION {ReadVerdicts(edges, passed, r)' : r \in (passed \cap emitted)'}
  BY DEF Out
<1>8. sent = Out(edges \cap emitted, passed \cap emitted)
  BY DEF MatchInv
<1>. QED  BY <1>4, <1>6, <1>7, <1>8 DEF Out
-----------------------------------------------------------------------------
(* The invariant *)

\* What Emit adds, for beams and reads that still waited.
LEMMA EmitSends ==
  ASSUME MatchInv, running, NEW bs, NEW rs, bs \subseteq beams \ emitted,
         rs \subseteq reads \ emitted, Emit(bs, rs), UNCHANGED <<edges, passed>>
  PROVE  /\ emitted' = emitted \cup bs \cup rs /\ emitted' \subseteq edges \cup passed
         /\ (sent = Out(edges \cap emitted, passed \cap emitted))'
<1>1. /\ bs \subseteq Waiting /\ rs \subseteq Waiting /\ bs \subseteq edges /\ rs \subseteq passed
      /\ emitted' = emitted \cup bs \cup rs /\ emitted' \subseteq edges \cup passed
  BY DEF Waiting, MatchInv, ItemsTyped, Emit
<1>2. /\ (edges \cap emitted)' = (edges \cap emitted) \cup bs
      /\ (passed \cap emitted)' = (passed \cap emitted) \cup rs
  BY <1>1, Typed DEF MatchInv
<1>3. ASSUME NEW i \in bs \cup rs
      PROVE  /\ BeamVerdict(beams, reads, i) = BeamVerdict(edges, passed, i)
             /\ ReadVerdicts(beams, reads, i) = ReadVerdicts(edges, passed, i)
  <2>1. Agree(beams, reads, edges, passed, i.t)
    BY <1>1, HeldIsEnough
  <2>2. i.t \in Nat /\ \A j \in beams \cup reads \cup edges \cup passed : j.t \in Nat
    BY <1>1, Typed DEF MatchInv
  <2>. QED  BY <2>1, <2>2, SameVerdicts
<1>4. sent' = Out(edges \cap emitted, passed \cap emitted) \cup Out(bs, rs)
  <2>1. /\ {BeamVerdict(beams, reads, b) : b \in bs} = {BeamVerdict(edges, passed, b) : b \in bs}
        /\ UNION {ReadVerdicts(beams, reads, r) : r \in rs}
             = UNION {ReadVerdicts(edges, passed, r) : r \in rs}
    BY <1>3
  <2>. QED  BY <2>1 DEF Emit, MatchInv, Out
<1>5. \A S, T : Out(S, T)' = {BeamVerdict(edges, passed, b) : b \in S'}
                              \cup UNION {ReadVerdicts(edges, passed, r) : r \in T'}
  BY DEF Out, BeamVerdict, ReadVerdicts
<1>6. Out(edges \cap emitted, passed \cap emitted)'
        = Out((edges \cap emitted) \cup bs, (passed \cap emitted) \cup rs)
  BY <1>2 DEF Out
<1>7. Out((edges \cap emitted) \cup bs, (passed \cap emitted) \cup rs)
        = Out(edges \cap emitted, passed \cap emitted) \cup Out(bs, rs)
  BY DEF Out
<1>. QED  BY <1>1, <1>4, <1>6, <1>7

LEMMA MatchInit == Init => MatchInv
<1>. SUFFICES ASSUME Init PROVE MatchInv
  OBVIOUS
<1>1. IsFiniteSet(edges)
  BY FS_EmptySet DEF Init
<1>2. sent = Out(edges \cap emitted, passed \cap emitted)
  BY DEF Init, Out
<1>. QED  BY <1>1, <1>2 DEF Init, MatchInv, ItemsTyped, Dropped, Waiting

LEMMA FlushKeeps == InTime /\ MatchInv /\ Flush => MatchInv'
<1>. SUFFICES ASSUME InTime, MatchInv, Flush PROVE MatchInv'
  OBVIOUS
<1>. DEFINE bs == {b \in beams : b \notin emitted /\ Settled(b.t)}
            rs == {r \in reads : r \notin emitted /\ Settled(r.t)}
<1>1. /\ running /\ running' = running /\ UNCHANGED <<now, coming, edges, passed>>
      /\ bs \subseteq beams \ emitted /\ rs \subseteq reads \ emitted /\ Emit(bs, rs)
  BY DEF Flush
<1>2. /\ emitted' = emitted \cup bs \cup rs /\ emitted' \subseteq edges \cup passed
      /\ (sent = Out(edges \cap emitted, passed \cap emitted))'
  BY <1>1, EmitSends
<1>3. /\ beams' \subseteq beams /\ reads' \subseteq reads
      /\ \A i \in (beams \ beams') \cup (reads \ reads') : i \in emitted' /\ ~StillMatters(i.t)
  BY DEF Flush
<1>4. \A i \in emitted' : Settled(i.t)
  BY <1>1, <1>2 DEF MatchInv
<1>5. /\ Dropped' \subseteq emitted'
      /\ \A i \in Dropped' : i \in Dropped \/ ~StillMatters(i.t)
  BY <1>1, <1>2, <1>3 DEF Dropped, MatchInv
<1>6. /\ Waiting' \subseteq Waiting
      /\ \A j \in Waiting' : ~Settled(j.t)
  BY <1>2, <1>3 DEF Waiting
<1>7. \A i \in Dropped' \cup Waiting' \cup coming : i.t \in Nat
  BY <1>1, <1>3, <1>6, Typed DEF MatchInv, ItemsTyped, Dropped, Waiting
<1>8. ASSUME NEW i \in Dropped'
      PROVE  /\ i.t + 2 * Window < now
             /\ \A j \in Waiting' \cup coming : i.t + 2 * Window < j.t
  <2>1. CASE i \in Dropped
    BY <1>1, <1>6, <2>1 DEF MatchInv
  <2>2. CASE ~StillMatters(i.t)
    BY <1>6, <1>7, <2>2, MatcherAssumption
    DEF MatchInv, ItemsTyped, StillMatters, Settled, InTime
  <2>. QED  BY <1>5, <2>1, <2>2
<1>9. ItemsTyped'
  BY <1>1, <1>2, <1>3 DEF MatchInv, ItemsTyped
<1>. HIDE DEF bs, rs
<1>. QED  BY <1>1, <1>2, <1>4, <1>5, <1>8, <1>9 DEF MatchInv, Settled

LEMMA StopKeeps == MatchInv /\ Stop => MatchInv'
<1>. SUFFICES ASSUME MatchInv, Stop PROVE MatchInv'
  OBVIOUS
<1>. DEFINE bs == beams \ emitted
            rs == reads \ emitted
<1>1. /\ running /\ running' = FALSE /\ UNCHANGED <<now, coming, edges, passed>>
      /\ beams' = {} /\ reads' = {} /\ Emit(bs, rs)
  BY DEF Stop
<1>2. /\ emitted' = emitted \cup bs \cup rs /\ emitted' \subseteq edges \cup passed
      /\ (sent = Out(edges \cap emitted, passed \cap emitted))'
  BY <1>1, EmitSends
<1>3. Dropped' \subseteq emitted' /\ Waiting' = {}
  BY <1>1, <1>2 DEF Dropped, Waiting, MatchInv
<1>4. ItemsTyped'
  BY <1>1, <1>2 DEF MatchInv, ItemsTyped
<1>. HIDE DEF bs, rs
<1>. QED  BY <1>1, <1>2, <1>3, <1>4 DEF MatchInv

LEMMA MatchNext == InTime /\ MatchInv /\ [Next]_vars => MatchInv'
<1>. SUFFICES ASSUME InTime, MatchInv, [Next]_vars PROVE MatchInv'
  OBVIOUS
<1>0. ItemsTyped /\ Lag \in Nat /\ Window \in Nat /\ ReadLag \in Nat /\ AcceptedLag \in Nat
  BY MatcherAssumption DEF MatchInv
<1>1. ASSUME UNCHANGED <<edges, passed, emitted, sent>>
      PROVE  (sent = Out(edges \cap emitted, passed \cap emitted))'
  <2>1. Out(edges \cap emitted, passed \cap emitted)' = Out(edges \cap emitted, passed \cap emitted)
    BY <1>1 DEF Out
  <2>. QED  BY <1>1, <2>1 DEF MatchInv
<1>2. CASE UNCHANGED vars
  <2>1. (sent = Out(edges \cap emitted, passed \cap emitted))'
    BY <1>1, <1>2 DEF vars
  <2>. QED  BY <1>2, <2>1 DEF vars, MatchInv, ItemsTyped, Dropped, Waiting, Settled
<1>3. CASE TimePasses
  <2>1. (sent = Out(edges \cap emitted, passed \cap emitted))'
    BY <1>1, <1>3 DEF TimePasses
  <2>2. ItemsTyped' /\ Dropped' = Dropped /\ Waiting' = Waiting
    BY <1>3 DEF TimePasses, MatchInv, ItemsTyped, Dropped, Waiting
  <2>3. \A i \in edges \cup passed \cup coming \cup emitted \cup Dropped : i.t \in Nat
    BY <1>0, Typed DEF Dropped, ItemsTyped
  <2>. QED  BY <1>0, <1>3, <2>1, <2>2, <2>3 DEF TimePasses, MatchInv, ItemsTyped, Settled
<1>4. CASE Flush
  BY <1>4, FlushKeeps
<1>5. CASE Stop
  BY <1>5, StopKeeps
<1>6. CASE Edge
  <2>. DEFINE e == [t |-> now]
  <2>1. e \in Beam /\ e.t = now
    BY <1>0 DEF Beam, ItemsTyped
  <2>2. /\ running /\ edges' = edges \cup {e} /\ beams' = beams \cup {e}
        /\ UNCHANGED <<now, reads, emitted, coming, sent, passed, running>>
    BY <1>6 DEF Edge
  <2>. HIDE DEF e
  <2>3. (sent = Out(edges \cap emitted, passed \cap emitted))'
    <3>1. passed' = passed \cup {} /\ \A i \in {e} \cup {} : i.t \in Nat /\ now <= i.t + Lag
      BY <1>0, <2>1, <2>2 DEF ItemsTyped
    <3>. QED  BY <2>2, <3>1, SentStays
  <2>4. ItemsTyped'
    <3>1. IsFiniteSet(edges')
      BY <1>0, <2>2, FS_AddElement DEF ItemsTyped
    <3>. QED  BY <1>0, <2>1, <2>2, <3>1 DEF ItemsTyped
  <2>5. Dropped' \subseteq Dropped /\ Waiting' \subseteq Waiting \cup {e}
    BY <2>2 DEF Dropped, Waiting
  <2>6. e.t <= now
    BY <1>0, <2>1 DEF ItemsTyped
  <2>. QED  BY <2>1, <2>2, <2>3, <2>4, <2>5, <2>6 DEF MatchInv, Settled
<1>7. CASE \E c \in Cars : OverLoop(c)
  <2>. PICK c \in Cars : OverLoop(c)
    BY <1>7
  <2>. DEFINE r == [car |-> c, t |-> now]
  <2>1. r \in Read /\ r.t = now /\ r.car = c
    BY <1>0 DEF Read, ItemsTyped
  <2>2. /\ coming' = coming \cup {r} /\ \A s \in coming \cup passed : s.car # c
        /\ UNCHANGED <<now, beams, reads, emitted, sent, edges, passed, running>>
    BY DEF OverLoop
  <2>. HIDE DEF r
  <2>3. (sent = Out(edges \cap emitted, passed \cap emitted))'
    BY <1>1, <2>2
  <2>4. ItemsTyped' /\ Dropped' = Dropped /\ Waiting' = Waiting
    BY <1>0, <2>1, <2>2 DEF ItemsTyped, Dropped, Waiting
  <2>5. running' => /\ \A i \in emitted' : Settled(i.t)'
                    /\ \A i \in Dropped' :
                         /\ i.t + 2 * Window < now'
                         /\ \A j \in Waiting' \cup coming' : i.t + 2 * Window < j.t
    BY <2>1, <2>2, <2>4 DEF MatchInv, Settled
  <2>6. \A s \in coming' : s.t <= now' /\ now' <= s.t + Lag
    BY <1>0, <2>1, <2>2 DEF MatchInv, ItemsTyped
  <2>. QED  BY <2>2, <2>3, <2>4, <2>5, <2>6 DEF MatchInv
<1>8. CASE \E r \in coming : Report(r)
  <2>. PICK r \in coming : Report(r)
    BY <1>8
  <2>1. r \in Read /\ r.t \in Nat /\ r.t <= now /\ now <= r.t + Lag
    BY <1>0 DEF MatchInv, ItemsTyped, Read
  <2>2. now - r.t <= AcceptedLag /\ [r EXCEPT !.t = r.t] = r
    BY <1>0, <2>1 DEF InTime, Read, ItemsTyped
  <2>3. /\ running /\ reads' = reads \cup {r} /\ passed' = passed \cup {r}
        /\ coming' = coming \ {r}
        /\ UNCHANGED <<now, beams, emitted, sent, edges, running>>
    BY <2>2 DEF Report
  <2>4. (sent = Out(edges \cap emitted, passed \cap emitted))'
    <3>1. edges' = edges \cup {} /\ \A i \in {} \cup {r} : i.t \in Nat /\ now <= i.t + Lag
      BY <2>1, <2>3
    <3>. QED  BY <2>3, <3>1, SentStays
  <2>5. ItemsTyped' /\ Dropped' \subseteq Dropped /\ Waiting' \subseteq Waiting \cup {r}
    BY <1>0, <2>1, <2>3 DEF ItemsTyped, Dropped, Waiting
  <2>. QED  BY <2>1, <2>3, <2>4, <2>5 DEF MatchInv, Settled
<1>. QED  BY <1>2, <1>3, <1>4, <1>5, <1>6, <1>7, <1>8 DEF Next
-----------------------------------------------------------------------------
(* What the invariant says of what was sent *)

BeamNotes == {"pair", "candidates", "lone"}

LEMMA BeamSaid ==
  ASSUME NEW bs, NEW rs, NEW b
  PROVE  LET v == BeamVerdict(bs, rs, b)
         IN /\ v.t = b.t /\ v.note \in BeamNotes
            /\ \/ Partners(bs, rs, b) = {} /\ v.car = None
               \/ \E r \in Near(rs, b.t) :
                    /\ Partners(bs, rs, b) = {r} /\ v.car = r.car
                    /\ Cardinality(Near(bs, r.t)) = 1
<1>. DEFINE found == Partners(bs, rs, b) # {}
            car == IF ~found THEN None ELSE (CHOOSE r \in Partners(bs, rs, b) : TRUE).car
            note == IF found THEN "pair"
                    ELSE IF Near(rs, b.t) # {} THEN "candidates" ELSE "lone"
<1>1. BeamVerdict(bs, rs, b) = [t |-> b.t, car |-> car, note |-> note]
  BY DEF BeamVerdict
<1>2. note \in BeamNotes
  BY DEF BeamNotes
<1>3. \/ Partners(bs, rs, b) = {} /\ car = None
      \/ \E r \in Near(rs, b.t) : /\ Partners(bs, rs, b) = {r} /\ car = r.car
                                  /\ Cardinality(Near(bs, r.t)) = 1
  BY DEF Partners
<1>. HIDE DEF found, car, note
<1>. QED  BY <1>1, <1>2, <1>3

LEMMA ReadSaid ==
  ASSUME NEW bs, NEW rs, NEW r, NEW v \in ReadVerdicts(bs, rs, r)
  PROVE  /\ v.car = r.car /\ v.note \notin BeamNotes
         /\ ReadVerdicts(bs, rs, r) = {v}
         /\ \A b : Near(bs, r.t) = {b} => Partners(bs, rs, b) # {r}
<1>. DEFINE near == Near(bs, r.t)
            note == IF near = {} THEN "missed" ELSE "ambiguous"
<1>1. ~ \E b \in near : near = {b} /\ Partners(bs, rs, b) = {r}
  BY DEF ReadVerdicts
<1>2. ReadVerdicts(bs, rs, r) = {[t |-> r.t, car |-> r.car, note |-> note]}
  BY <1>1 DEF ReadVerdicts
<1>3. note \notin BeamNotes
  BY DEF BeamNotes
<1>. HIDE DEF note
<1>. QED  BY <1>1, <1>2, <1>3

\* A gate in operation sent what the pairing rule says of all the edges and
\* reads there ever were, those that came later included: "an item settles once
\* everything that could pair with it, or with its partner, has arrived".
THEOREM SettledVerdictsStandHolds == ASSUME InTime PROVE Spec => []SettledVerdictsStand
<1>1. ASSUME MatchInv, running  PROVE SettledVerdictsStand
  <2>. DEFINE every == passed \cup coming
  <2>1. ASSUME NEW i \in emitted
        PROVE  /\ BeamVerdict(edges, passed, i) = BeamVerdict(edges, every, i)
               /\ ReadVerdicts(edges, passed, i) = ReadVerdicts(edges, every, i)
    <3>1. i.t \in Nat /\ Settled(i.t) /\ \A j \in edges \cup passed \cup coming : j.t \in Nat
      BY <1>1, Typed DEF MatchInv, ItemsTyped
    <3>2. Agree(edges, passed, edges \cup {}, passed \cup coming, i.t)
      BY <1>1, <3>1, LateIsFar DEF MatchInv
    <3>3. Agree(edges, passed, edges, every, i.t)
      BY <3>2
    <3>. QED  BY <3>1, <3>3, SameVerdicts
  <2>2. sent = {BeamVerdict(edges, passed, b) : b \in edges \cap emitted}
                 \cup UNION {ReadVerdicts(edges, passed, r) : r \in passed \cap emitted}
    BY <1>1 DEF MatchInv, Out
  <2>3. {BeamVerdict(edges, passed, b) : b \in edges \cap emitted}
          \subseteq {BeamVerdict(edges, every, b) : b \in edges}
    BY <2>1
  <2>4. UNION {ReadVerdicts(edges, passed, r) : r \in passed \cap emitted}
          \subseteq UNION {ReadVerdicts(edges, every, r) : r \in every}
    BY <2>1
  <2>. QED  BY <2>2, <2>3, <2>4 DEF SettledVerdictsStand
<1>2. MatchInv => SettledVerdictsStand
  BY <1>1 DEF SettledVerdictsStand
<1>. QED  BY <1>2, MatchInit, MatchNext, PTL DEF Spec
-----------------------------------------------------------------------------
(* Once *)

Sent(i) == {v \in sent : IF i \in edges THEN v.t = i.t /\ v.note \in BeamNotes
                                        ELSE v.car = i.car}

LEMMA AtMostOne ==
  ASSUME NEW S, \A v, w \in S : v = w
  PROVE  Cardinality(S) <= 1
<1>1. CASE S = {}
  BY <1>1, FS_EmptySet
<1>2. CASE S # {}
  <2>1. PICK v \in S : S = {v}
    BY <1>2
  <2>. QED  BY <2>1, FS_Singleton
<1>. QED  BY <1>1, <1>2

\* A beam alone near a read is the only one that can be paired with it.
LEMMA OneBeamOnly ==
  ASSUME MatchInv, NEW t \in Nat, Cardinality(Near(edges, t)) = 1
  PROVE  \A a, b \in Near(edges, t) : a = b
<1>1. IsFiniteSet(Near(edges, t))
  <2>1. Near(edges, t) \in SUBSET edges /\ IsFiniteSet(edges)
    BY DEF Near, MatchInv, ItemsTyped
  <2>. QED  BY <2>1, FS_Subset
<1>2. \E x : Near(edges, t) = {x}
  BY <1>1, FS_Singleton
<1>. QED  BY <1>2

LEMMA EdgeOnce ==
  ASSUME MatchInv, NEW i \in edges
  PROVE  /\ \A v \in Sent(i) : v = BeamVerdict(edges, passed, i)
         /\ Sent(i) # {} \/ i \in Waiting
<1>1. \A b \in edges : b.t = i.t => b = i
  BY DEF MatchInv, ItemsTyped, Beam
<1>2. sent = {BeamVerdict(edges, passed, b) : b \in edges \cap emitted}
               \cup UNION {ReadVerdicts(edges, passed, r) : r \in passed \cap emitted}
  BY DEF MatchInv, Out
<1>3. ASSUME NEW v \in Sent(i)
      PROVE  v = BeamVerdict(edges, passed, i)
  <2>1. v \in sent /\ v.t = i.t /\ v.note \in BeamNotes
    BY DEF Sent
  <2>2. \A r : v \notin ReadVerdicts(edges, passed, r)
    BY <2>1, ReadSaid
  <2>3. PICK b \in edges : v = BeamVerdict(edges, passed, b)
    BY <1>2, <2>1, <2>2
  <2>4. b.t = v.t
    BY <2>3, BeamSaid
  <2>. QED  BY <1>1, <2>1, <2>3, <2>4
<1>4. CASE i \in emitted
  <2>1. BeamVerdict(edges, passed, i) \in sent
    BY <1>2, <1>4
  <2>2. /\ BeamVerdict(edges, passed, i).t = i.t
        /\ BeamVerdict(edges, passed, i).note \in BeamNotes
    BY BeamSaid
  <2>3. BeamVerdict(edges, passed, i) \in Sent(i)
    BY <2>1, <2>2 DEF Sent
  <2>. QED  BY <1>3, <2>3
<1>5. CASE i \notin emitted
  BY <1>3, <1>5 DEF MatchInv, Dropped, Waiting
<1>. QED  BY <1>4, <1>5

LEMMA ReadOnce ==
  ASSUME InTime, MatchInv, NEW i \in passed
  PROVE  /\ \A v, w \in Sent(i) : v = w
         /\ \/ Sent(i) # {} \/ i \in Waiting
            \/ \E b \in Waiting \cap edges : Partners(beams, reads, b) = {i}
<1>0. i \in Read /\ i \notin edges /\ i.t \in Nat
  BY Typed DEF MatchInv, ItemsTyped
<1>1. \A r \in passed : r.car = i.car => r = i
  BY DEF MatchInv, ItemsTyped
<1>2. sent = {BeamVerdict(edges, passed, b) : b \in edges \cap emitted}
               \cup UNION {ReadVerdicts(edges, passed, r) : r \in passed \cap emitted}
  BY DEF MatchInv, Out
<1>3. ASSUME NEW b \in edges, BeamVerdict(edges, passed, b).car = i.car
      PROVE  /\ Partners(edges, passed, b) = {i}
             /\ Near(edges, i.t) = {b}
  <2>1. i.car # None
    BY <1>0, MatcherAssumption DEF Read
  <2>2. PICK r \in Near(passed, b.t) : /\ Partners(edges, passed, b) = {r} /\ i.car = r.car
                                       /\ Cardinality(Near(edges, r.t)) = 1
    BY <1>3, <2>1, BeamSaid
  <2>3. r = i
    BY <1>1, <2>2 DEF Near
  <2>4. b.t \in Nat /\ b \in Near(edges, i.t)
    BY <1>0, <2>2, <2>3, Typed, MatcherAssumption DEF Near, MatchInv
  <2>. QED  BY <1>0, <2>2, <2>3, <2>4, OneBeamOnly
<1>4. ASSUME NEW v \in Sent(i)
      PROVE  \/ \E b \in edges : /\ v = BeamVerdict(edges, passed, b)
                                 /\ Partners(edges, passed, b) = {i} /\ Near(edges, i.t) = {b}
             \/ v \in ReadVerdicts(edges, passed, i)
  <2>1. v \in sent /\ v.car = i.car
    BY <1>0 DEF Sent
  <2>2. CASE \E b \in edges : v = BeamVerdict(edges, passed, b)
    BY <1>3, <2>1, <2>2
  <2>3. CASE \E r \in passed : v \in ReadVerdicts(edges, passed, r)
    <3>. PICK r \in passed : v \in ReadVerdicts(edges, passed, r)
      BY <2>3
    <3>1. r.car = i.car
      BY <2>1, ReadSaid
    <3>. QED  BY <1>1, <3>1
  <2>. QED  BY <1>2, <2>1, <2>2, <2>3
<1>5. ASSUME NEW v \in Sent(i), NEW w \in Sent(i)
      PROVE  v = w
  <2>1. ASSUME NEW u, u \in ReadVerdicts(edges, passed, i)
        PROVE  /\ ReadVerdicts(edges, passed, i) = {u}
               /\ ~ \E b \in edges : Partners(edges, passed, b) = {i} /\ Near(edges, i.t) = {b}
    BY <2>1, ReadSaid
  <2>2. CASE v \in ReadVerdicts(edges, passed, i)
    BY <1>4, <2>1, <2>2
  <2>3. CASE w \in ReadVerdicts(edges, passed, i)
    BY <1>4, <2>1, <2>3
  <2>4. CASE v \notin ReadVerdicts(edges, passed, i) /\ w \notin ReadVerdicts(edges, passed, i)
    <3>1. PICK b \in edges : v = BeamVerdict(edges, passed, b) /\ Near(edges, i.t) = {b}
      BY <1>4, <2>4
    <3>2. PICK c \in edges : w = BeamVerdict(edges, passed, c) /\ Near(edges, i.t) = {c}
      BY <1>4, <2>4
    <3>3. b = c
      BY <3>1, <3>2
    <3>. QED  BY <3>1, <3>2, <3>3
  <2>. QED  BY <2>2, <2>3, <2>4
<1>6. CASE i \notin emitted
  BY <1>5, <1>6 DEF MatchInv, Dropped, Waiting
<1>7. CASE i \in emitted /\ ReadVerdicts(edges, passed, i) # {}
  <2>1. PICK v : v \in ReadVerdicts(edges, passed, i)
    BY <1>7
  <2>2. v \in sent /\ v.car = i.car
    BY <1>2, <1>7, <2>1, ReadSaid
  <2>. QED  BY <1>0, <1>5, <2>2 DEF Sent
<1>8. CASE i \in emitted /\ ReadVerdicts(edges, passed, i) = {}
  <2>1. PICK b \in Near(edges, i.t) :
          Near(edges, i.t) = {b} /\ Partners(edges, passed, b) = {i}
    BY <1>8 DEF ReadVerdicts
  <2>2. b \in edges /\ b.t \in Nat /\ b.t - i.t \in (-Window) .. Window
    BY <2>1, Typed DEF Near, MatchInv
  <2>3. CASE b \in emitted
    <3>1. BeamVerdict(edges, passed, b) \in sent
      BY <1>2, <2>2, <2>3
    <3>2. BeamVerdict(edges, passed, b).car = i.car
      BY <2>1, BeamSaid
    <3>. QED  BY <1>0, <1>5, <3>1, <3>2 DEF Sent
  <2>4. CASE b \notin emitted
    <3>1. b \in Waiting /\ running /\ b \in beams
      BY <2>2, <2>4 DEF MatchInv, Dropped, Waiting
    <3>2. Agree(beams, reads, edges, passed, b.t)
      BY <3>1, HeldIsEnough
    <3>3. Partners(beams, reads, b) = Partners(edges, passed, b)
      <4>1. \A j \in beams \cup reads \cup edges \cup passed : j.t \in Nat
        BY Typed DEF MatchInv
      <4>2. b.t \in Nat
        BY <2>2
      <4>. QED  BY <3>2, <4>1, <4>2, SameVerdicts
    <3>. QED  BY <1>5, <2>1, <2>2, <3>1, <3>3
  <2>. QED  BY <2>3, <2>4
<1>. QED  BY <1>5, <1>6, <1>7, <1>8

\* Every edge and every reported read goes out once, or still waits, itself or
\* with the beam it is paired with: nothing goes out twice, in two roles, or is
\* dropped unsent, a stop of the agent included.
THEOREM EveryItemGoesOutOnceHolds == ASSUME InTime PROVE Spec => []EveryItemGoesOutOnce
<1>1. ASSUME MatchInv  PROVE EveryItemGoesOutOnce
  <2>1. ASSUME NEW i \in edges \cup passed
        PROVE  /\ Cardinality(Sent(i)) <= 1
               /\ \/ Sent(i) # {} \/ i \in Waiting
                  \/ \E b \in Waiting \cap edges : Partners(beams, reads, b) = {i}
    <3>1. \A v, w \in Sent(i) : v = w
      BY <1>1, EdgeOnce, ReadOnce
    <3>2. Cardinality(Sent(i)) <= 1
      BY <3>1, AtMostOne
    <3>. QED  BY <1>1, <3>2, EdgeOnce, ReadOnce
  <2>. QED  BY <2>1 DEF EveryItemGoesOutOnce, Sent, Waiting, BeamNotes
<1>. QED  BY <1>1, MatchInit, MatchNext, PTL DEF Spec
=============================================================================
